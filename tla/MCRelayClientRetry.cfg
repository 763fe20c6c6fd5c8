CONSTANTS
    Conn = {c1, c2}
    Null = Null
    MaxSends = 0
SPECIFICATION FairSpec
PROPERTY KeepsReconnecting
CHECK_DEADLOCK FALSE
