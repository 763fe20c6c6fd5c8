CONSTANTS
    Conn = {c1, c2}
    Null = Null
    MaxSends = 0
SPECIFICATION Spec
PROPERTY StaysDisconnected
CHECK_DEADLOCK FALSE
