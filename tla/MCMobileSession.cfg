CONSTANTS
    Attempt = {a1, a2}
    Conn = {c1, c2, c3}
    None = None
    StorageBound = 2
    Failures = {"load", "write", "delete", "parse"}
SPECIFICATION FairSpec
INVARIANT ConnectedIsOpen
INVARIANT OneConnection
INVARIANT ForgottenIsForgotten
PROPERTY LaunchCompletes
PROPERTY PairSettles
CHECK_DEADLOCK FALSE
