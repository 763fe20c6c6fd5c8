CONSTANTS
    Attempt = {a1, a2}
    Conn = {c1, c2}
    None = None
    StorageBound = 1
    Failures = {}
    BridgeMayLeave = FALSE
SPECIFICATION PSpec
INVARIANT KeysAgree
CHECK_DEADLOCK FALSE
