\* Two calls of pair() over two connections, which are used again and again;
\* the bridge's connection comes and goes.
CONSTANTS
    Attempt = {a1, a2}
    Conn = {c1, c2}
    None = None
    StorageBound = 1
    Failures = {}
    BridgeMayLeave = TRUE
SPECIFICATION PFairSpec
INVARIANT BridgeHearsInOrder
PROPERTIES ConfirmTakesEffect AgreeOnceHeard
CHECK_DEADLOCK FALSE
