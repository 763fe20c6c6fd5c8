\* Two parties and a newcomer, two session codes; a session that is closed can
\* be created again while its sockets are still closing.
CONSTANTS
    Socket = {w1, w2, w3}
    SessionId = {s1, s2}
    NoSocket = NoSocket
    NoSession = NoSession
    HeartbeatInterval = 1
    HeartbeatMaxMisses = 1
    SessionTimeout = 2
SPECIFICATION FairSpec
INVARIANT RegistryConsistent
INVARIANT NoOrphans
PROPERTY SlotsAreHeldUntilClosed
PROPERTY OnlyPartnersAreHeard
PROPERTY KeepsPromise
PROPERTY SilentSessionsExpire
PROPERTY ShutdownCompletes
CHECK_DEADLOCK FALSE
