\* One bridge and one client, one of which falls silent.
CONSTANTS
    Socket = {w1, w2}
    SessionId = {s1}
    NoSocket = NoSocket
    NoSession = NoSession
    HeartbeatInterval = 1
    HeartbeatMaxMisses = 2
    SessionTimeout = 3
SPECIFICATION HFairSpec
PROPERTY SilentPartyIsDropped
CHECK_DEADLOCK FALSE
