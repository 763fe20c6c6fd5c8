\* Three requests, two of which share an id, and two signals.
CONSTANTS
    r1 = r1
    r2 = r2
    r3 = r3
    i1 = i1
    i2 = i2
    Request = {r1, r2, r3}
    Id = {i1, i2}
    IdOf <- IdsOfRequests
    NoRequest = NoRequest
    Stopper = {s1, s2}
SPECIFICATION FairSpec
INVARIANT PendingIsWaiting
INVARIANT OwnAnswers
PROPERTY SettlesOnce
INVARIANT NothingPendsAfterTheEnd
PROPERTY EveryRequestSettles
PROPERTY StartSettles
PROPERTY StopIsFinal
CHECK_DEADLOCK FALSE
