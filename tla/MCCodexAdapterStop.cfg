\* One request and one signal would do; the constants are those of the other run.
CONSTANTS
    r1 = r1
    r2 = r2
    r3 = r3
    i1 = i1
    i2 = i2
    Request = {r1, r2, r3}
    Id = {i1, i2}
    IdOf <- IdsOfRequests
    NoRequest = NoRequest
    Stopper = {s1}
SPECIFICATION Spec
INVARIANT StopWaitsForExit
CHECK_DEADLOCK FALSE
