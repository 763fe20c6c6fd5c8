\* Two pairings and two requests, and one notification of the agent, with the
\* connection to the relay lost and made again any number of times.
CONSTANTS
    Pairing = {p1, p2}
    Request = {r1, r2}
    None = None
    Event = Event
    MaxEvents = 1
SPECIFICATION FairSpec
INVARIANT OneReplyEach
INVARIANT KeysOnlyMoveOn
PROPERTY RequestsAreAnswered
CHECK_DEADLOCK FALSE
