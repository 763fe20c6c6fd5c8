\* connect(), disconnect() and send() in any order, connect() again after
\* disconnect() included, while the events of earlier connections still come.
CONSTANTS
    Conn = {c1, c2, c3}
    Null = Null
    MaxSends = 2
SPECIFICATION FairSpec
INVARIANT OneConnectionAtATime
INVARIANT HeartbeatFollowsConnection
INVARIANT BackoffNeverGrows
PROPERTY KeepsOrder
PROPERTY LostConnectionIsRetried
