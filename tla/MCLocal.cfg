\* Two threads; three turns; two calls of the database; two files; a tree of
\* directories two deep; three texts to pair with, one of them refused;
\* four key pairs, an empty and another text to seal.
CONSTANTS
    t1 = t1
    t2 = t2
    Thread = {t1, t2}
    ThreadId = {t1, t2}
    NoTurn = NoTurn
    Delay = 2
    MaxTurns = 3
    MaxTime = 7
    Call = {a, b}
    MessageId = {m}
    NoRow = NoRow
    Lists <- MCLists
    SavedRows = {"shown"}
    NoSnapshot = NoSnapshot
    Char <- MCChars
    Paths <- MCPaths
    Codes <- MCCodes
    Branch = {main, topic}
    Counts <- MCCounts
    None = None
    Name = {x, y}
    MaxDepth = 2
    Configs <- MCConfigs
    NoValue = NoValue
    Payload = {p1, p2, bad}
    Valid = {p1, p2}
    Blank = Blank
    MaxCalls = 3
    CodeName = {n1}
    Text <- MCTexts
    Unset = Unset
    Failed = Failed
    MaxKeys = 4
    MaxSealed = 1
SPECIFICATION Spec
INVARIANT OneTurnAtATime
INVARIANT RepeatedIds
INVARIANT EveryMessageAnswered
INVARIANT MessagesHaveThreads
INVARIANT TransactionsAreOwn
INVARIANT SavedMessagesStay
INVARIANT StatusReadsGit
INVARIANT DetectsWorkspace
INVARIANT OneSubmissionAtATime
INVARIANT SealedMessagesOpen
CHECK_DEADLOCK FALSE
