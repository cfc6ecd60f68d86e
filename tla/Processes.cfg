SPECIFICATION AllSpec
CONSTANTS
    Clients = {c1, c2, c3}
    Listen = Listen
    Free = Free
    None = None
    MaxEvents = 2
    MaxFd = 2
    Resets = TRUE
    Servers = {s1, s2}
    Pids = {p1, p2}
    MaxRuns = 2
    Fit = 2
    Longest = 3
    MaxQueue = 1
    Receivers = {r1, r2, r3}
    Senders = {t1, t2, t3}
    Letters = 6
    BufLen = 4
INVARIANTS
    AnswersOwnRequest
    ExitExplained
    OwnAnswer
    StaleMeansKilled
    PrintsAllInOrder
    ReadsAll
    KeepsEveryLetter
PROPERTIES
    EveryClientIsAnswered
    AnsweredIfServed
    ExchangeAndEnd
    Ends
CHECK_DEADLOCK FALSE
