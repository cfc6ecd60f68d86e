SPECIFICATION AllSpec
CONSTANTS
    Mounts = {m1, m2, m3}
    Number = 4
    Files = {f1, f2}
    Limit = 3
    RecSize = 2
    BufSizes = {1, 5}
    MaxReads = 4
    Procs = {p1, p2}
    Size = 3
    Texts <- MCTexts
    Pids <- MCPids
    Parent <- MCParent
    MaxCalls = 3
SYMMETRY Symmetry
INVARIANTS
    UnloadsClean
    MyUnloadsClean
    DeliversInOrder
    LeaksOnePerPass
    ShowsLastWrite
    FaultExplained
CHECK_DEADLOCK FALSE
