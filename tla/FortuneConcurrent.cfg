SPECIFICATION Spec
CONSTANTS
    Procs = {p1, p2}
    Size = 2
    MaxCalls = 4
    OpenEarly = TRUE
SYMMETRY ProcSymmetry
INVARIANTS
    FaultExplained
    UnloadedIsClean
CHECK_DEADLOCK FALSE
