SPECIFICATION AllSpec
CONSTANTS
    MaxKeys = 3
    Readers = {r1}
INVARIANTS
    IInv
    FaultNeedsWindow
    WqFaultNeedsWindow
    LeftBehind
    WqLastKeyNotLost
PROPERTIES
    KeyArrivesAndUnloadEnds
    KeyIsPrintedAndUnloadEnds
CHECK_DEADLOCK FALSE
