SPECIFICATION Spec
CONSTANTS
    N = 6
INVARIANTS
    FirstThreadWritesA
CHECK_DEADLOCK FALSE
