SPECIFICATION Spec
CONSTANTS
    Procs = {p1}
    Size = 5
    MaxCalls = 7
    OpenEarly = FALSE
PROPERTIES
    IsCookieRing
CHECK_DEADLOCK FALSE
