SPECIFICATION Spec
CONSTANTS
    na = na
    nb = nb
    Size = 4
    Names <- MCNames
    NameLen <- MCNameLen
    NameMax = 2
    PathAlloc = 3
    MaxOpen = 3
    Arguments <- MCArguments
INVARIANTS
    CountsOnce
    InPlace
CHECK_DEADLOCK FALSE
