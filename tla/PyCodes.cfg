CONSTANTS
    Selves = {s1, s2}
    Main = main
    Objects = {o1, o2}
    NULL = null
    Garbage = garbage
    MaxBridges = 3
    Caller = "codes"
SYMMETRY Symmetry
SPECIFICATION Spec
INVARIANT AssertionHolds
CHECK_DEADLOCK FALSE
