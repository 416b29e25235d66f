CONSTANTS
    Selves = {s1, s2}
    Main = main
    Objects = {o1, o2}
    NULL = null
    Garbage = garbage
    MaxBridges = 3
    Caller = "any"
SYMMETRY Symmetry
VIEW WithoutCodes
SPECIFICATION Spec
INVARIANTS TypeOK CallbackUsesItsBridge
PROPERTIES ShortOnlyByLeftovers LeaksOnlyWhenCutShort RefinesFutures
CHECK_DEADLOCK FALSE
