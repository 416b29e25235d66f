SPECIFICATION Spec
CONSTANTS
    Coros = {c1, c2, c3}
    Switchers = {s1, s2}
    Main = main
    Values = {v1}
    NULL = NULL
    Stale = Stale
    Wild = Wild
    SavesCaller = TRUE
    NestShared = TRUE
SYMMETRY Symmetry
PROPERTIES RefinesResumeChain
