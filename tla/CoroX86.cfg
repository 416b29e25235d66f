SPECIFICATION Spec
CONSTANTS
    Coros = {c1, c2, c3}
    Switchers = {s1, s2}
    Main = main
    Values = {v1, v2}
    NULL = NULL
    Stale = Stale
    Wild = Wild
    SavesCaller = FALSE
    NestShared = FALSE
SYMMETRY Symmetry
INVARIANTS TypeOK NoWildSwap ResumableHasOwnContext
PROPERTIES RefinesResumeChain
