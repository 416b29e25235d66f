SPECIFICATION FairSpec
CONSTANTS
    Half = 4
    Increment = 2
    ElemSize = 3
    Addrs = {p1, p2}
    NULL = NULL
    Blocks = {b1, b2}
    Hooks = {h1}
    Items <- MCItems
CHECK_DEADLOCK TRUE
INVARIANTS TypeOK ElementsAllocated PendingFreesAreValid NoLeak StaleOnlyAfterGrowth
PROPERTIES ImplementsDeferStack FreeReleasesAll
