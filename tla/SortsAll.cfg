SPECIFICATION Spec
CONSTANTS
    Half = 4
    Increment = 2
    ElemSize = 3
    Addrs = {p1, p2}
    NULL = NULL
    Items <- MCItems
INVARIANT SortsAll
