SPECIFICATION MCSpec
CONSTANTS
    SP = SP
    Colon = Colon
    CR = CR
    LF = LF
    Other = Other
    MaxChunks = 5
    BufLen = 17
    Buffers <- MCBuffers
    InitLen = 2
    Grow = 2
CHECK_DEADLOCK TRUE
INVARIANTS TypeOK HeadersTile SlotsAllocated OverreadIsBounded RequestLineParsed HeadersParsed
