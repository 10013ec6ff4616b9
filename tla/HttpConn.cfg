SPECIFICATION MCSpec
CONSTANTS
    READ_BUFFER_SIZE = 13
    INT_MAX = 30
    Lengths <- MCLengths
    atoi <- Value
    Segments <- MCSegments
    Headers <- MCHeaders
    Files <- MCFiles
    SendBuffer = 4
    LowWater = 1
    MaxResponses = 3
CHECK_DEADLOCK FALSE
INVARIANTS  VerdictRight WriterInv IntactWithRoom
PROPERTIES ParseReturns
