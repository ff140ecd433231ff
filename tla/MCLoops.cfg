CONSTANTS
    n1 = n1
    n2 = n2
    n3 = n3
    v1 = v1
    v2 = v2
    Null = Null
    Node <- MCNode
    Value <- MCValue
    Numbers <- MCNumbers
    PrequeLen = 2
    MaxLines = 4
    MaxTears = 2
    CrcTypes <- MCCrcTypes
    Bytes <- MCBytes
    MaxLength = 3
    LineSize = 4
    MaxAddr = 9
    MaxLen = 13
    MaxJobs = 3
    MaxBlock = 3
    MaxSize = 14
    PageBytes = 3
    MaxPages = 5
    MaxFiles = 2
SPECIFICATION LoopsSpec
INVARIANTS
    ListIsWhole
    EnquesReplayed
    ReplaySurvives
    CrcIsRemainder
    CrcTellsApart
    FlushedExactly
    JobsInPool
    MovedOnce
    HalfOverwritten
PROPERTY ImplementsFifo
