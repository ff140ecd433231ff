CONSTANTS
    W = W
    R = R
    Flag = Flag
    d1 = d1
    d2 = d2
    c1 = c1
    c2 = c2
    Full = Full
    Empty = Empty
    NoCopy = NoCopy
    RestartsOverlap = FALSE
    Host <- MCHost
    Line <- MCLine
    Chunks <- MCChunks
    Content <- MCContent
    Value <- MCValue
SPECIFICATION FairSpec
INVARIANTS
    CrcMatches
    PublishedWhole
PROPERTIES
    HandOver
    KeepsReading
