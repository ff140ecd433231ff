CONSTANTS
    w1 = w1
    w2 = w2
    r1 = r1
    r2 = r2
    c1 = c1
    c2 = c2
    Junk = Junk
    NoCopy = NoCopy
    TableSize = 1
    Writers = {w1}
    Readers = {r1}
    Block = {0, 1}
    Part = {1}
    Content <- MCOneFill
    MayDie = {}
    MaxStarted = 2
    MayRestart = FALSE
    Host <- MCHost
    Line <- MCLine
    Value <- MCValue
SPECIFICATION FairSpec
INVARIANT TableIsMap
PROPERTIES
    Answered
    SomebodyEnters
