CONSTANTS
    w1 = w1
    w2 = w2
    r1 = r1
    r2 = r2
    c1 = c1
    c2 = c2
    Junk = Junk
    NoCopy = NoCopy
    TableSize = 1
    Writers = {w1, w2}
    Readers = {r1, r2}
    Block = {0}
    Part = {1}
    Content <- MCTwoFills
    MayDie = {w1, w2, r1, r2}
    MaxStarted = 3
    MayRestart = TRUE
    Host <- MCHost
    Line <- MCLine
    Value <- MCValue
SPECIFICATION Spec
INVARIANTS
    MutualExclusion
    ReadsLastWrite
    Accounting
SYMMETRY MCSymmetry
CHECK_DEADLOCK FALSE
