CONSTANTS
    g1 = g1
    g2 = g2
    p1 = p1
    p2 = p2
    None = None
    Guarded = {g1, g2}
    Plain = {p1, p2}
    File = {1, 2}
    Ring = {1, 2, 3, 4}
    Fd = {0, 1}
SPECIFICATION Spec
INVARIANTS
    RingBelongsToFile
    GuardedThroughName
SYMMETRY MCSymmetry
