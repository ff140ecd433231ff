--------------------------- MODULE MCLockService ----------------------------
(* Small instances; where there are two blocks they share a chain.         *)
EXTENDS LockService, TLC

CONSTANTS w1, w2, r1, r2, c1, c2

MCLine == Block \X Part
MCHost == Client
MCOneFill == {c1}
MCTwoFills == {c1, c2}
MCValue == Content \cup {Junk}
MCSymmetry == Permutations(Writers) \cup Permutations(Readers)
                \cup Permutations(Content)
=============================================================================
