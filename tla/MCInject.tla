----------------------------- MODULE MCInject -------------------------------
(* Two guarded and two plain paths, two descriptors and two files.         *)
EXTENDS Inject, TLC

CONSTANTS g1, g2, p1, p2

MCSymmetry == Permutations(Guarded) \cup Permutations(Plain)
=============================================================================
