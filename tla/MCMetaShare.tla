---------------------------- MODULE MCMetaShare -----------------------------
(* Blocks of two cache lines and two different fills: enough for a mix of  *)
(* two blocks, and for stale copies of one, to show.                       *)
EXTENDS MetaShare

CONSTANTS d1, d2, c1, c2

MCHost == {W, R}
MCChunks == {d1, d2}
MCLine == {Flag, d1, d2}
MCContent == {c1, c2}
MCValue == MCContent \cup {Full, Empty}
=============================================================================
