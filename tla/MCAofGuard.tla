----------------------------- MODULE MCAofGuard -----------------------------
(* A ring of two blocks of two bytes, the smallest aofguard_init accepts,   *)
(* whose block numbers use the whole field of the mixed word.               *)
EXTENDS AofGuard

CONSTANTS a, b, z

MCByte == {a, b}
MCRecords == {<<a>>, <<b, a, b, b>>}
MCFiles == {<<>>, <<b>>}
=============================================================================
