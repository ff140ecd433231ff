----------------------------- MODULE FlushRange -----------------------------
(***************************************************************************)
(* The loops of cxl_memory_sharing/rw_info.c that turn an address and a    *)
(* length into cache lines to flush: __cflush and __cflushopt, which are   *)
(* compiled in, and __flush_processor_cache, which is not (FLUSH_OPT).     *)
(* CxlMemory takes from here that a call flushes the lines it is about.    *)
(***************************************************************************)
EXTENDS Integers, Sequences

CONSTANTS
    LineSize,       \* FLUSH_ALIGN, CL_SIZE and the 64 of __cflush
    MaxAddr, MaxLen \* bounds: addresses and lengths of a call

ASSUME FlushAssumption ==
    /\ LineSize \in Nat \ {0}
    /\ MaxAddr \in Nat /\ MaxLen \in Nat \ {0}

VARIABLES
    fpc,            \* "idle", "loop" or "done"
    routine,        \* the function that is called, "none" before
    faddr, flen,    \* its arguments
    uptr,           \* the address it has come to
    flushed         \* the lines given to clflush, in order, by first address
flushVars == <<fpc, routine, faddr, flen, uptr, flushed>>

FlushRoutine == {"cflush", "cflushopt", "processor_cache"}

LineOf(a) == a - (a % LineSize)

FlushInit ==
    /\ fpc = "idle" /\ routine = "none"
    /\ faddr = 0 /\ flen = 0 /\ uptr = 0 /\ flushed = <<>>

\* The call.  A mapping never begins in the first line of the address space,
\* so that addr + len - 64 does not wrap.  __flush_processor_cache does not
\* align its start.
FlushCall(r, a, n) ==
    /\ fpc = "idle" /\ fpc' = "loop"
    /\ routine' = r /\ faddr' = a /\ flen' = n
    /\ uptr' = IF r = "processor_cache" THEN a ELSE LineOf(a)
    /\ UNCHANGED flushed

\* Where the loop of the routine stops.
SlipLoopBound == faddr + flen - LineSize        \* a line early in all of them

LoopBound == faddr + flen - (IF routine = "cflush" THEN LineSize ELSE 0)

FlushLoop ==
    /\ fpc = "loop" /\ uptr < LoopBound
    /\ flushed' = Append(flushed, LineOf(uptr))
    /\ uptr' = uptr + LineSize
    /\ UNCHANGED <<fpc, routine, faddr, flen>>

\* __cflush flushes the last line after its fence; the others just end.
FlushEnd ==
    /\ fpc = "loop" /\ uptr >= LoopBound
    /\ flushed' = IF routine = "cflush" THEN Append(flushed, LineOf(uptr)) ELSE flushed
    /\ fpc' = "done"
    /\ UNCHANGED <<routine, faddr, flen, uptr>>

FlushNext ==
    \/ \E r \in FlushRoutine, a \in LineSize .. MaxAddr, n \in 1 .. MaxLen :
          FlushCall(r, a, n)
    \/ FlushLoop \/ FlushEnd

FlushSpec == FlushInit /\ [][FlushNext]_flushVars

-----------------------------------------------------------------------------
Touched == {LineOf(a) : a \in faddr .. faddr + flen - 1}

LastLine == LineOf(faddr + flen - 1)
Dropped == {flushed[i] : i \in DOMAIN flushed}

\* A flush of a range drops every line the range touches and no other, each of
\* them once, wherever in a line the range begins and ends: the loop of
\* __cflush that stops a line early and the flush after it miss nothing.  Only
\* __flush_processor_cache, which is not compiled in, may miss the last line of
\* a range that does not begin with a line, and no other line.
FlushedExactly ==
    fpc = "done" =>
        /\ \A i, j \in DOMAIN flushed : flushed[i] = flushed[j] => i = j
        /\ Dropped \subseteq Touched
        /\ Touched \ Dropped \subseteq {LastLine}
        /\ routine # "processor_cache" \/ faddr % LineSize = 0 => Dropped = Touched

-----------------------------------------------------------------------------
(* Why this holds: the inductive invariant of its proof.                   *)

\* Line i of the range.
LineAt(i) == LineOf(faddr) + (i - 1) * LineSize

\* How far behind the beginning of a line the routine's addresses are.
Shift == IF routine = "processor_cache" THEN faddr % LineSize ELSE 0

\* The lines come in order; the loop has only passed lines that its bound lets
\* it flush, and at the end the last line that is flushed begins in the range,
\* and the next address is behind it.
FlushInv ==
    /\ fpc \in {"idle", "loop", "done"}
    /\ fpc = "idle" => flushed = <<>>
    /\ fpc # "idle" =>
          /\ routine \in FlushRoutine
          /\ faddr \in Nat /\ flen \in Nat \ {0}
          /\ flushed \in Seq(Int) /\ \A i \in 1 .. Len(flushed) : flushed[i] = LineAt(i)
    /\ fpc = "loop" =>
          /\ uptr = LineAt(Len(flushed) + 1) + Shift
          /\ Len(flushed) > 0 => uptr - LineSize < LoopBound
    /\ fpc = "done" =>
          /\ LineAt(Len(flushed)) < faddr + flen
          /\ faddr + flen <= LineAt(Len(flushed) + 1) + Shift
=============================================================================
