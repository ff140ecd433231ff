----------------------------- MODULE DurableLog -----------------------------
(***************************************************************************)
(* What the accelerator promises: a log that grows only by the record of a *)
(* write in progress, and that nothing else changes - no close, kill,      *)
(* power failure, fsync or recovery - unless it is closed and replaced by  *)
(* a rename, or damaged.                                                   *)
(***************************************************************************)
EXTENDS Sequences

CONSTANTS Records, Files

VARIABLES
    log,
    writing,    \* the record of the write in progress, if any
    place,      \* "closed", "opening" or "open"
    intact

vars == <<log, writing, place, intact>>

Places == {"closed", "opening", "open"}

Init == log \in Files /\ writing = {} /\ place = "closed" /\ intact = TRUE

Begin(r) ==
    /\ place = "open" /\ writing = {}
    /\ writing' = {r}
    /\ UNCHANGED <<log, place, intact>>

AppendRecord(r) ==
    /\ r \in writing /\ intact
    /\ log' = log \o r
    /\ writing' = {}
    /\ UNCHANGED <<place, intact>>

\* A write fails, or the log is opened or closed, by the program or by its end.
Move ==
    /\ writing' = {} /\ place' \in Places
    /\ UNCHANGED <<log, intact>>

\* A rename, which ends in a log being opened.
Replace(f) ==
    /\ place = "closed" /\ place' = "opening"
    /\ log' = f /\ writing' = {} /\ intact' = TRUE

\* The log may become anything.
Damage == intact' = FALSE

Next ==
    \/ \E r \in Records : Begin(r)
    \/ \E r \in writing : AppendRecord(r)
    \/ Move
    \/ \E f \in Files : Replace(f)
    \/ Damage

Spec == Init /\ [][Next]_vars
=============================================================================
