----------------------------- MODULE PageStore ------------------------------
(***************************************************************************)
(* What the page cache promises: each request holds one page, which only a *)
(* write or a delete of that request changes, while it is being executed - *)
(* never a restart - unless the store is damaged.                          *)
(***************************************************************************)
CONSTANTS Req, Content, None

VARIABLES
    store,      \* the page of each request
    calls,      \* the call being executed, if any: its request and new page
    intact

vars == <<store, calls, intact>>

Init == store = [r \in Req |-> None] /\ calls = {} /\ intact = TRUE

\* A write of page c, or with c = None a delete, begins.
Call(r, c) ==
    /\ calls = {}
    /\ calls' = {[req |-> r, page |-> c]}
    /\ UNCHANGED <<store, intact>>

\* It takes effect, as its last step or before that.
Effect(k) ==
    /\ k \in calls /\ intact
    /\ store' = [store EXCEPT ![k.req] = k.page]
    /\ calls' \in {calls, {}}
    /\ UNCHANGED intact

\* It ends, or the process does.
Return == calls' = {} /\ UNCHANGED <<store, intact>>

\* The store may become anything.
Damage == intact' = FALSE

Next ==
    \/ \E r \in Req, c \in Content \cup {None} : Call(r, c)
    \/ \E k \in calls : Effect(k)
    \/ Return
    \/ Damage

Spec == Init /\ [][Next]_vars
=============================================================================
