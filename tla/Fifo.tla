-------------------------------- MODULE Fifo --------------------------------
(***************************************************************************)
(* What a persistent queue promises: values leave it in the order they     *)
(* came, one at a time, and only the enqueue or dequeue that is being      *)
(* executed changes it, once.                                              *)
(***************************************************************************)
EXTENDS Sequences

CONSTANT Value

VARIABLES
    q,
    command,    \* what is being executed: <<"enque", v>>, <<"deque">> or <<>>
    out         \* the value just taken out, as a sequence of length 0 or 1

vars == <<q, command, out>>

Init == q = <<>> /\ command = <<>> /\ out = <<>>

Begin(c) == command = <<>> /\ command' = c /\ q' = q /\ out' = <<>>

Enqueue(v) ==
    /\ command = <<"enque", v>> /\ command' = <<>>
    /\ q' = Append(q, v) /\ out' = <<>>

Dequeue ==
    /\ command = <<"deque">> /\ command' = <<>>
    /\ q # <<>> /\ q' = Tail(q) /\ out' = <<Head(q)>>

\* The value has been used, or the program ends, with what it was executing.
Forget == command' \in {command, <<>>} /\ q' = q /\ out' = <<>>

Next ==
    \/ \E v \in Value : Begin(<<"enque", v>>) \/ Enqueue(v)
    \/ Begin(<<"deque">>) \/ Dequeue
    \/ Forget

Spec == Init /\ [][Next]_vars
=============================================================================
