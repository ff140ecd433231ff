---------------------------- MODULE QueuePmemobj ----------------------------
(***************************************************************************)
(* simple_fifo_queue/queue_pmemobj.cpp: a linked list in a pool of         *)
(* libpmemobj.  Every run of the program opens the pool, does one command  *)
(* and closes it; the list is changed in a transaction.                    *)
(*                                                                         *)
(* Of libpmemobj the model has what the program relies on: a field that is *)
(* added to the transaction gets its old value back, and a node that was   *)
(* allocated in it is freed, if the transaction does not commit; TX_FREE   *)
(* takes effect at the commit.                                             *)
(***************************************************************************)
EXTENDS Integers, Sequences, FiniteSets

CONSTANTS
    Node,       \* places for a struct queue_node in the pool
    Null,       \* TOID_NULL
    Value

ASSUME PoolAssumption ==
    /\ IsFiniteSet(Node) /\ Null \notin Node
    /\ "head" \notin Node /\ "tail" \notin Node     \* the names of fields below

VARIABLES
    head, tail,         \* struct queue, the root object
    node,               \* the nodes; <<>> for a place that is free
    undo,               \* snapshots <<field, old>>; the field of a node is next
    fresh, doomed,      \* nodes allocated and freed by the open transaction
    pc, h, t, newnode, val

rootVars == <<head, tail>>
txVars == <<undo, fresh, doomed>>
callVars == <<h, t, newnode, val>>
vars == <<rootVars, node, txVars, pc, callVars>>

Link == Node \cup {Null}

-----------------------------------------------------------------------------
(* The pool as pmemobj_open would restore it now.                          *)

OldOf(f, v) == IF \E s \in undo : s[1] = f THEN (CHOOSE s \in undo : s[1] = f)[2] ELSE v

OldHead == OldOf("head", head)
OldTail == OldOf("tail", tail)
OldNext(n) == OldOf(n, node[n].next)

Allocated == {n \in Node : node[n] # <<>>}

OldNodes ==
    [n \in Node |-> IF n \in fresh \/ node[n] = <<>> THEN <<>>
                    ELSE [node[n] EXCEPT !.next = OldNext(n)]]

\* The nodes in the order queue_show visits them, then Null.
Walk ==
    LET at[k \in 1 .. Cardinality(Node) + 1] ==
            IF k = 1 THEN OldHead
            ELSE IF at[k - 1] = Null \/ at[k - 1] \notin Allocated \ fresh THEN Null
            ELSE OldNext(at[k - 1])
    IN  at

Length == Cardinality({k \in DOMAIN Walk : Walk[k] # Null})

Contents == [k \in 1 .. Length |-> node[Walk[k]].value]

-----------------------------------------------------------------------------
\* A new pool: POBJ_ROOT allocates a root object of zeros.
Init ==
    /\ head = Null /\ tail = Null
    /\ node = [n \in Node |-> <<>>]
    /\ undo = {} /\ fresh = {} /\ doomed = {}
    /\ pc = "down"
    /\ h = Null /\ t = Null /\ newnode = Null /\ val \in Value

\* pmemobj_open undoes a transaction that did not commit.
OpenPool ==
    /\ pc = "down"
    /\ head' = OldHead /\ tail' = OldTail /\ node' = OldNodes
    /\ undo' = {} /\ fresh' = {} /\ doomed' = {}
    /\ pc' = "main"
    /\ UNCHANGED callVars

-----------------------------------------------------------------------------
(* queue_enque.                                                            *)

Enque(v, n) ==
    /\ pc = "main"
    /\ n \in Node \ Allocated
    /\ h' = head /\ t' = tail /\ newnode' = n
    /\ node' = [node EXCEPT ![n] = [value |-> v, next |-> Null]]
    /\ fresh' = {n}
    /\ pc' = IF head = Null THEN "first" ELSE "link"
    /\ UNCHANGED <<rootVars, undo, doomed, val>>

\* TX_NEW finds no room and aborts the transaction.
EnqueFails ==
    /\ pc = "main" /\ Allocated = Node
    /\ pc' = "close"
    /\ UNCHANGED <<rootVars, node, txVars, callVars>>

\* TX_ADD(pmem_queue), then the two stores.
FirstHead ==
    /\ pc = "first"
    /\ undo' = {<<"head", head>>, <<"tail", tail>>}
    /\ head' = newnode
    /\ pc' = "firsttail"
    /\ UNCHANGED <<tail, node, fresh, doomed, callVars>>

FirstTail ==
    /\ pc = "firsttail"
    /\ tail' = newnode
    /\ pc' = "commit"
    /\ UNCHANGED <<head, node, txVars, callVars>>

LinkTail ==
    /\ pc = "link"
    /\ undo' = undo \cup {<<t, node[t].next>>}
    /\ node' = [node EXCEPT ![t].next = newnode]
    /\ pc' = "settail"
    /\ UNCHANGED <<rootVars, fresh, doomed, callVars>>

SetTail ==
    /\ pc = "settail"
    /\ undo' = undo \cup {<<"tail", tail>>}
    /\ tail' = newnode
    /\ pc' = "commit"
    /\ UNCHANGED <<head, node, fresh, doomed, callVars>>

-----------------------------------------------------------------------------
(* queue_deque.                                                            *)

Deque ==
    /\ pc = "main" /\ head # Null
    /\ h' = head /\ t' = tail
    /\ val' = node[head].value
    /\ pc' = "pop"
    /\ UNCHANGED <<rootVars, node, txVars, newnode>>

\* return -1 inside of the transaction, which stays open and empty.
DequeEmpty ==
    /\ pc = "main" /\ head = Null
    /\ pc' = "close"
    /\ UNCHANGED <<rootVars, node, txVars, callVars>>

SlipPopHead ==                          \* tail is never cleared
    /\ pc = "pop"
    /\ undo' = undo \cup {<<"head", head>>}
    /\ head' = node[h].next
    /\ pc' = "free"
    /\ UNCHANGED <<tail, node, fresh, doomed, callVars>>

SlipPopUnlogged ==                      \* no TX_ADD_DIRECT(head)
    /\ pc = "pop"
    /\ head' = node[h].next
    /\ pc' = IF h = t THEN "poptail" ELSE "free"
    /\ UNCHANGED <<tail, node, txVars, callVars>>

PopHead ==
    /\ pc = "pop"
    /\ undo' = undo \cup {<<"head", head>>}
    /\ head' = node[h].next
    /\ pc' = IF h = t THEN "poptail" ELSE "free"
    /\ UNCHANGED <<tail, node, fresh, doomed, callVars>>

PopTail ==
    /\ pc = "poptail"
    /\ undo' = undo \cup {<<"tail", tail>>}
    /\ tail' = node[t].next
    /\ pc' = "free"
    /\ UNCHANGED <<head, node, fresh, doomed, callVars>>

FreeHead ==
    /\ pc = "free"
    /\ doomed' = {h}
    /\ pc' = "commit"
    /\ UNCHANGED <<rootVars, node, undo, fresh, callVars>>

-----------------------------------------------------------------------------
\* TX_END.
Commit ==
    /\ pc = "commit"
    /\ undo' = {} /\ fresh' = {} /\ doomed' = {}
    /\ node' = [n \in Node |-> IF n \in doomed THEN <<>> ELSE node[n]]
    /\ pc' = IF doomed = {} THEN "close" ELSE "print"
    /\ UNCHANGED <<rootVars, callVars>>

\* The program prints the value that queue_deque returned.
PrintValue ==
    /\ pc = "print"
    /\ pc' = "close"
    /\ UNCHANGED <<rootVars, node, txVars, callVars>>

\* queue_show, or a command the program does not know.
Show ==
    /\ pc = "main"
    /\ pc' = "close"
    /\ UNCHANGED <<rootVars, node, txVars, callVars>>

Exit ==
    /\ pc' = "down"
    /\ h' = Null /\ t' = Null /\ newnode' = Null
    /\ UNCHANGED <<rootVars, node, txVars, val>>

\* pmemobj_close.
Close == pc = "close" /\ Exit

Crash == pc \notin {"down", "close"} /\ Exit

Next ==
    \/ OpenPool
    \/ \E v \in Value, n \in Node : Enque(v, n)
    \/ EnqueFails \/ FirstHead \/ FirstTail \/ LinkTail \/ SetTail
    \/ Deque \/ DequeEmpty \/ PopHead \/ PopTail \/ FreeHead
    \/ Commit \/ PrintValue \/ Show \/ Close \/ Crash

Spec == Init /\ [][Next]_vars

-----------------------------------------------------------------------------
(* Properties.                                                             *)

\* Types; a transaction is only open where the code is inside of one.
TypeOK ==
    /\ head \in Link /\ tail \in Link
    /\ node \in [Node -> {<<>>} \cup [value : Value, next : Link]]
    /\ undo \subseteq ({"head", "tail"} \cup Node) \X Link
    /\ fresh \subseteq Node /\ doomed \subseteq Node
    /\ pc \in {"down", "main", "first", "firsttail", "link", "settail", "pop",
               "poptail", "free", "commit", "print", "close"}
    /\ pc \in {"main", "print", "close"} => undo = {} /\ fresh = {} /\ doomed = {}
    /\ h \in Link /\ t \in Link /\ newnode \in Link /\ val \in Value

\* Whenever the program stops, what the next run finds is a list that ends at
\* tail, and every node of the pool that is in use is on it exactly once: no
\* node is lost, none is reachable after it was freed.
ListIsWhole ==
    /\ TypeOK
    /\ OldTail = IF Length = 0 THEN Null ELSE Walk[Length]
    /\ {Walk[k] : k \in 1 .. Length} = Allocated \ fresh
    /\ Length = Cardinality(Allocated \ fresh)

\* Where queue_enque and queue_deque are.
Enqueing ==
    pc \in {"first", "firsttail", "link", "settail"} \/ (pc = "commit" /\ doomed = {})

Dequeing == pc \in {"pop", "poptail", "free"} \/ (pc = "commit" /\ doomed # {})

Executing ==
    IF Enqueing THEN <<"enque", node[newnode].value>>
    ELSE IF Dequeing THEN <<"deque">> ELSE <<>>

Promise == INSTANCE Fifo WITH q <- Contents, command <- Executing,
                              out <- IF pc = "print" THEN <<val>> ELSE <<>>

\* The pool is a first-in first-out queue: what the next run finds changes only
\* in the last step of an enque, which appends its value, or of a deque, and
\* the value the program prints is the one that left the queue; a command that
\* is cut short changes nothing, then or later.
ImplementsFifo == Promise!Spec

-----------------------------------------------------------------------------
(* Why these properties hold: the inductive invariant of their proofs.     *)

\* s are the nodes of the list that the next run finds, from head to tail.
IsList(s) ==
    /\ s \in Seq(Node)
    /\ \A i, j \in 1 .. Len(s) : i # j => s[i] # s[j]
    /\ {s[k] : k \in 1 .. Len(s)} = Allocated \ fresh
    /\ OldHead = IF Len(s) = 0 THEN Null ELSE s[1]
    /\ OldTail = IF Len(s) = 0 THEN Null ELSE s[Len(s)]
    /\ \A k \in 1 .. Len(s) : OldNext(s[k]) = IF k = Len(s) THEN Null ELSE s[k + 1]

Nodes == [k \in 1 .. Length |-> Walk[k]]

\* No field is added to a transaction twice.
UndoKnown == \A x, y \in undo : x[1] = y[1] => x[2] = y[2]

Added == {x[1] : x \in undo}

\* What queue_enque has done where it is.
EnqueKnown ==
    /\ newnode \in Node /\ fresh = {newnode} /\ doomed = {}
    /\ newnode \in Allocated /\ node[newnode].next = Null
    /\ t = OldTail
    /\ pc = "first" => undo = {} /\ OldHead = Null
    /\ pc = "link" => undo = {} /\ OldHead # Null
    /\ pc = "firsttail" => OldHead = Null
    /\ pc = "firsttail" \/ (pc = "commit" /\ OldHead = Null) =>
          Added = {"head", "tail"} /\ head = newnode
    /\ pc = "settail" => OldHead # Null /\ Added = {t} /\ node[t].next = newnode
    /\ pc = "commit" => tail = newnode
    /\ pc = "commit" /\ OldHead # Null => Added = {t, "tail"} /\ node[t].next = newnode

\* What queue_deque has done where it is.
DequeKnown ==
    /\ fresh = {} /\ h \in Node /\ h = OldHead /\ t = OldTail /\ val = node[h].value
    /\ doomed = IF pc = "commit" THEN {h} ELSE {}
    /\ pc = "pop" => undo = {}
    /\ pc # "pop" => head = node[h].next
    /\ pc = "poptail" => Added = {"head"} /\ h = t
    /\ pc \in {"free", "commit"} =>
          IF h = t THEN Added = {"head", "tail"} /\ tail = Null ELSE Added = {"head"}

QueueInv ==
    /\ TypeOK /\ UndoKnown /\ IsList(Nodes)
    /\ Enqueing => EnqueKnown
    /\ Dequeing => DequeKnown
=============================================================================
