------------------------------ MODULE MCQueues ------------------------------
(* The two queues of simple_fifo_queue.  They share nothing: a behaviour   *)
(* is one of the pool or one of the append-only file.                      *)
(* Room for three nodes: lists with an inner node, and a full pool.  Four  *)
(* lines: a dequeue that empties the queue, a torn line and the line that  *)
(* is appended to it.                                                      *)
EXTENDS QueuePmemobj, QueueAof

CONSTANTS n1, n2, n3, v1, v2

MCNode == {n1, n2, n3}
MCValue == {v1, v2}
MCNumbers == {0, 71}

queueVars == <<vars, aofVars>>

\* No command of the file's program was given yet, and none of the pool's.
AofIdle == apc = "down" /\ files = << <<>> >>
PoolIdle == pc = "down" /\ Allocated = {}

MCInit == Init /\ AofInit

MCNext ==
    \/ AofIdle /\ Next /\ UNCHANGED aofVars
    \/ PoolIdle /\ AofNext /\ UNCHANGED vars

MCSpec == MCInit /\ [][MCNext]_queueVars
=============================================================================
