------------------------------- MODULE HashKv -------------------------------
(***************************************************************************)
(* cxl_memory_sharing/hash_kv.c: a table of chained nodes.  A chain is a   *)
(* sequence, its head first.  (malloc is taken to succeed.)                *)
(***************************************************************************)
EXTENDS Integers, Sequences

CONSTANT TableSize      \* TABLE_SIZE

ASSUME TableAssumption == TableSize \in Nat \ {0}

HashFunction(key) == key % TableSize

CreateHashTable == [i \in 0 .. TableSize - 1 |-> <<>>]

NodesOf(chain, key) == {i \in 1 .. Len(chain) : chain[i].key = key}

\* The node the walk along the chain stops at.
First(nodes) == CHOOSE i \in nodes : \A j \in nodes : i <= j

Node(k, v) == [key |-> k, value |-> v]

SlipSetKeyValue(table, key, value) ==   \* always a new node
    [table EXCEPT ![HashFunction(key)] = <<Node(key, value)>> \o @]

SetKeyValue(table, key, value) ==
    LET chain == table[HashFunction(key)]
        nodes == NodesOf(chain, key)
    IN  [table EXCEPT ![HashFunction(key)] =
            IF nodes # {} THEN [chain EXCEPT ![First(nodes)].value = value]
                          ELSE <<Node(key, value)>> \o chain]

GetKeyValue(table, key) ==
    LET chain == table[HashFunction(key)]
        nodes == NodesOf(chain, key)
    IN  IF nodes # {} THEN chain[First(nodes)].value ELSE -1
=============================================================================
