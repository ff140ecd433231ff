-------------------------- MODULE CxlMemoryProofs ---------------------------
(***************************************************************************)
(* What each access to the incoherent memory does, line by line, for any   *)
(* set of hosts, lines and values; LockServiceProofs and MetaShareProofs   *)
(* rest on it.                                                             *)
(***************************************************************************)
EXTENDS CxlMemory, TLAPS

MemInv == MemTypeOK /\ DirtyHasCopy

\* A load returns a value, not the mark for a missing copy.
LEMMA SeesValue ==
    ASSUME MemInv, NEW h \in Host, NEW l \in Line
    PROVE  /\ Sees(h, l) \in Value /\ Sees(h, l) # NoCopy
           /\ copy[h][l] = NoCopy => Sees(h, l) = mem[l]
           /\ copy[h][l] # NoCopy => Sees(h, l) = copy[h][l]
  BY NoCopyAssumption DEF MemInv, MemTypeOK, Sees

\* Nothing is cached at first.
LEMMA MemInitType ==
    ASSUME mem \in [Line -> Value], EmptyCaches
    PROVE  MemInv
  BY DEF EmptyCaches, MemInv, MemTypeOK, DirtyHasCopy

\* A load leaves a copy of one line in one cache.
LEMMA LoadEffect ==
    ASSUME MemInv, NEW h \in Host, NEW l \in Line, Load(h, l)
    PROVE  /\ MemInv'
           /\ mem' = mem /\ dirty' = dirty
           /\ \A g \in Host, k \in Line :
                 copy'[g][k] = IF g = h /\ k = l THEN Sees(h, l) ELSE copy[g][k]
<1>1. Sees(h, l) \in Value /\ Sees(h, l) # NoCopy
  BY SeesValue
<1>2. mem' = mem /\ dirty' = dirty /\ copy' = [copy EXCEPT ![h][l] = Sees(h, l)]
  BY DEF Load
<1>3. copy \in [Host -> [Line -> Value \cup {NoCopy}]]
  BY DEF MemInv, MemTypeOK
<1>4. /\ copy' \in [Host -> [Line -> Value \cup {NoCopy}]]
      /\ \A g \in Host, k \in Line :
            copy'[g][k] = IF g = h /\ k = l THEN Sees(h, l) ELSE copy[g][k]
  BY <1>1, <1>2, <1>3
<1>5. MemTypeOK'
  BY <1>2, <1>4 DEF MemInv, MemTypeOK
<1>6. DirtyHasCopy'
  BY <1>1, <1>2, <1>4 DEF MemInv, MemTypeOK, DirtyHasCopy
<1>. QED  BY <1>2, <1>4, <1>5, <1>6 DEF MemInv

\* A store stays in the cache of its host.
LEMMA StoreEffect ==
    ASSUME MemInv, NEW h \in Host, NEW l \in Line, NEW v \in Value, Store(h, l, v)
    PROVE  /\ MemInv'
           /\ mem' = mem
           /\ \A g \in Host : dirty'[g] = IF g = h THEN dirty[g] \cup {l} ELSE dirty[g]
           /\ \A g \in Host, k \in Line :
                 copy'[g][k] = IF g = h /\ k = l THEN v ELSE copy[g][k]
<1>1. v # NoCopy
  BY NoCopyAssumption
<1>2. /\ mem' = mem /\ dirty' = [dirty EXCEPT ![h] = @ \cup {l}]
      /\ copy' = [copy EXCEPT ![h][l] = v]
  BY DEF Store
<1>3. copy \in [Host -> [Line -> Value \cup {NoCopy}]] /\ dirty \in [Host -> SUBSET Line]
  BY DEF MemInv, MemTypeOK
<1>4. /\ copy' \in [Host -> [Line -> Value \cup {NoCopy}]]
      /\ \A g \in Host, k \in Line :
            copy'[g][k] = IF g = h /\ k = l THEN v ELSE copy[g][k]
  BY <1>2, <1>3
<1>5. /\ dirty' \in [Host -> SUBSET Line]
      /\ \A g \in Host : dirty'[g] = IF g = h THEN dirty[g] \cup {l} ELSE dirty[g]
  BY <1>2, <1>3
<1>6. MemTypeOK'
  BY <1>2, <1>4, <1>5 DEF MemInv, MemTypeOK
<1>7. DirtyHasCopy'
  BY <1>1, <1>3, <1>4, <1>5 DEF MemInv, DirtyHasCopy
<1>. QED  BY <1>2, <1>4, <1>5, <1>6, <1>7 DEF MemInv

\* A store past the caches.
LEMMA DirectStoreEffect ==
    ASSUME MemInv, NEW h \in Host, NEW l \in Line, NEW v \in Value, DirectStore(h, l, v)
    PROVE  /\ MemInv'
           /\ \A k \in Line : mem'[k] = IF k = l THEN v ELSE mem[k]
           /\ \A g \in Host : dirty'[g] = IF g = h THEN dirty[g] \ {l} ELSE dirty[g]
           /\ \A g \in Host, k \in Line :
                 copy'[g][k] = IF g = h /\ k = l THEN NoCopy ELSE copy[g][k]
<1>2. /\ mem' = [mem EXCEPT ![l] = v] /\ dirty' = [dirty EXCEPT ![h] = @ \ {l}]
      /\ copy' = [copy EXCEPT ![h][l] = NoCopy]
  BY DEF DirectStore
<1>3. /\ copy \in [Host -> [Line -> Value \cup {NoCopy}]] /\ dirty \in [Host -> SUBSET Line]
      /\ mem \in [Line -> Value]
  BY DEF MemInv, MemTypeOK
<1>4. /\ copy' \in [Host -> [Line -> Value \cup {NoCopy}]]
      /\ \A g \in Host, k \in Line :
            copy'[g][k] = IF g = h /\ k = l THEN NoCopy ELSE copy[g][k]
  BY <1>2, <1>3
<1>5. /\ dirty' \in [Host -> SUBSET Line]
      /\ \A g \in Host : dirty'[g] = IF g = h THEN dirty[g] \ {l} ELSE dirty[g]
  BY <1>2, <1>3
<1>6. /\ mem' \in [Line -> Value]
      /\ \A k \in Line : mem'[k] = IF k = l THEN v ELSE mem[k]
  BY <1>2, <1>3
<1>7. MemTypeOK'
  BY <1>4, <1>5, <1>6 DEF MemTypeOK
<1>8. DirtyHasCopy'
  BY <1>3, <1>4, <1>5 DEF MemInv, DirtyHasCopy
<1>. QED  BY <1>4, <1>5, <1>6, <1>7, <1>8 DEF MemInv

\* A flush writes the dirty lines back and drops all of them.
LEMMA FlushEffect ==
    ASSUME MemInv, NEW h \in Host, NEW ls, Flush(h, ls)
    PROVE  /\ MemInv'
           /\ \A k \in Line : mem'[k] = IF k \in ls /\ k \in dirty[h] THEN copy[h][k] ELSE mem[k]
           /\ \A g \in Host : dirty'[g] = IF g = h THEN dirty[g] \ ls ELSE dirty[g]
           /\ \A g \in Host, k \in Line :
                 copy'[g][k] = IF g = h /\ k \in ls THEN NoCopy ELSE copy[g][k]
<1>2. /\ mem' = [k \in Line |-> IF k \in ls \cap dirty[h] THEN copy[h][k] ELSE mem[k]]
      /\ dirty' = [dirty EXCEPT ![h] = @ \ ls]
      /\ copy' = [copy EXCEPT ![h] = [l \in Line |-> IF l \in ls THEN NoCopy ELSE @[l]]]
  BY DEF Flush
<1>3. /\ copy \in [Host -> [Line -> Value \cup {NoCopy}]] /\ dirty \in [Host -> SUBSET Line]
      /\ mem \in [Line -> Value]
      /\ \A k \in dirty[h] : copy[h][k] # NoCopy
  BY DEF MemInv, MemTypeOK, DirtyHasCopy
<1>4. /\ copy' \in [Host -> [Line -> Value \cup {NoCopy}]]
      /\ \A g \in Host, k \in Line :
            copy'[g][k] = IF g = h /\ k \in ls THEN NoCopy ELSE copy[g][k]
  BY <1>2, <1>3
<1>5. /\ dirty' \in [Host -> SUBSET Line]
      /\ \A g \in Host : dirty'[g] = IF g = h THEN dirty[g] \ ls ELSE dirty[g]
  BY <1>2, <1>3
<1>6. /\ mem' \in [Line -> Value]
      /\ \A k \in Line : mem'[k] = IF k \in ls /\ k \in dirty[h] THEN copy[h][k] ELSE mem[k]
  BY <1>2, <1>3
<1>7. MemTypeOK'
  BY <1>4, <1>5, <1>6 DEF MemTypeOK
<1>8. DirtyHasCopy'
  BY <1>3, <1>4, <1>5 DEF MemInv, DirtyHasCopy
<1>. QED  BY <1>4, <1>5, <1>6, <1>7, <1>8 DEF MemInv

\* What the caches do of their own accord keeps the invariant.
LEMMA EvictEffect ==
    ASSUME MemInv, NEW h \in Host, NEW l \in Line, Evict(h, l)
    PROVE  /\ MemInv'
           /\ \A k \in Line : mem'[k] = IF k = l /\ k \in dirty[h] THEN copy[h][k] ELSE mem[k]
           /\ \A g \in Host : dirty'[g] = IF g = h THEN dirty[g] \ {l} ELSE dirty[g]
           /\ \A g \in Host, k \in Line :
                 copy'[g][k] = IF g = h /\ k = l THEN NoCopy ELSE copy[g][k]
<1>. DEFINE ls == {l}
<1>1. Flush(h, ls) /\ \A k : k \in ls <=> k = l
  BY DEF Evict
<1>2. ls = {l}
  OBVIOUS
<1>. HIDE DEF ls
<1>3. /\ MemInv'
      /\ \A k \in Line : mem'[k] = IF k \in ls /\ k \in dirty[h] THEN copy[h][k] ELSE mem[k]
      /\ \A g \in Host : dirty'[g] = IF g = h THEN dirty[g] \ ls ELSE dirty[g]
      /\ \A g \in Host, k \in Line :
            copy'[g][k] = IF g = h /\ k \in ls THEN NoCopy ELSE copy[g][k]
  BY <1>1, FlushEffect
<1>4. \A g \in Host : dirty'[g] = IF g = h THEN dirty[g] \ {l} ELSE dirty[g]
  BY <1>2, <1>3
<1>. QED  BY <1>1, <1>3, <1>4

LEMMA PrefetchEffect ==
    ASSUME MemInv, NEW h \in Host, NEW l \in Line, Prefetch(h, l)
    PROVE  /\ MemInv'
           /\ mem' = mem /\ dirty' = dirty
           /\ copy[h][l] = NoCopy
           /\ \A g \in Host, k \in Line :
                 copy'[g][k] = IF g = h /\ k = l THEN mem[l] ELSE copy[g][k]
<1>1. Load(h, l) /\ copy[h][l] = NoCopy
  BY DEF Prefetch
<1>2. Sees(h, l) = mem[l]
  BY <1>1, SeesValue
<1>. QED  BY <1>1, <1>2, LoadEffect
=============================================================================
