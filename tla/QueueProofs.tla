---------------------------- MODULE QueueProofs -----------------------------
(***************************************************************************)
(* Proofs about queue_pmemobj.cpp, for a pool of any size: whatever        *)
(* commands are given and wherever they are interrupted, the pool holds a  *)
(* whole list, and it is a first-in first-out queue.  And about            *)
(* queue_aof.cpp, for a file of any length: what a restart replays.        *)
(***************************************************************************)
EXTENDS QueuePmemobj, QueueAof, FiniteSetTheorems, FunctionTheorems, SequenceTheorems,
        WellFoundedInduction, TLAPS

-----------------------------------------------------------------------------
(* Nodes and the undo log.                                                 *)

LEMMA NodeIsNotFree ==
    \A v, n : /\ [value |-> v, next |-> n] # <<>>
              /\ [value |-> v, next |-> n].value = v /\ [value |-> v, next |-> n].next = n
<1>1. ASSUME NEW v, NEW n
      PROVE  [value |-> v, next |-> n] # <<>>
  <2>. DEFINE r == [value |-> v, next |-> n]
              e == <<>>
  <2>1. "value" \in DOMAIN r
    OBVIOUS
  <2>2. DOMAIN e = {}
    BY EmptySeq
  <2>3. r # e
    BY <2>1, <2>2
  <2>. QED  BY <2>3
<1>. QED  BY <1>1

LEMMA FieldsDiffer ==
    /\ "head" # "tail" /\ Null \notin Node
    /\ \A n \in Node : n # "head" /\ n # "tail" /\ n # Null
BY PoolAssumption

\* Fields that were added get their old values back, the others keep theirs.
LEMMA NotAdded ==
    ASSUME NEW f, f \notin Added
    PROVE  \A v : OldOf(f, v) = v
BY DEF Added, OldOf

LEMMA Hidden ==
    ASSUME NEW f \in Added, NEW v, NEW w
    PROVE  OldOf(f, v) = OldOf(f, w)
BY DEF Added, OldOf

LEMMA SameUndo ==
    ASSUME undo' = undo
    PROVE  /\ \A f, v : OldOf(f, v)' = OldOf(f, v)
           /\ UndoKnown' <=> UndoKnown
           /\ Added' = Added
BY DEF OldOf, UndoKnown, Added

LEMMA NoUndoAfter ==
    ASSUME undo' = {}
    PROVE  /\ \A f, v : OldOf(f, v)' = v
           /\ UndoKnown' /\ Added' = {}
BY DEF OldOf, UndoKnown, Added

LEMMA AddField ==
    ASSUME UndoKnown, NEW f, NEW o, f \notin Added, undo' = undo \cup {<<f, o>>}
    PROVE  /\ UndoKnown' /\ Added' = Added \cup {f}
           /\ \A v : OldOf(f, v)' = o
           /\ \A g, v : g # f => OldOf(g, v)' = OldOf(g, v)
<1>. DEFINE e == <<f, o>>
<1>1. e[1] = f /\ e[2] = o /\ undo' = undo \cup {e}
  OBVIOUS
<1>. HIDE DEF e
<1>2. \A u \in undo : u[1] # f
  BY DEF Added
<1>3. UndoKnown' /\ Added' = Added \cup {f}
  BY <1>1, <1>2 DEF UndoKnown, Added
<1>4. \A v : OldOf(f, v)' = o
  <2>1. \A u \in undo' : u[1] = f => u = e
    BY <1>1, <1>2
  <2>2. (CHOOSE u \in undo' : u[1] = f) = e
    BY <1>1, <2>1
  <2>. QED  BY <1>1, <2>2 DEF OldOf
<1>5. ASSUME NEW g, NEW v, g # f
      PROVE  OldOf(g, v)' = OldOf(g, v)
  <2>1. \A u : (u \in undo' /\ u[1] = g) <=> (u \in undo /\ u[1] = g)
    BY <1>1, <1>5
  <2>2. (CHOOSE u \in undo' : u[1] = g) = (CHOOSE u \in undo : u[1] = g)
    BY <2>1
  <2>3. (\E u \in undo' : u[1] = g) <=> (\E u \in undo : u[1] = g)
    BY <2>1
  <2>. QED  BY <2>2, <2>3 DEF OldOf
<1>. QED  BY <1>3, <1>4, <1>5

\* What the undo log holds is a link.
LEMMA OldTyped ==
    ASSUME TypeOK, NEW f, NEW v \in Link
    PROVE  OldOf(f, v) \in Link
<1>1. \A u \in undo : u[2] \in Link
  BY DEF TypeOK
<1>. QED  BY <1>1 DEF OldOf

LEMMA NodeTyped ==
    ASSUME TypeOK, NEW n \in Allocated
    PROVE  n \in Node /\ node[n] \in [value : Value, next : Link] /\ OldNext(n) \in Link
<1>1. n \in Node /\ node[n] \in [value : Value, next : Link]
  BY DEF TypeOK, Allocated
<1>2. node[n].next \in Link
  BY <1>1
<1>. QED  BY <1>1, <1>2, OldTyped DEF OldNext

-----------------------------------------------------------------------------
(* Walking a list.                                                         *)

\* The walk along a list visits its nodes and ends.
LEMMA WalkOfList ==
    ASSUME NEW s, IsList(s)
    PROVE  /\ Len(s) \in Nat /\ Cardinality(Node) \in Nat /\ Len(s) <= Cardinality(Node)
           /\ Walk = [k \in 1 .. Cardinality(Node) + 1 |-> IF k <= Len(s) THEN s[k] ELSE Null]
<1>. DEFINE N == Cardinality(Node)
            L == Len(s)
            f == [k \in 1 .. N + 1 |-> IF k <= L THEN s[k] ELSE Null]
            Body(way, k) == IF k = 1 THEN OldHead
                            ELSE IF way[k - 1] = Null \/ way[k - 1] \notin Allocated \ fresh THEN Null
                            ELSE OldNext(way[k - 1])
<1>1. N \in Nat
  BY PoolAssumption, FS_CardinalityType
<1>2. L \in Nat /\ s \in [1 .. L -> Node] /\ s \in Seq(Node)
  BY DEF IsList
<1>3. L <= N
  <2>1. s \in Injection(1 .. L, Node)
    BY <1>2, Fun_IsInj DEF IsList
  <2>2. IsFiniteSet(1 .. L) /\ Cardinality(1 .. L) = L
    BY <1>2, FS_Interval
  <2>3. Cardinality(1 .. L) <= Cardinality(Node)
    BY <2>1, <2>2, PoolAssumption, FS_Injection DEF ExistsInjection
  <2>. QED  BY <2>2, <2>3
<1>4. Walk = CHOOSE way : way = [k \in 1 .. N + 1 |-> Body(way, k)]
  BY DEF Walk
<1>5. /\ OldHead = IF L = 0 THEN Null ELSE s[1]
      /\ \A k \in 1 .. L : OldNext(s[k]) = IF k = L THEN Null ELSE s[k + 1]
      /\ \A k \in 1 .. L : s[k] \in Allocated \ fresh /\ s[k] # Null
  BY <1>2, PoolAssumption DEF IsList
<1>. HIDE DEF N, L
<1>6. \A k \in 1 .. N + 1 : f[k] = Body(f, k)
  <2>1. SUFFICES ASSUME NEW k \in 1 .. N + 1
                 PROVE  f[k] = Body(f, k)
    OBVIOUS
  <2>2. CASE k = 1
    BY <1>1, <1>2, <1>5, <2>2
  <2>3. CASE k # 1 /\ k - 1 <= L
    <3>1. k - 1 \in 1 .. N + 1 /\ k - 1 \in 1 .. L
      BY <1>1, <1>2, <2>3
    <3>2. f[k - 1] = s[k - 1]
      BY <1>1, <1>2, <2>3, <3>1
    <3>3. Body(f, k) = OldNext(s[k - 1])
      BY <1>5, <2>3, <3>1, <3>2
    <3>4. OldNext(s[k - 1]) = IF k - 1 = L THEN Null ELSE s[k]
      BY <1>1, <1>2, <1>5, <3>1
    <3>5. f[k] = IF k - 1 = L THEN Null ELSE s[k]
      BY <1>1, <1>2, <2>3
    <3>. QED  BY <3>3, <3>4, <3>5
  <2>4. CASE k # 1 /\ ~(k - 1 <= L)
    <3>1. k - 1 \in 1 .. N + 1 /\ ~(k <= L)
      BY <1>1, <1>2, <2>4
    <3>2. f[k - 1] = Null
      BY <2>4, <3>1
    <3>. QED  BY <2>4, <3>1, <3>2
  <2>. QED  BY <2>2, <2>3, <2>4
<1>7. f = [k \in 1 .. N + 1 |-> Body(f, k)]
  BY <1>6
<1>8. Walk = [k \in 1 .. N + 1 |-> Body(Walk, k)]
  <2>1. \E way : way = [k \in 1 .. N + 1 |-> Body(way, k)]
    BY <1>7
  <2>. HIDE DEF Body, f
  <2>. QED  BY <1>4, <2>1
<1>9. \A k \in 1 .. N + 1 : Walk[k] = f[k]
  <2>1. SUFFICES ASSUME NEW x \in 1 .. N + 1, Walk[x] # f[x]
                 PROVE  FALSE
    OBVIOUS
  <2>. DEFINE T == {k \in 1 .. N + 1 : Walk[k] # f[k]}
  <2>2. PICK m \in T : \A k \in T : ~(<<k, m>> \in OpToRel(<, Nat))
    <3>1. T \subseteq Nat /\ T # {}
      BY <1>1, <2>1
    <3>. HIDE DEF T
    <3>. QED  BY <3>1, NatLessThanWellFounded, WFMin
  <2>3. m \in 1 .. N + 1 /\ Walk[m] # f[m]
    BY <2>2
  <2>4. m # 1 => Walk[m - 1] = f[m - 1]
    <3>1. m # 1 => m - 1 \in 1 .. N + 1 /\ m - 1 < m /\ m \in Nat /\ m - 1 \in Nat
      BY <1>1, <2>3
    <3>2. m # 1 => <<m - 1, m>> \in OpToRel(<, Nat)
      BY <3>1 DEF OpToRel
    <3>. QED  BY <2>2, <3>1, <3>2
  <2>5. Walk[m] = Body(Walk, m) /\ f[m] = Body(f, m)
    <3>. HIDE DEF Body, f
    <3>. QED  BY <1>6, <1>8, <2>3
  <2>. HIDE DEF f
  <2>6. Body(Walk, m) = Body(f, m)
    BY <2>4
  <2>. QED  BY <2>3, <2>5, <2>6
<1>10. Walk = f
  <2>1. DOMAIN Walk = 1 .. N + 1 /\ Walk = [k \in 1 .. N + 1 |-> Walk[k]]
    <3>. HIDE DEF Body
    <3>. QED  BY <1>8
  <2>. QED  BY <1>9, <2>1
<1>. QED  BY <1>1, <1>2, <1>3, <1>10 DEF N, L

LEMMA ReadList ==
    ASSUME NEW s, IsList(s)
    PROVE  /\ Length = Len(s) /\ Nodes = s
           /\ Contents = [k \in 1 .. Len(s) |-> node[s[k]].value]
           /\ \A k \in 1 .. Len(s) : Walk[k] = s[k]
<1>. DEFINE N == Cardinality(Node)
            L == Len(s)
<1>1. L \in Nat /\ N \in Nat /\ L <= N /\ s \in [1 .. L -> Node]
  BY WalkOfList DEF IsList
<1>2. Walk = [k \in 1 .. N + 1 |-> IF k <= L THEN s[k] ELSE Null]
  BY WalkOfList
<1>3. s = [k \in 1 .. L |-> s[k]]
  BY <1>1
<1>. HIDE DEF N, L
<1>4. DOMAIN Walk = 1 .. N + 1
  BY <1>2
<1>5. \A k \in 1 .. L : Walk[k] = s[k]
  BY <1>1, <1>2
<1>6. {k \in DOMAIN Walk : Walk[k] # Null} = 1 .. L
  <2>1. \A k \in 1 .. L : s[k] # Null
    BY <1>1, FieldsDiffer
  <2>2. \A k \in 1 .. N + 1 : Walk[k] # Null <=> k <= L
    BY <1>1, <1>2, <2>1
  <2>. QED  BY <1>1, <1>4, <2>2
<1>7. Cardinality(1 .. L) = L
  BY <1>1, FS_Interval
<1>8. Length = L
  BY <1>6, <1>7 DEF Length
<1>9. Nodes = s
  BY <1>3, <1>5, <1>8 DEF Nodes
<1>10. Contents = [k \in 1 .. L |-> node[s[k]].value]
  BY <1>5, <1>8 DEF Contents
<1>. QED  BY <1>5, <1>8, <1>9, <1>10 DEF L

\* The same after a step.
LEMMA ReadListAll ==
    \A s : IsList(s) => /\ IsList(Nodes) /\ Length = Len(s) /\ Nodes = s
                        /\ Contents = [k \in 1 .. Len(s) |-> node[s[k]].value]
<1>1. ASSUME NEW s, IsList(s)
      PROVE  /\ IsList(Nodes) /\ Length = Len(s) /\ Nodes = s
             /\ Contents = [k \in 1 .. Len(s) |-> node[s[k]].value]
  <2>1. Nodes = s
    BY <1>1, ReadList
  <2>2. IsList(Nodes)
    BY <1>1, <2>1
  <2>. QED  BY <1>1, <2>1, <2>2, ReadList
<1>. QED  BY <1>1

LEMMA ReadListNext ==
    (\A s : IsList(s) => /\ IsList(Nodes) /\ Length = Len(s) /\ Nodes = s
                         /\ Contents = [k \in 1 .. Len(s) |-> node[s[k]].value])'
BY ReadListAll, PTL

LEMMA ReadListAfter ==
    ASSUME NEW s, IsList(s)'
    PROVE  /\ IsList(Nodes)'
           /\ Contents' = [k \in 1 .. Len(s) |-> node'[s[k]].value]
BY ReadListNext

\* A list is as long as the set of its nodes.
LEMMA ListCounted ==
    ASSUME NEW s, IsList(s)
    PROVE  Len(s) = Cardinality(Allocated \ fresh)
<1>. DEFINE used == Allocated \ fresh
            L == Len(s)
<1>1. L \in Nat /\ s \in [1 .. L -> Node]
  BY DEF IsList
<1>2. {s[k] : k \in 1 .. L} = used
  BY DEF IsList
<1>3. s \in Bijection(1 .. L, used)
  <2>. HIDE DEF used, L
  <2>1. s \in [1 .. L -> used]
    BY <1>1, <1>2
  <2>2. \A i, j \in 1 .. L : s[i] = s[j] => i = j
    BY DEF IsList, L
  <2>3. \A n \in used : \E k \in 1 .. L : s[k] = n
    BY <1>2
  <2>. QED  BY <2>1, <2>2, <2>3, Fun_IsBij
<1>. HIDE DEF used, L
<1>4. IsFiniteSet(1 .. L) /\ Cardinality(1 .. L) = L
  BY <1>1, FS_Interval
<1>5. Cardinality(1 .. L) = Cardinality(used)
  BY <1>3, <1>4, FS_Bijection DEF ExistsBijection
<1>. QED  BY <1>4, <1>5 DEF used, L

\* Steps that change neither what is restored nor the nodes of the list.
LEMMA ListKept ==
    ASSUME NEW s, IsList(s), Allocated' \ fresh' = Allocated \ fresh,
           OldHead' = OldHead, OldTail' = OldTail,
           \A n \in Allocated \ fresh : OldNext(n)' = OldNext(n) /\ node'[n].value = node[n].value
    PROVE  /\ IsList(s)' /\ IsList(Nodes)'
           /\ Contents' = Contents
<1>1. \A k \in 1 .. Len(s) : s[k] \in Allocated \ fresh
  BY DEF IsList
<1>2. IsList(s)'
  BY <1>1 DEF IsList
<1>3. [k \in 1 .. Len(s) |-> node'[s[k]].value] = [k \in 1 .. Len(s) |-> node[s[k]].value]
  BY <1>1
<1>. QED  BY <1>2, <1>3, ReadList, ReadListAfter

-----------------------------------------------------------------------------
(* Every step keeps QueueInv, and only a commit changes the queue.         *)

LEMMA QueueQuiet ==
    ASSUME QueueInv, UNCHANGED <<head, tail, node, undo, fresh>>
    PROVE  /\ UndoKnown' /\ IsList(Nodes)' /\ Contents' = Contents
           /\ OldHead' = OldHead /\ OldTail' = OldTail
           /\ Added' = Added /\ Allocated' = Allocated
<1>0. PICK s : s = Nodes
  OBVIOUS
<1>1. UndoKnown /\ IsList(s)
  BY <1>0 DEF QueueInv
<1>2. OldHead' = OldHead /\ OldTail' = OldTail /\ Allocated' = Allocated
  BY SameUndo DEF OldHead, OldTail, Allocated
<1>3. \A n : OldNext(n)' = OldNext(n)
  BY SameUndo DEF OldNext
<1>. QED  BY <1>1, <1>2, <1>3, SameUndo, ListKept

LEMMA OpenPoolStep ==
    ASSUME QueueInv, OpenPool
    PROVE  QueueInv' /\ Contents' = Contents
<1>0. PICK s : s = Nodes
  OBVIOUS
<1>1. /\ head' = OldHead /\ tail' = OldTail /\ node' = OldNodes
      /\ undo' = {} /\ fresh' = {} /\ doomed' = {} /\ pc' = "main"
      /\ UNCHANGED <<h, t, newnode, val>>
  BY DEF OpenPool, callVars
<1>2. TypeOK /\ IsList(s)
  BY <1>0 DEF QueueInv
<1>3. \A n \in Node : IF n \in Allocated \ fresh
                      THEN node'[n] = [value |-> node[n].value, next |-> OldNext(n)]
                      ELSE node'[n] = <<>>
  <2>1. SUFFICES ASSUME NEW n \in Node
                 PROVE  IF n \in Allocated \ fresh
                        THEN node'[n] = [value |-> node[n].value, next |-> OldNext(n)]
                        ELSE node'[n] = <<>>
    OBVIOUS
  <2>2. CASE n \in Allocated \ fresh
    <3>1. node[n] \in [value : Value, next : Link]
      BY <1>2, <2>2, NodeTyped
    <3>2. node'[n] = [node[n] EXCEPT !.next = OldNext(n)]
      BY <1>1, <2>2 DEF OldNodes, Allocated
    <3>. QED  BY <2>2, <3>1, <3>2
  <2>3. CASE n \notin Allocated \ fresh
    BY <1>1, <2>3 DEF OldNodes, Allocated
  <2>. QED  BY <2>2, <2>3
<1>4. \A n \in Allocated \ fresh : /\ n \in Node /\ OldNext(n) \in Link /\ node[n].value \in Value
                                   /\ node'[n].next = OldNext(n) /\ node'[n].value = node[n].value
                                   /\ node'[n] # <<>>
  <2>1. SUFFICES ASSUME NEW n \in Allocated \ fresh
                 PROVE  /\ n \in Node /\ OldNext(n) \in Link /\ node[n].value \in Value
                        /\ node'[n].next = OldNext(n) /\ node'[n].value = node[n].value
                        /\ node'[n] # <<>>
    OBVIOUS
  <2>2. n \in Node /\ OldNext(n) \in Link /\ node[n] \in [value : Value, next : Link]
    BY <1>2, NodeTyped
  <2>3. node'[n] = [value |-> node[n].value, next |-> OldNext(n)]
    BY <1>3, <2>2
  <2>. QED  BY <2>2, <2>3, NodeIsNotFree
<1>5. node' \in [Node -> {<<>>} \cup [value : Value, next : Link]]
  <2>1. ASSUME NEW n \in Node
        PROVE  node'[n] \in {<<>>} \cup [value : Value, next : Link]
    <3>1. CASE n \in Allocated \ fresh
      <4>1. node'[n] = [value |-> node[n].value, next |-> OldNext(n)]
        BY <1>3, <3>1
      <4>2. node[n].value \in Value /\ OldNext(n) \in Link
        BY <1>4, <3>1
      <4>. QED  BY <4>1, <4>2
    <3>2. CASE n \notin Allocated \ fresh
      BY <1>3, <3>2
    <3>. QED  BY <3>1, <3>2
  <2>2. node' = [n \in Node |-> node'[n]]
    BY <1>1 DEF OldNodes
  <2>. QED  BY <2>1, <2>2
<1>6. TypeOK'
  <2>1. head' \in Link /\ tail' \in Link
    BY <1>1, <1>2, OldTyped DEF TypeOK, OldHead, OldTail
  <2>. QED  BY <1>1, <1>2, <1>5, <2>1 DEF TypeOK
<1>7. Allocated' \ fresh' = Allocated \ fresh
  <2>1. Allocated' = {n \in Node : node'[n] # <<>>}
    BY DEF Allocated
  <2>2. \A n \in Node : node'[n] # <<>> <=> n \in Allocated \ fresh
    BY <1>3, <1>4
  <2>3. Allocated \ fresh \subseteq Node
    BY DEF Allocated
  <2>. QED  BY <1>1, <2>1, <2>2, <2>3
<1>8. OldHead' = OldHead /\ OldTail' = OldTail
  BY <1>1, NoUndoAfter DEF OldHead, OldTail
<1>9. \A n \in Allocated \ fresh : OldNext(n)' = OldNext(n)
  <2>1. \A n : OldNext(n)' = node'[n].next
    BY <1>1, NoUndoAfter DEF OldNext
  <2>. QED  BY <1>4, <2>1
<1>10. IsList(Nodes)' /\ Contents' = Contents
  BY <1>2, <1>4, <1>7, <1>8, <1>9, ListKept
<1>11. UndoKnown' /\ ~Enqueing' /\ ~Dequeing'
  BY <1>1, NoUndoAfter DEF Enqueing, Dequeing
<1>. QED  BY <1>6, <1>10, <1>11 DEF QueueInv

\* Commands that leave the pool alone, the end of the program, and a crash.
LEMMA NoChangeStep ==
    ASSUME QueueInv, EnqueFails \/ DequeEmpty \/ PrintValue \/ Show \/ Close \/ Crash
    PROVE  QueueInv' /\ Contents' = Contents /\ pc' # "print"
<1>1. /\ UNCHANGED <<head, tail, node, undo, fresh, doomed, val>>
      /\ pc' = "down" \/ (pc' = "close" /\ pc \in {"main", "print"})
      /\ h' \in {h, Null} /\ t' \in {t, Null} /\ newnode' \in {newnode, Null}
  BY DEF EnqueFails, DequeEmpty, PrintValue, Show, Close, Crash, Exit, rootVars, txVars, callVars
<1>2. TypeOK'
  <2>1. Null \in Link
    BY DEF Link
  <2>. QED  BY <1>1, <2>1 DEF QueueInv, TypeOK
<1>3. ~Enqueing' /\ ~Dequeing'
  BY <1>1 DEF Enqueing, Dequeing
<1>. QED  BY <1>1, <1>2, <1>3, QueueQuiet DEF QueueInv

LEMMA EnqueStep ==
    ASSUME QueueInv, NEW v \in Value, NEW n \in Node, Enque(v, n)
    PROVE  QueueInv' /\ Contents' = Contents
<1>0. PICK s : s = Nodes
  OBVIOUS
<1>1. /\ pc = "main" /\ n \notin Allocated /\ h' = head /\ t' = tail /\ newnode' = n
      /\ node' = [node EXCEPT ![n] = [value |-> v, next |-> Null]] /\ fresh' = {n}
      /\ pc' = IF head = Null THEN "first" ELSE "link"
      /\ UNCHANGED <<head, tail, undo, doomed, val>>
  BY DEF Enque, rootVars
<1>2. TypeOK /\ IsList(s) /\ UndoKnown /\ undo = {} /\ fresh = {} /\ doomed = {}
  BY <1>0, <1>1 DEF QueueInv, TypeOK
<1>3. /\ node' \in [Node -> {<<>>} \cup [value : Value, next : Link]]
      /\ node'[n] = [value |-> v, next |-> Null]
      /\ \A m \in Node : m # n => node'[m] = node[m]
  BY <1>1, <1>2 DEF TypeOK, Link
<1>4. node'[n] # <<>> /\ node'[n].next = Null
  BY <1>3, NodeIsNotFree
<1>5. Allocated' = Allocated \cup {n} /\ Allocated \subseteq Node
  BY <1>1, <1>3, <1>4 DEF Allocated
<1>6. TypeOK'
  BY <1>1, <1>2, <1>3 DEF TypeOK, Link
<1>7. /\ \A f, x : OldOf(f, x)' = x
      /\ \A f, x : OldOf(f, x) = x
      /\ UndoKnown'
  BY <1>1, <1>2, NoUndoAfter, NotAdded DEF Added
<1>8. OldHead' = head /\ OldHead = head /\ OldTail' = tail /\ OldTail = tail
  BY <1>1, <1>7 DEF OldHead, OldTail
<1>9. \A m \in Allocated \ fresh : OldNext(m)' = OldNext(m) /\ node'[m].value = node[m].value
  BY <1>1, <1>3, <1>5, <1>7 DEF OldNext
<1>10. Allocated' \ fresh' = Allocated \ fresh
  BY <1>1, <1>2, <1>5
<1>11. IsList(Nodes)' /\ Contents' = Contents
  BY <1>2, <1>8, <1>9, <1>10, ListKept
<1>12. EnqueKnown' /\ ~Dequeing'
  BY <1>1, <1>2, <1>4, <1>5, <1>8 DEF EnqueKnown, Dequeing
<1>. QED  BY <1>6, <1>7, <1>11, <1>12 DEF QueueInv

LEMMA DequeStep ==
    ASSUME QueueInv, Deque
    PROVE  QueueInv' /\ Contents' = Contents
<1>0. PICK s : s = Nodes
  OBVIOUS
<1>1. /\ pc = "main" /\ head # Null /\ h' = head /\ t' = tail /\ val' = node[head].value /\ pc' = "pop"
      /\ UNCHANGED <<head, tail, node, undo, fresh, doomed, newnode>>
  BY DEF Deque, rootVars, txVars
<1>2. TypeOK /\ IsList(s) /\ undo = {} /\ fresh = {} /\ doomed = {}
  BY <1>0, <1>1 DEF QueueInv, TypeOK
<1>3. OldHead = head /\ OldTail = tail
  BY <1>2, NotAdded DEF OldHead, OldTail, Added
<1>4. head \in Node /\ head \in Allocated
  BY <1>1, <1>2, <1>3 DEF IsList, TypeOK, Link
<1>5. node[head].value \in Value
  BY <1>2, <1>4, NodeTyped
<1>6. TypeOK'
  BY <1>1, <1>2, <1>5 DEF TypeOK
<1>7. DequeKnown' /\ ~Enqueing'
  BY <1>1, <1>2, <1>3, <1>4, QueueQuiet DEF DequeKnown, Enqueing
<1>. QED  BY <1>1, <1>6, <1>7, QueueQuiet DEF QueueInv

\* A list that is not empty has its ends among its nodes.
LEMMA EndsOfList ==
    ASSUME NEW s, IsList(s), OldHead # Null \/ OldTail # Null
    PROVE  /\ Len(s) \in Nat /\ Len(s) >= 1 /\ 1 \in 1 .. Len(s) /\ Len(s) \in 1 .. Len(s)
           /\ OldHead = s[1] /\ OldTail = s[Len(s)]
           /\ OldHead \in Allocated \ fresh /\ OldTail \in Allocated \ fresh
           /\ OldHead \in Node /\ OldTail \in Node /\ OldNext(OldTail) = Null
<1>1. Len(s) \in Nat /\ Len(s) # 0 /\ s \in [1 .. Len(s) -> Node]
  BY DEF IsList
<1>2. Len(s) >= 1 /\ 1 \in 1 .. Len(s) /\ Len(s) \in 1 .. Len(s)
  BY <1>1
<1>3. OldHead = s[1] /\ OldTail = s[Len(s)]
  BY <1>1 DEF IsList
<1>. QED  BY <1>1, <1>2, <1>3 DEF IsList

\* Fields that a transaction adds keep their types.
LEMMA UndoTyped ==
    ASSUME TypeOK, NEW f \in {"head", "tail"} \cup Node, NEW o \in Link, undo' = undo \cup {<<f, o>>}
    PROVE  undo' \subseteq ({"head", "tail"} \cup Node) \X Link
BY DEF TypeOK

LEMMA FirstHeadStep ==
    ASSUME QueueInv, FirstHead
    PROVE  QueueInv' /\ Contents' = Contents
<1>0. PICK s, x, y : s = Nodes /\ x = head /\ y = tail
  OBVIOUS
<1>1. /\ pc = "first" /\ undo' = {<<"head", x>>, <<"tail", y>>} /\ head' = newnode /\ pc' = "firsttail"
      /\ UNCHANGED <<tail, node, fresh, doomed, h, t, newnode, val>>
  BY <1>0 DEF FirstHead, callVars
<1>2. TypeOK /\ IsList(s) /\ EnqueKnown /\ undo = {}
  BY <1>0, <1>1 DEF QueueInv, Enqueing, EnqueKnown
<1>3. OldHead = x /\ OldTail = y /\ x = Null /\ \A f, v : OldOf(f, v) = v
  BY <1>0, <1>1, <1>2, NotAdded DEF OldHead, OldTail, Added, EnqueKnown
<1>4. \A u \in undo' : (u[1] = "head" /\ u[2] = x) \/ (u[1] = "tail" /\ u[2] = y)
  BY <1>1
<1>5. UndoKnown'
  BY <1>4, FieldsDiffer DEF UndoKnown
<1>6. Added' = {"head", "tail"}
  <2>1. <<"head", x>>[1] = "head" /\ <<"tail", y>>[1] = "tail"
    OBVIOUS
  <2>. QED  BY <1>1, <2>1 DEF Added
<1>7. \A v : OldOf("head", v)' = x /\ OldOf("tail", v)' = y
  <2>1. (CHOOSE u \in undo' : u[1] = "head")[2] = x /\ \E u \in undo' : u[1] = "head"
    <3>1. \E u \in undo' : u[1] = "head"
      BY <1>1
    <3>. QED  BY <1>4, <3>1, FieldsDiffer
  <2>2. (CHOOSE u \in undo' : u[1] = "tail")[2] = y /\ \E u \in undo' : u[1] = "tail"
    <3>1. \E u \in undo' : u[1] = "tail"
      BY <1>1
    <3>. QED  BY <1>4, <3>1, FieldsDiffer
  <2>. QED  BY <2>1, <2>2 DEF OldOf
<1>8. \A n \in Node : \A v : OldOf(n, v)' = v
  BY <1>4, FieldsDiffer DEF OldOf
<1>9. OldHead' = OldHead /\ OldTail' = OldTail
  BY <1>3, <1>7 DEF OldHead, OldTail
<1>10. \A n \in Node : OldNext(n)' = OldNext(n)
  BY <1>1, <1>3, <1>8 DEF OldNext
<1>11. Allocated' = Allocated /\ Allocated \subseteq Node
  BY <1>1 DEF Allocated
<1>12. IsList(Nodes)' /\ Contents' = Contents
  BY <1>1, <1>2, <1>9, <1>10, <1>11, ListKept
<1>13. TypeOK'
  <2>1. undo' \subseteq ({"head", "tail"} \cup Node) \X Link
    BY <1>0, <1>1, <1>2 DEF TypeOK
  <2>. QED  BY <1>1, <1>2, <2>1 DEF TypeOK, EnqueKnown
<1>14. EnqueKnown' /\ ~Dequeing'
  BY <1>1, <1>2, <1>3, <1>6, <1>9, <1>11 DEF EnqueKnown, Dequeing
<1>. QED  BY <1>5, <1>12, <1>13, <1>14 DEF QueueInv

LEMMA FirstTailStep ==
    ASSUME QueueInv, FirstTail
    PROVE  QueueInv' /\ Contents' = Contents
<1>0. PICK s : s = Nodes
  OBVIOUS
<1>1. /\ pc = "firsttail" /\ tail' = newnode /\ pc' = "commit"
      /\ UNCHANGED <<head, node, undo, fresh, doomed, h, t, newnode, val>>
  BY DEF FirstTail, txVars, callVars
<1>2. /\ TypeOK /\ IsList(s) /\ UndoKnown /\ EnqueKnown /\ Added = {"head", "tail"}
      /\ OldHead = Null
  BY <1>0, <1>1 DEF QueueInv, Enqueing, EnqueKnown
<1>3. (\A f, v : OldOf(f, v)' = OldOf(f, v)) /\ UndoKnown' /\ Added' = Added
  BY <1>1, <1>2, SameUndo
<1>4. OldTail' = OldTail
  <2>1. OldOf("tail", tail') = OldOf("tail", tail)
    BY <1>2, Hidden
  <2>. QED  BY <1>3, <2>1 DEF OldTail
<1>5. OldHead' = OldHead /\ Allocated' = Allocated /\ \A n : OldNext(n)' = OldNext(n)
  BY <1>1, <1>3 DEF OldHead, Allocated, OldNext
<1>6. IsList(Nodes)' /\ Contents' = Contents
  BY <1>1, <1>2, <1>4, <1>5, ListKept
<1>7. TypeOK'
  BY <1>1, <1>2 DEF TypeOK
<1>8. EnqueKnown' /\ ~Dequeing'
  BY <1>1, <1>2, <1>3, <1>4, <1>5 DEF EnqueKnown, Dequeing
<1>. QED  BY <1>3, <1>6, <1>7, <1>8 DEF QueueInv

LEMMA LinkTailStep ==
    ASSUME QueueInv, LinkTail
    PROVE  QueueInv' /\ Contents' = Contents
<1>0. PICK s, x, o, new : s = Nodes /\ x = t /\ o = node[t].next /\ new = newnode
  OBVIOUS
<1>1. /\ pc = "link" /\ undo' = undo \cup {<<x, o>>} /\ node' = [node EXCEPT ![x].next = new]
      /\ pc' = "settail" /\ UNCHANGED <<head, tail, fresh, doomed, h, t, newnode, val>>
  BY <1>0 DEF LinkTail, rootVars, callVars
<1>2. TypeOK /\ IsList(s) /\ UndoKnown /\ EnqueKnown /\ undo = {} /\ OldHead # Null /\ x = OldTail
  BY <1>0, <1>1 DEF QueueInv, Enqueing, EnqueKnown
<1>3. x \in Allocated \ fresh /\ x \in Node
  BY <1>2, EndsOfList
<1>4. /\ new \in Node /\ fresh = {new} /\ new # x /\ new \in Allocated /\ node[new].next = Null
      /\ new \in Link
  BY <1>0, <1>2, <1>3 DEF EnqueKnown, Link
<1>5. node[x] \in [value : Value, next : Link] /\ node[x] # <<>>
  BY <1>2, <1>3, NodeTyped DEF Allocated
<1>6. o \in Link /\ o = node[x].next
  BY <1>0, <1>5
<1>7. /\ node'[x] = [value |-> node[x].value, next |-> new]
      /\ \A n \in Node : n # x => node'[n] = node[n]
      /\ DOMAIN node' = Node /\ node' = [n \in Node |-> node'[n]]
  BY <1>1, <1>2, <1>3, <1>5 DEF TypeOK
<1>8. node'[x] # <<>> /\ node'[x].next = new /\ node'[x].value = node[x].value
      /\ node'[x] \in [value : Value, next : Link]
  <2>1. node[x].value \in Value
    BY <1>5
  <2>. QED  BY <1>4, <1>7, <2>1, NodeIsNotFree
<1>9. Allocated' = Allocated /\ Allocated \subseteq Node
  BY <1>3, <1>5, <1>7, <1>8 DEF Allocated
<1>10. x \notin Added
  BY <1>2 DEF Added
<1>11. /\ UndoKnown' /\ Added' = Added \cup {x} /\ \A v : OldOf(x, v)' = o
       /\ \A g, v : g # x => OldOf(g, v)' = OldOf(g, v)
  BY <1>1, <1>2, <1>10, AddField
<1>12. OldHead' = OldHead /\ OldTail' = OldTail
  BY <1>1, <1>3, <1>11, FieldsDiffer DEF OldHead, OldTail
<1>13. \A n \in Node : OldNext(n)' = OldNext(n)
  <2>1. OldNext(x) = o
    BY <1>6, <1>10, NotAdded DEF OldNext
  <2>2. \A n : n = x => OldNext(n)' = o
    BY <1>11 DEF OldNext
  <2>3. \A n \in Node : n # x => OldNext(n)' = OldNext(n)
    BY <1>7, <1>11 DEF OldNext
  <2>. QED  BY <2>1, <2>2, <2>3
<1>14. \A n \in Allocated \ fresh : node'[n].value = node[n].value
  BY <1>7, <1>8, <1>9
<1>15. IsList(Nodes)' /\ Contents' = Contents
  BY <1>1, <1>2, <1>9, <1>12, <1>13, <1>14, ListKept
<1>16. TypeOK'
  <2>1. node' \in [Node -> {<<>>} \cup [value : Value, next : Link]]
    BY <1>2, <1>7, <1>8 DEF TypeOK
  <2>2. undo' \subseteq ({"head", "tail"} \cup Node) \X Link
    BY <1>1, <1>2, <1>3, <1>6, UndoTyped
  <2>. QED  BY <1>1, <1>2, <2>1, <2>2 DEF TypeOK
<1>17. Added' = {x}
  BY <1>2, <1>11 DEF Added
<1>18. node'[new].next = Null
  BY <1>4, <1>7
<1>19. EnqueKnown' /\ ~Dequeing'
  BY <1>0, <1>1, <1>2, <1>4, <1>8, <1>9, <1>12, <1>17, <1>18 DEF EnqueKnown, Dequeing
<1>. QED  BY <1>11, <1>15, <1>16, <1>19 DEF QueueInv

LEMMA SetTailStep ==
    ASSUME QueueInv, SetTail
    PROVE  QueueInv' /\ Contents' = Contents
<1>0. PICK s, y : s = Nodes /\ y = tail
  OBVIOUS
<1>1. /\ pc = "settail" /\ undo' = undo \cup {<<"tail", y>>} /\ tail' = newnode /\ pc' = "commit"
      /\ UNCHANGED <<head, node, fresh, doomed, h, t, newnode, val>>
  BY <1>0 DEF SetTail, callVars
<1>2. /\ TypeOK /\ IsList(s) /\ UndoKnown /\ EnqueKnown /\ OldHead # Null /\ Added = {t} /\ t = OldTail
      /\ y \in Link
  BY <1>0, <1>1 DEF QueueInv, Enqueing, EnqueKnown, TypeOK
<1>3. t \in Node /\ "tail" \notin Added
  BY <1>2, EndsOfList, FieldsDiffer
<1>4. /\ UndoKnown' /\ Added' = Added \cup {"tail"} /\ \A v : OldOf("tail", v)' = y
      /\ \A g, v : g # "tail" => OldOf(g, v)' = OldOf(g, v)
  BY <1>1, <1>2, <1>3, AddField
<1>5. OldTail = y /\ OldTail' = y
  BY <1>0, <1>3, <1>4, NotAdded DEF OldTail
<1>6. OldHead' = OldHead /\ Allocated' = Allocated /\ Allocated \subseteq Node
  BY <1>1, <1>4, FieldsDiffer DEF OldHead, Allocated
<1>7. \A n \in Node : OldNext(n)' = OldNext(n)
  BY <1>1, <1>4, FieldsDiffer DEF OldNext
<1>8. IsList(Nodes)' /\ Contents' = Contents
  BY <1>1, <1>2, <1>5, <1>6, <1>7, ListKept
<1>9. TypeOK'
  <2>1. undo' \subseteq ({"head", "tail"} \cup Node) \X Link
    BY <1>1, <1>2, UndoTyped
  <2>. QED  BY <1>1, <1>2, <2>1 DEF TypeOK
<1>10. EnqueKnown' /\ ~Dequeing'
  BY <1>1, <1>2, <1>4, <1>5, <1>6 DEF EnqueKnown, Dequeing
<1>. QED  BY <1>4, <1>8, <1>9, <1>10 DEF QueueInv

LEMMA PopHeadStep ==
    ASSUME QueueInv, PopHead
    PROVE  QueueInv' /\ Contents' = Contents
<1>0. PICK s, x : s = Nodes /\ x = head
  OBVIOUS
<1>1. /\ pc = "pop" /\ undo' = undo \cup {<<"head", x>>} /\ head' = node[h].next
      /\ pc' = IF h = t THEN "poptail" ELSE "free"
      /\ UNCHANGED <<tail, node, fresh, doomed, h, t, newnode, val>>
  BY <1>0 DEF PopHead, callVars
<1>2. TypeOK /\ IsList(s) /\ UndoKnown /\ DequeKnown /\ undo = {} /\ x \in Link
  BY <1>0, <1>1 DEF QueueInv, Dequeing, DequeKnown, TypeOK
<1>3. Added = {} /\ h \in Node /\ h = OldHead /\ t = OldTail /\ doomed = {} /\ fresh = {} /\ h # Null
  BY <1>1, <1>2, FieldsDiffer DEF Added, DequeKnown
<1>4. /\ UndoKnown' /\ Added' = {"head"} /\ \A v : OldOf("head", v)' = x
      /\ \A g, v : g # "head" => OldOf(g, v)' = OldOf(g, v)
  BY <1>1, <1>2, <1>3, AddField
<1>5. OldHead = x /\ OldHead' = x
  BY <1>0, <1>3, <1>4, NotAdded DEF OldHead
<1>6. OldTail' = OldTail /\ Allocated' = Allocated /\ Allocated \subseteq Node
  BY <1>1, <1>4, FieldsDiffer DEF OldTail, Allocated
<1>7. \A n \in Node : OldNext(n)' = OldNext(n)
  BY <1>1, <1>4, FieldsDiffer DEF OldNext
<1>8. IsList(Nodes)' /\ Contents' = Contents
  BY <1>1, <1>2, <1>5, <1>6, <1>7, ListKept
<1>9. TypeOK'
  <2>1. undo' \subseteq ({"head", "tail"} \cup Node) \X Link
    BY <1>1, <1>2, UndoTyped
  <2>2. h \in Allocated
    BY <1>2, <1>3, EndsOfList
  <2>3. node[h].next \in Link
    BY <1>2, <2>2, NodeTyped
  <2>. QED  BY <1>1, <1>2, <2>1, <2>3 DEF TypeOK
<1>10. DequeKnown' /\ ~Enqueing'
  BY <1>1, <1>2, <1>3, <1>4, <1>5, <1>6 DEF DequeKnown, Enqueing
<1>. QED  BY <1>4, <1>8, <1>9, <1>10 DEF QueueInv

LEMMA PopTailStep ==
    ASSUME QueueInv, PopTail
    PROVE  QueueInv' /\ Contents' = Contents
<1>0. PICK s, y : s = Nodes /\ y = tail
  OBVIOUS
<1>1. /\ pc = "poptail" /\ undo' = undo \cup {<<"tail", y>>} /\ tail' = node[t].next /\ pc' = "free"
      /\ UNCHANGED <<head, node, fresh, doomed, h, t, newnode, val>>
  BY <1>0 DEF PopTail, callVars
<1>2. TypeOK /\ IsList(s) /\ UndoKnown /\ DequeKnown /\ y \in Link
  BY <1>0, <1>1 DEF QueueInv, Dequeing, TypeOK
<1>3. /\ Added = {"head"} /\ h \in Node /\ h = OldHead /\ t = OldTail /\ h = t /\ doomed = {}
      /\ fresh = {} /\ "tail" \notin Added /\ h # Null /\ h \notin Added
  BY <1>1, <1>2, FieldsDiffer DEF DequeKnown
<1>4. /\ UndoKnown' /\ Added' = {"head", "tail"} /\ \A v : OldOf("tail", v)' = y
      /\ \A g, v : g # "tail" => OldOf(g, v)' = OldOf(g, v)
  BY <1>1, <1>2, <1>3, AddField
<1>5. OldTail = y /\ OldTail' = y
  BY <1>0, <1>3, <1>4, NotAdded DEF OldTail
<1>6. OldHead' = OldHead /\ Allocated' = Allocated /\ Allocated \subseteq Node
  BY <1>1, <1>4, FieldsDiffer DEF OldHead, Allocated
<1>7. \A n \in Node : OldNext(n)' = OldNext(n)
  BY <1>1, <1>4, FieldsDiffer DEF OldNext
<1>8. IsList(Nodes)' /\ Contents' = Contents
  BY <1>1, <1>2, <1>5, <1>6, <1>7, ListKept
<1>9. tail' = Null
  <2>1. OldNext(t) = Null
    BY <1>2, <1>3, EndsOfList
  <2>2. OldNext(t) = node[t].next
    BY <1>3, NotAdded DEF OldNext
  <2>. QED  BY <1>1, <2>1, <2>2
<1>10. TypeOK'
  <2>1. undo' \subseteq ({"head", "tail"} \cup Node) \X Link
    BY <1>1, <1>2, UndoTyped
  <2>. QED  BY <1>1, <1>2, <1>9, <2>1 DEF TypeOK, Link
<1>11. DequeKnown' /\ ~Enqueing'
  BY <1>1, <1>2, <1>3, <1>4, <1>5, <1>6, <1>9 DEF DequeKnown, Enqueing
<1>. QED  BY <1>4, <1>8, <1>10, <1>11 DEF QueueInv

LEMMA FreeHeadStep ==
    ASSUME QueueInv, FreeHead
    PROVE  QueueInv' /\ Contents' = Contents
<1>1. /\ pc = "free" /\ doomed' = {h} /\ pc' = "commit"
      /\ UNCHANGED <<head, tail, node, undo, fresh, h, t, newnode, val>>
  BY DEF FreeHead, rootVars, callVars
<1>2. TypeOK /\ DequeKnown
  BY <1>1 DEF QueueInv, Dequeing
<1>3. TypeOK'
  BY <1>1, <1>2 DEF TypeOK, DequeKnown
<1>4. DequeKnown' /\ ~Enqueing'
  BY <1>1, <1>2, QueueQuiet DEF DequeKnown, Enqueing
<1>. QED  BY <1>1, <1>3, <1>4, QueueQuiet DEF QueueInv

\* TX_END: what the call has stored is what the next run finds.
LEMMA CommitIsFinal ==
    ASSUME QueueInv, Commit
    PROVE  /\ node' \in [Node -> {<<>>} \cup [value : Value, next : Link]]
           /\ \A n \in Node : node'[n] = IF n \in doomed THEN <<>> ELSE node[n]
           /\ Allocated' \ fresh' = Allocated \ doomed
           /\ OldHead' = head /\ OldTail' = tail
           /\ \A n \in Allocated \ doomed : OldNext(n)' = node[n].next
           /\ TypeOK' /\ UndoKnown' /\ ~Enqueing' /\ ~Dequeing'
<1>1. /\ pc = "commit" /\ undo' = {} /\ fresh' = {} /\ doomed' = {}
      /\ node' = [n \in Node |-> IF n \in doomed THEN <<>> ELSE node[n]]
      /\ pc' = IF doomed = {} THEN "close" ELSE "print"
      /\ UNCHANGED <<head, tail, h, t, newnode, val>>
  BY DEF Commit, rootVars, callVars
<1>2. TypeOK
  BY DEF QueueInv
<1>3. node' \in [Node -> {<<>>} \cup [value : Value, next : Link]]
  BY <1>1, <1>2 DEF TypeOK
<1>4. Allocated' \ fresh' = Allocated \ doomed
  BY <1>1 DEF Allocated
<1>5. OldHead' = head /\ OldTail' = tail /\ UndoKnown'
  BY <1>1, NoUndoAfter DEF OldHead, OldTail
<1>6. \A n \in Allocated \ doomed : OldNext(n)' = node[n].next
  <2>1. \A n : OldNext(n)' = node'[n].next
    BY <1>1, NoUndoAfter DEF OldNext
  <2>. QED  BY <1>1, <2>1 DEF Allocated
<1>7. TypeOK' /\ ~Enqueing' /\ ~Dequeing'
  BY <1>1, <1>2, <1>3 DEF TypeOK, Enqueing, Dequeing
<1>. QED  BY <1>1, <1>3, <1>4, <1>5, <1>6, <1>7

\* The commit of queue_enque appends the new node.
LEMMA CommitEnqueStep ==
    ASSUME QueueInv, Commit, doomed = {}
    PROVE  /\ QueueInv' /\ pc' = "close"
           /\ \E v \in Value : v = node[newnode].value /\ Contents' = Append(Contents, v)
<1>0. PICK s, n, L : s = Nodes /\ n = newnode /\ L = Len(s)
  OBVIOUS
<1>1. pc = "commit" /\ pc' = "close"
  BY DEF Commit
<1>2. TypeOK /\ IsList(s) /\ EnqueKnown
  BY <1>0, <1>1 DEF QueueInv, Enqueing
<1>3. /\ n \in Node /\ fresh = {n} /\ n \in Allocated /\ node[n].next = Null /\ tail = n
      /\ OldHead = Null => Added = {"head", "tail"} /\ head = n
      /\ OldHead # Null => Added = {t, "tail"} /\ node[t].next = n
      /\ t = OldTail
  BY <1>0, <1>1, <1>2 DEF EnqueKnown
<1>4. L \in Nat /\ s \in Seq(Node) /\ s \in [1 .. L -> Node] /\ DOMAIN s = 1 .. L
  BY <1>0, <1>2 DEF IsList
<1>5. PICK z : z = Append(s, n)
  OBVIOUS
<1>6. /\ z \in Seq(Node) /\ Len(z) = L + 1 /\ z[L + 1] = n
      /\ \A k \in 1 .. L : z[k] = s[k]
  BY <1>0, <1>3, <1>4, <1>5
<1>7. \A k \in 1 .. L + 1 : k \in 1 .. L \/ k = L + 1
  BY <1>4
<1>8. {s[k] : k \in 1 .. L} = Allocated \ {n} /\ \A i, j \in 1 .. L : i # j => s[i] # s[j]
  BY <1>0, <1>2, <1>3 DEF IsList
<1>9. \A i, j \in 1 .. L + 1 : i # j => z[i] # z[j]
  BY <1>6, <1>7, <1>8
<1>10. {z[k] : k \in 1 .. L + 1} = Allocated
  <2>1. \A k \in 1 .. L + 1 : z[k] \in Allocated
    BY <1>3, <1>6, <1>7, <1>8
  <2>2. \A m \in Allocated : \E k \in 1 .. L + 1 : z[k] = m
    <3>1. L + 1 \in 1 .. L + 1 /\ 1 .. L \subseteq 1 .. L + 1
      BY <1>4
    <3>2. ASSUME NEW m \in Allocated, m # n
          PROVE  \E k \in 1 .. L + 1 : z[k] = m
      <4>1. PICK k \in 1 .. L : s[k] = m
        BY <1>8, <3>2
      <4>. QED  BY <1>6, <3>1, <4>1
    <3>. QED  BY <1>6, <3>1, <3>2
  <2>. QED  BY <2>1, <2>2
<1>11. head = z[1]
  <2>1. CASE OldHead = Null
    <3>1. L = 0
      <4>1. L # 0 => s[1] \in Node
        BY <1>4
      <4>. QED  BY <1>0, <1>2, <2>1, <4>1, FieldsDiffer DEF IsList
    <3>. QED  BY <1>3, <1>6, <2>1, <3>1
  <2>2. CASE OldHead # Null
    <3>1. OldHead = s[1] /\ 1 \in 1 .. L /\ t \in Node
      BY <1>0, <1>2, <1>3, <2>2, EndsOfList
    <3>2. "head" \notin Added
      BY <1>3, <2>2, <3>1, FieldsDiffer
    <3>. QED  BY <1>6, <3>1, <3>2, NotAdded DEF OldHead
  <2>. QED  BY <2>1, <2>2
<1>12. \A k \in 1 .. L + 1 : node[z[k]].next = IF k = L + 1 THEN Null ELSE z[k + 1]
  <2>1. ASSUME NEW k \in 1 .. L
        PROVE  node[z[k]].next = z[k + 1]
    <3>1. OldHead # Null
      <4>1. L # 0 /\ 1 \in 1 .. L
        BY <1>4, <2>1
      <4>2. s[1] \in Node
        BY <1>4, <4>1
      <4>. QED  BY <1>0, <1>2, <4>1, <4>2, FieldsDiffer DEF IsList
    <3>2. t = s[L] /\ L \in 1 .. L /\ t \in Node
      BY <1>0, <1>2, <1>3, <3>1, EndsOfList
    <3>3. CASE k = L
      BY <1>3, <1>6, <3>1, <3>2, <3>3
    <3>4. CASE k # L
      <4>1. s[k] # t /\ s[k] \in Node /\ s[k] \notin Added
        BY <1>3, <1>4, <1>8, <3>1, <3>2, <3>4, FieldsDiffer
      <4>2. OldNext(s[k]) = node[s[k]].next
        BY <4>1, NotAdded DEF OldNext
      <4>3. OldNext(s[k]) = s[k + 1]
        BY <1>0, <1>2, <3>4 DEF IsList
      <4>4. k + 1 \in 1 .. L
        BY <1>4, <3>4
      <4>. QED  BY <1>6, <4>2, <4>3, <4>4
    <3>. QED  BY <3>3, <3>4
  <2>2. \A k \in 1 .. L : k # L + 1
    BY <1>4
  <2>. QED  BY <1>3, <1>6, <1>7, <2>1, <2>2
<1>13. IsList(z)'
  <2>1. L + 1 # 0 /\ L + 1 \in Nat
    BY <1>4
  <2>2. Allocated' \ fresh' = Allocated /\ Allocated \ doomed = Allocated
    BY CommitIsFinal
  <2>3. \A k \in 1 .. L + 1 : z[k] \in Allocated
    BY <1>10
  <2>4. \A k \in 1 .. L + 1 : OldNext(z[k])' = IF k = L + 1 THEN Null ELSE z[k + 1]
    BY <1>12, <2>2, <2>3, CommitIsFinal
  <2>5. OldHead' = z[1] /\ OldTail' = z[L + 1]
    BY <1>3, <1>6, <1>11, CommitIsFinal
  <2>. QED  BY <1>6, <1>9, <1>10, <2>1, <2>2, <2>4, <2>5 DEF IsList
<1>14. QueueInv'
  BY <1>13, CommitIsFinal, ReadListAfter DEF QueueInv
<1>15. Contents' = Append(Contents, node[n].value)
  <2>1. Contents' = [k \in 1 .. L + 1 |-> node'[z[k]].value]
    BY <1>6, <1>13, ReadListAfter
  <2>2. Contents = [k \in 1 .. L |-> node[s[k]].value]
    BY <1>0, <1>2, ReadList
  <2>3. \A m \in Node : node'[m] = node[m]
    BY CommitIsFinal
  <2>4. node[n].value \in Value /\ \A k \in 1 .. L : node[s[k]].value \in Value
    BY <1>2, <1>3, <1>8, NodeTyped
  <2>5. Contents \in Seq(Value) /\ Len(Contents) = L
    BY <1>4, <2>2, <2>4
  <2>. DEFINE a == Append(Contents, node[n].value)
  <2>6. a \in Seq(Value) /\ Len(a) = L + 1 /\ a[L + 1] = node[n].value
        /\ \A k \in 1 .. L : a[k] = Contents[k]
    BY <2>4, <2>5
  <2>7. a = [k \in 1 .. L + 1 |-> a[k]]
    BY <2>6
  <2>. HIDE DEF a
  <2>8. \A k \in 1 .. L + 1 : a[k] = node'[z[k]].value
    BY <1>3, <1>4, <1>6, <1>7, <2>2, <2>3, <2>6
  <2>9. a = Contents'
    BY <2>1, <2>7, <2>8
  <2>. QED  BY <2>9 DEF a
<1>16. node[n].value \in Value
  BY <1>2, <1>3, NodeTyped
<1>. QED  BY <1>0, <1>1, <1>14, <1>15, <1>16

\* The commit of queue_deque takes the first node out, and val is its value.
LEMMA CommitDequeStep ==
    ASSUME QueueInv, Commit, doomed # {}
    PROVE  /\ QueueInv' /\ pc' = "print" /\ val' = Head(Contents)
           /\ Contents # <<>> /\ Contents' = Tail(Contents)
<1>0. PICK s, x, L : s = Nodes /\ x = h /\ L = Len(s)
  OBVIOUS
<1>1. pc = "commit" /\ pc' = "print" /\ val' = val
  BY DEF Commit, callVars
<1>2. TypeOK /\ IsList(s) /\ DequeKnown
  BY <1>0, <1>1 DEF QueueInv, Dequeing
<1>3. /\ fresh = {} /\ x \in Node /\ x = OldHead /\ t = OldTail /\ val = node[x].value /\ doomed = {x}
      /\ head = node[x].next
      /\ x = t => Added = {"head", "tail"} /\ tail = Null
      /\ x # t => Added = {"head"}
  BY <1>0, <1>1, <1>2 DEF DequeKnown
<1>4. /\ L \in Nat /\ L >= 1 /\ 1 \in 1 .. L /\ L \in 1 .. L /\ x = s[1] /\ t = s[L] /\ t \in Node
      /\ s \in Seq(Node) /\ s \in [1 .. L -> Node] /\ DOMAIN s = 1 .. L
  BY <1>0, <1>2, <1>3, EndsOfList, FieldsDiffer DEF IsList
<1>5. PICK z : z = Tail(s)
  OBVIOUS
<1>6. s # <<>>
  BY <1>0, <1>4
<1>7. z \in Seq(Node) /\ Len(z) = L - 1 /\ L - 1 \in Nat /\ \A k \in 1 .. L - 1 : z[k] = s[k + 1]
  BY <1>0, <1>4, <1>5, <1>6
<1>8. {s[k] : k \in 1 .. L} = Allocated /\ \A i, j \in 1 .. L : i # j => s[i] # s[j]
  BY <1>0, <1>2, <1>3 DEF IsList
<1>9. \A k \in 1 .. L - 1 : k + 1 \in 1 .. L /\ k + 1 # 1 /\ (k + 1 = L <=> k = L - 1) /\ k \in Nat
  BY <1>4
<1>10. \A k \in 1 .. L : node[s[k]].next = IF k = L THEN Null ELSE s[k + 1]
  <2>1. \A n \in Node : n \notin Added
    BY <1>3, FieldsDiffer
  <2>2. \A n \in Node : OldNext(n) = node[n].next
    BY <2>1, NotAdded DEF OldNext
  <2>3. \A k \in 1 .. L : OldNext(s[k]) = IF k = L THEN Null ELSE s[k + 1]
    BY <1>0, <1>2 DEF IsList
  <2>. QED  BY <1>4, <2>2, <2>3
<1>11. \A i, j \in 1 .. L - 1 : i # j => z[i] # z[j]
  BY <1>7, <1>8, <1>9
<1>12. {z[k] : k \in 1 .. L - 1} = Allocated \ {x}
  <2>1. \A k \in 1 .. L - 1 : z[k] \in Allocated \ {x}
    <3>1. \A k \in 1 .. L : k # 1 => s[k] \in Allocated /\ s[k] # x
      BY <1>4, <1>8
    <3>. QED  BY <1>7, <1>9, <3>1
  <2>2. ASSUME NEW m \in Allocated, m # x
        PROVE  \E k \in 1 .. L - 1 : z[k] = m
    <3>1. PICK k \in 1 .. L : s[k] = m
      BY <1>8
    <3>2. k # 1
      BY <1>4, <2>2, <3>1
    <3>3. k - 1 \in 1 .. L - 1 /\ (k - 1) + 1 = k
      BY <1>4, <3>2
    <3>4. z[k - 1] = m
      BY <1>7, <3>1, <3>3
    <3>. QED  BY <3>3, <3>4
  <2>. QED  BY <2>1, <2>2
<1>13. head = IF L - 1 = 0 THEN Null ELSE z[1]
  <2>1. CASE L = 1
    <3>1. node[s[1]].next = Null
      BY <1>4, <1>10, <2>1
    <3>. QED  BY <1>3, <1>4, <2>1, <3>1
  <2>2. CASE L # 1
    <3>1. L - 1 # 0 /\ 1 \in 1 .. L - 1 /\ 1 + 1 = 2
      BY <1>4, <2>2
    <3>2. node[s[1]].next = s[2]
      BY <1>4, <1>10, <2>2, <3>1
    <3>3. z[1] = s[2]
      BY <1>7, <3>1
    <3>. QED  BY <1>3, <1>4, <3>1, <3>2, <3>3
  <2>. QED  BY <2>1, <2>2
<1>14. tail = IF L - 1 = 0 THEN Null ELSE z[L - 1]
  <2>1. CASE L = 1
    BY <1>3, <1>4, <2>1
  <2>2. CASE L # 1
    <3>1. x # t
      BY <1>4, <1>8, <2>2
    <3>2. tail = t
      BY <1>3, <3>1, NotAdded, FieldsDiffer DEF OldTail
    <3>3. L - 1 # 0 /\ L - 1 \in 1 .. L - 1 /\ (L - 1) + 1 = L
      BY <1>4, <2>2
    <3>4. z[L - 1] = s[L]
      BY <1>7, <3>3
    <3>. QED  BY <1>4, <3>2, <3>3, <3>4
  <2>. QED  BY <2>1, <2>2
<1>15. IsList(z)'
  <2>1. Allocated' \ fresh' = Allocated \ {x}
    BY <1>3, CommitIsFinal
  <2>2. ASSUME NEW k \in 1 .. L - 1
        PROVE  OldNext(z[k])' = IF k = L - 1 THEN Null ELSE z[k + 1]
    <3>1. z[k] \in Allocated \ {x} /\ z[k] = s[k + 1]
      BY <1>7, <1>12
    <3>2. OldNext(z[k])' = node[z[k]].next
      BY <1>3, <3>1, CommitIsFinal
    <3>3. node[s[k + 1]].next = IF k + 1 = L THEN Null ELSE s[(k + 1) + 1]
      BY <1>9, <1>10
    <3>4. k # L - 1 => k + 1 \in 1 .. L - 1
      BY <1>4
    <3>5. k # L - 1 => z[k + 1] = s[(k + 1) + 1]
      BY <1>7, <3>4
    <3>. QED  BY <1>9, <3>1, <3>2, <3>3, <3>5
  <2>3. OldHead' = head /\ OldTail' = tail
    BY CommitIsFinal
  <2>. QED  BY <1>7, <1>11, <1>12, <1>13, <1>14, <2>1, <2>2, <2>3 DEF IsList
<1>16. QueueInv'
  BY <1>15, CommitIsFinal, ReadListAfter DEF QueueInv
<1>17. Contents = [k \in 1 .. L |-> node[s[k]].value]
  BY <1>0, <1>2, ReadList
<1>18. \A k \in 1 .. L : node[s[k]].value \in Value
  BY <1>2, <1>8, NodeTyped
<1>19. Contents \in Seq(Value) /\ Len(Contents) = L /\ Contents # <<>> /\ Head(Contents) = node[x].value
  BY <1>4, <1>17, <1>18
<1>20. Contents' = Tail(Contents)
  <2>1. Contents' = [k \in 1 .. L - 1 |-> node'[z[k]].value]
    BY <1>7, <1>15, ReadListAfter
  <2>2. \A k \in 1 .. L - 1 : node'[z[k]] = node[s[k + 1]]
    <3>1. \A k \in 1 .. L - 1 : z[k] \in Allocated \ {x} /\ z[k] = s[k + 1]
      BY <1>7, <1>12
    <3>2. \A n \in Allocated \ {x} : n \in Node /\ node'[n] = node[n]
      BY <1>3, CommitIsFinal DEF Allocated
    <3>. QED  BY <3>1, <3>2
  <2>. DEFINE a == Tail(Contents)
  <2>3. a \in Seq(Value) /\ Len(a) = L - 1 /\ \A k \in 1 .. L - 1 : a[k] = Contents[k + 1]
    BY <1>4, <1>19
  <2>. HIDE DEF a
  <2>4. a = [k \in 1 .. L - 1 |-> a[k]]
    <3>1. a \in [1 .. Len(a) -> Value]
      BY <2>3, LenProperties
    <3>. QED  BY <2>3, <3>1
  <2>5. \A k \in 1 .. L - 1 : a[k] = node'[z[k]].value
    BY <1>9, <1>17, <2>2, <2>3
  <2>6. a = Contents'
    BY <2>1, <2>4, <2>5
  <2>. QED  BY <2>6 DEF a
<1>. QED  BY <1>1, <1>3, <1>16, <1>19, <1>20

-----------------------------------------------------------------------------
(* The theorems.                                                           *)

\* Before the first run there is an empty list.
LEMMA EmptyList ==
    ASSUME Init
    PROVE  QueueInv /\ Contents = <<>>
<1>1. /\ head = Null /\ tail = Null /\ node = [n \in Node |-> <<>>] /\ undo = {} /\ fresh = {}
      /\ doomed = {} /\ pc = "down" /\ h = Null /\ t = Null /\ newnode = Null /\ val \in Value
  BY DEF Init
<1>2. TypeOK
  BY <1>1 DEF TypeOK, Link
<1>3. \A f, v : OldOf(f, v) = v
  BY <1>1, NotAdded DEF Added
<1>4. OldHead = Null /\ OldTail = Null /\ Allocated = {}
  BY <1>1, <1>3 DEF OldHead, OldTail, Allocated
<1>. DEFINE e == <<>>
<1>5. e \in Seq(Node) /\ Len(e) = 0 /\ 1 .. 0 = {}
  OBVIOUS
<1>. HIDE DEF e
<1>6. IsList(e)
  BY <1>4, <1>5 DEF IsList
<1>7. IsList(Nodes)
  BY <1>6, ReadListAll
<1>8. Contents = <<>>
  <2>1. Contents = [k \in 1 .. Len(e) |-> node[e[k]].value]
    BY <1>6, ReadList
  <2>2. Contents = [k \in {} |-> node[e[k]].value]
    BY <1>5, <2>1
  <2>. QED  BY <2>2
<1>9. UndoKnown /\ ~Enqueing /\ ~Dequeing
  BY <1>1 DEF UndoKnown, Enqueing, Dequeing
<1>. QED  BY <1>2, <1>7, <1>8, <1>9 DEF QueueInv

LEMMA StutterStep ==
    ASSUME QueueInv, UNCHANGED vars
    PROVE  QueueInv' /\ Contents' = Contents /\ pc' = pc /\ val' = val
<1>1. UNCHANGED <<head, tail, node, undo, fresh, doomed, pc, h, t, newnode, val>>
  BY DEF vars, rootVars, txVars, callVars
<1>2. TypeOK' /\ (Enqueing' <=> Enqueing) /\ (Dequeing' <=> Dequeing)
  BY <1>1 DEF QueueInv, TypeOK, Enqueing, Dequeing
<1>3. Enqueing => EnqueKnown'
  BY <1>1, QueueQuiet DEF QueueInv, EnqueKnown
<1>4. Dequeing => DequeKnown'
  BY <1>1, QueueQuiet DEF QueueInv, DequeKnown
<1>. QED  BY <1>1, <1>2, <1>3, <1>4, QueueQuiet DEF QueueInv

\* QueueInv is an inductive invariant of queue_pmemobj.
THEOREM QueueInvariant == Spec => []QueueInv
<1>1. Init => QueueInv
  BY EmptyList
<1>2. QueueInv /\ [Next]_vars => QueueInv'
  <2>1. SUFFICES ASSUME QueueInv, [Next]_vars
                 PROVE  QueueInv'
    OBVIOUS
  <2>. QED
    BY <2>1, StutterStep, OpenPoolStep, EnqueStep, FirstHeadStep, FirstTailStep, LinkTailStep,
       SetTailStep, DequeStep, PopHeadStep, PopTailStep, FreeHeadStep, CommitEnqueStep,
       CommitDequeStep, NoChangeStep DEF Next
<1>. QED  BY <1>1, <1>2, PTL DEF Spec

\* Whenever queue_pmemobj stops, the next run finds a list from head to tail
\* with every allocated node on it exactly once.
THEOREM NoNodeLost == Spec => []ListIsWhole
<1>1. QueueInv => ListIsWhole
  <2>1. SUFFICES ASSUME QueueInv
                 PROVE  ListIsWhole
    OBVIOUS
  <2>2. PICK s : s = Nodes
    OBVIOUS
  <2>3. TypeOK /\ IsList(s)
    BY <2>1, <2>2 DEF QueueInv
  <2>4. Length = Len(s) /\ \A k \in 1 .. Len(s) : Walk[k] = s[k]
    BY <2>3, ReadList
  <2>5. Len(s) \in Nat /\ Len(s) # 0 => Len(s) \in 1 .. Len(s)
    OBVIOUS
  <2>6. Len(s) \in Nat
    BY <2>3 DEF IsList
  <2>7. OldTail = IF Length = 0 THEN Null ELSE Walk[Length]
    BY <2>3, <2>4, <2>5, <2>6 DEF IsList
  <2>8. {Walk[k] : k \in 1 .. Length} = Allocated \ fresh
    BY <2>3, <2>4 DEF IsList
  <2>9. Length = Cardinality(Allocated \ fresh)
    BY <2>3, <2>4, ListCounted
  <2>. QED  BY <2>3, <2>7, <2>8, <2>9 DEF ListIsWhole
<1>. QED  BY <1>1, QueueInvariant, PTL

\* Where the program is in a command, and where it is not.
LEMMA ExecutingKnown ==
    /\ pc \in {"first", "firsttail", "link", "settail"} \/ (pc = "commit" /\ doomed = {}) =>
          Executing = <<"enque", node[newnode].value>>
    /\ pc \in {"pop", "poptail", "free"} \/ (pc = "commit" /\ doomed # {}) => Executing = <<"deque">>
    /\ pc \in {"down", "main", "print", "close"} => Executing = <<>>
<1>1. Enqueing => ~Dequeing
  BY DEF Enqueing, Dequeing
<1>2. pc \in {"down", "main", "print", "close"} => ~Enqueing /\ ~Dequeing
  BY DEF Enqueing, Dequeing
<1>. QED  BY <1>1, <1>2 DEF Executing, Enqueing, Dequeing

\* The value of the new node stays what it is until the commit.
LEMMA EnquesOn ==
    ASSUME QueueInv, FirstHead \/ FirstTail \/ LinkTail \/ SetTail
    PROVE  Executing' = Executing
<1>1. newnode' = newnode /\ doomed = {} /\ doomed' = doomed
  <2>1. Enqueing /\ newnode' = newnode /\ doomed' = doomed
    BY DEF FirstHead, FirstTail, LinkTail, SetTail, txVars, callVars, Enqueing
  <2>. QED  BY <2>1 DEF QueueInv, EnqueKnown
<1>2. /\ pc \in {"first", "firsttail", "link", "settail"}
      /\ pc' \in {"firsttail", "settail", "commit"}
  BY DEF FirstHead, FirstTail, LinkTail, SetTail
<1>3. node'[newnode].value = node[newnode].value
  <2>1. CASE ~LinkTail
    BY <2>1 DEF FirstHead, FirstTail, SetTail
  <2>2. CASE LinkTail
    <3>1. EnqueKnown /\ TypeOK /\ OldHead # Null /\ IsList(Nodes)
      BY <2>2 DEF QueueInv, Enqueing, LinkTail, EnqueKnown
    <3>2. t \in Allocated \ fresh
      BY <3>1, EndsOfList DEF EnqueKnown
    <3>3. t # newnode /\ newnode \in Node /\ node \in [Node -> {<<>>} \cup [value : Value, next : Link]]
      BY <3>1, <3>2 DEF EnqueKnown, TypeOK
    <3>4. node' = [node EXCEPT ![t].next = newnode]
      BY <2>2 DEF LinkTail
    <3>. QED  BY <3>3, <3>4
  <2>. QED  BY <2>1, <2>2
<1>4. Executing = <<"enque", node[newnode].value>>
  BY <1>2, ExecutingKnown
<1>5. Executing' = <<"enque", node'[newnode'].value>>
  BY <1>1, <1>2 DEF Executing, Enqueing
<1>. QED  BY <1>1, <1>3, <1>4, <1>5

\* The pool of queue_pmemobj is a first-in first-out queue, changed once by
\* every command that gets to its commit, and by no crash.
THEOREM PoolIsFifo == Spec => ImplementsFifo
<1>. DEFINE out == IF pc = "print" THEN <<val>> ELSE <<>>
<1>1. Init => Promise!Init
  <2>1. Init => Contents = <<>> /\ pc = "down"
    BY EmptyList DEF Init
  <2>2. Init => Executing = <<>>
    BY <2>1, ExecutingKnown
  <2>. QED  BY <2>1, <2>2 DEF Promise!Init
<1>2. QueueInv /\ [Next]_vars => [Promise!Next]_(Promise!vars)
  <2>1. SUFFICES ASSUME QueueInv, [Next]_vars
                 PROVE  [Promise!Next]_(Promise!vars)
    OBVIOUS
  <2>2. ASSUME Contents' = Contents, pc' # "print", Executing' \in {Executing, <<>>}
        PROVE  [Promise!Next]_(Promise!vars)
    <3>1. out' = <<>>
      BY <2>2
    <3>. QED  BY <2>2, <3>1 DEF Promise!Next, Promise!Forget
  <2>3. CASE UNCHANGED vars
    <3>1. Contents' = Contents /\ out' = out
      BY <2>1, <2>3, StutterStep
    <3>2. Executing' = Executing
      BY <2>3 DEF vars, rootVars, txVars, callVars, Executing, Enqueing, Dequeing
    <3>. QED  BY <3>1, <3>2 DEF Promise!vars
  <2>4. CASE Commit
    <3>0. pc = "commit" /\ pc' \in {"close", "print"}
      BY <2>4 DEF Commit
    <3>1. Executing' = <<>>
      BY <3>0 DEF Executing, Enqueing, Dequeing
    <3>2. CASE doomed = {}
      <4>1. PICK v \in Value : v = node[newnode].value /\ Contents' = Append(Contents, v)
        BY <2>1, <2>4, <3>2, CommitEnqueStep
      <4>2. out' = <<>>
        BY <2>1, <2>4, <3>2, CommitEnqueStep
      <4>3. Executing = <<"enque", v>>
        BY <3>0, <3>2, <4>1, ExecutingKnown
      <4>. QED  BY <3>1, <4>1, <4>2, <4>3 DEF Promise!Next, Promise!Enqueue
    <3>3. CASE doomed # {}
      <4>1. /\ Contents # <<>> /\ Contents' = Tail(Contents) /\ val' = Head(Contents)
            /\ pc' = "print"
        BY <2>1, <2>4, <3>3, CommitDequeStep
      <4>2. out' = <<Head(Contents)>>
        BY <4>1
      <4>3. Executing = <<"deque">>
        BY <3>0, <3>3, ExecutingKnown
      <4>. QED  BY <3>1, <4>1, <4>2, <4>3 DEF Promise!Next, Promise!Dequeue
    <3>. QED  BY <3>2, <3>3
  <2>5. CASE OpenPool
    <3>1. pc' = "main"
      BY <2>5 DEF OpenPool
    <3>2. Executing' = <<>>
      BY <3>1 DEF Executing, Enqueing, Dequeing
    <3>. QED  BY <2>1, <2>2, <2>5, <3>1, <3>2, OpenPoolStep
  <2>6. ASSUME NEW v \in Value, NEW n \in Node, Enque(v, n)
        PROVE  [Promise!Next]_(Promise!vars)
    <3>1. /\ pc = "main" /\ pc' \in {"first", "link"} /\ newnode' = n
          /\ node' = [node EXCEPT ![n] = [value |-> v, next |-> Null]]
      BY <2>6 DEF Enque
    <3>2. node'[n].value = v
      BY <2>1, <3>1 DEF QueueInv, TypeOK
    <3>3. Executing = <<>> /\ Executing' = <<"enque", v>>
      <4>1. Executing = <<>>
        BY <3>1, ExecutingKnown
      <4>2. Executing' = <<"enque", node'[newnode'].value>>
        BY <3>1 DEF Executing, Enqueing
      <4>. QED  BY <3>1, <3>2, <4>1, <4>2
    <3>4. Contents' = Contents /\ out' = <<>>
      BY <2>1, <2>6, <3>1, EnqueStep
    <3>. QED  BY <3>3, <3>4 DEF Promise!Next, Promise!Begin
  <2>7. CASE FirstHead \/ FirstTail \/ LinkTail \/ SetTail
    <3>1. Executing' = Executing
      BY <2>1, <2>7, EnquesOn
    <3>. QED
      BY <2>1, <2>2, <2>7, <3>1, FirstHeadStep, FirstTailStep, LinkTailStep, SetTailStep
         DEF FirstHead, FirstTail, LinkTail, SetTail
  <2>8. CASE Deque
    <3>1. pc = "main" /\ pc' = "pop"
      BY <2>8 DEF Deque
    <3>2. Executing = <<>> /\ Executing' = <<"deque">>
      <4>1. Executing = <<>>
        BY <3>1, ExecutingKnown
      <4>2. Executing' = <<"deque">>
        BY <3>1 DEF Executing, Enqueing, Dequeing
      <4>. QED  BY <4>1, <4>2
    <3>3. Contents' = Contents /\ out' = <<>>
      BY <2>1, <2>8, <3>1, DequeStep
    <3>. QED  BY <3>2, <3>3 DEF Promise!Next, Promise!Begin
  <2>9. CASE PopHead \/ PopTail \/ FreeHead
    <3>1. Executing = <<"deque">> /\ Executing' = <<"deque">>
      <4>1. pc \in {"pop", "poptail", "free"}
        BY <2>9 DEF PopHead, PopTail, FreeHead
      <4>2. pc' \in {"poptail", "free"} \/ (pc' = "commit" /\ doomed' # {})
        BY <2>9 DEF PopHead, PopTail, FreeHead
      <4>3. Executing' = <<"deque">>
        BY <4>2 DEF Executing, Enqueing, Dequeing
      <4>. QED  BY <4>1, <4>3, ExecutingKnown
    <3>. QED
      BY <2>1, <2>2, <2>9, <3>1, PopHeadStep, PopTailStep, FreeHeadStep
         DEF PopHead, PopTail, FreeHead
  <2>10. CASE EnqueFails \/ DequeEmpty \/ PrintValue \/ Show \/ Close \/ Crash
    <3>1. pc' \in {"close", "down"}
      BY <2>10 DEF EnqueFails, DequeEmpty, PrintValue, Show, Close, Crash, Exit
    <3>2. Executing' = <<>>
      BY <3>1 DEF Executing, Enqueing, Dequeing
    <3>. QED  BY <2>1, <2>2, <2>10, <3>2, NoChangeStep
  <2>. QED  BY <2>1, <2>3, <2>4, <2>5, <2>6, <2>7, <2>8, <2>9, <2>10 DEF Next
<1>. QED  BY <1>1, <1>2, QueueInvariant, PTL DEF Spec, ImplementsFifo, Promise!Spec

-----------------------------------------------------------------------------
(* queue_aof: counting the enques of a file.                               *)

LEMMA EnquesCount ==
    ASSUME NEW s, NEW i \in Nat
    PROVE  /\ Enques(s, i) \in Nat /\ Enques(s, 0) = 0
           /\ Enques(s, i + 1) = Enques(s, i) + (IF s[i + 1].op = "enque" THEN 1 ELSE 0)
<1>. DEFINE E(n) == {j \in 1 .. n : s[j].op = "enque"}
<1>1. IsFiniteSet(E(i)) /\ Cardinality(E(i)) \in Nat
  <2>1. IsFiniteSet(1 .. i) /\ E(i) \subseteq 1 .. i
    BY FS_Interval
  <2>. QED  BY <2>1, FS_Subset, FS_CardinalityType
<1>2. E(0) = {} /\ Cardinality(E(0)) = 0
  BY FS_EmptySet
<1>3. E(i + 1) = IF s[i + 1].op = "enque" THEN E(i) \cup {i + 1} ELSE E(i)
  OBVIOUS
<1>4. i + 1 \notin E(i)
  OBVIOUS
<1>5. Cardinality(E(i) \cup {i + 1}) = Cardinality(E(i)) + 1
  BY <1>1, <1>4, FS_AddElement
<1>6. Enques(s, i) = Cardinality(E(i)) /\ Enques(s, 0) = Cardinality(E(0))
      /\ Enques(s, i + 1) = Cardinality(E(i + 1))
  BY DEF Enques
<1>. HIDE DEF E
<1>. QED  BY <1>1, <1>2, <1>3, <1>5, <1>6

\* If t has an enque wherever s has one, it has as many at least.
LEMMA EnquesMore ==
    ASSUME NEW s, NEW u, NEW n \in Nat,
           \A i \in 1 .. n : s[i].op = "enque" => u[i].op = "enque"
    PROVE  Enques(s, n) <= Enques(u, n)
<1>. DEFINE D == {j \in 1 .. n : s[j].op = "enque"}
            E == {j \in 1 .. n : u[j].op = "enque"}
<1>1. D \subseteq E /\ IsFiniteSet(E)
  <2>1. IsFiniteSet(1 .. n) /\ E \subseteq 1 .. n /\ D \subseteq E
    BY FS_Interval
  <2>. QED  BY <2>1, FS_Subset
<1>2. Cardinality(D) <= Cardinality(E)
  BY <1>1, FS_Subset
<1>. QED  BY <1>2 DEF Enques

LEMMA EnquesSame ==
    ASSUME NEW s, NEW u, NEW n \in Nat,
           \A i \in 1 .. n : s[i].op = "enque" <=> u[i].op = "enque"
    PROVE  Enques(s, n) = Enques(u, n)
<1>1. {j \in 1 .. n : s[j].op = "enque"} = {j \in 1 .. n : u[j].op = "enque"}
  OBVIOUS
<1>. QED  BY <1>1 DEF Enques

\* The enques of a prefix.
LEMMA EnquesUpTo ==
    ASSUME NEW s, NEW n \in Nat, NEW i \in 1 .. n
    PROVE  /\ Enques(s, i) \in Nat /\ Enques(s, i) <= Enques(s, n)
           /\ s[i].op = "enque" => Enques(s, i) >= 1
<1>. DEFINE D == {j \in 1 .. i : s[j].op = "enque"}
            E == {j \in 1 .. n : s[j].op = "enque"}
<1>1. D \subseteq E /\ IsFiniteSet(E)
  <2>1. IsFiniteSet(1 .. n) /\ E \subseteq 1 .. n /\ D \subseteq E
    BY FS_Interval
  <2>. QED  BY <2>1, FS_Subset
<1>2. Cardinality(D) <= Cardinality(E)
  BY <1>1, FS_Subset
<1>3. i - 1 \in Nat /\ (i - 1) + 1 = i
  OBVIOUS
<1>4. Enques(s, i - 1) \in Nat
  BY <1>3, EnquesCount
<1>5. Enques(s, i) = Enques(s, i - 1) + (IF s[i].op = "enque" THEN 1 ELSE 0)
  BY <1>3, EnquesCount
<1>. QED  BY <1>2, <1>4, <1>5 DEF Enques

-----------------------------------------------------------------------------
(* queue_aof: appending a line to a file.                                  *)

LEMMA PrefixOf ==
    ASSUME NEW S, NEW s \in Seq(S), NEW m \in 0 .. Len(s)
    PROVE  /\ SubSeq(s, 1, m) \in Seq(S) /\ Len(SubSeq(s, 1, m)) = m
           /\ \A i \in 1 .. m : SubSeq(s, 1, m)[i] = s[i]
<1>. DEFINE g == SubSeq(s, 1, m)
<1>1. m \in Int /\ \A i \in 1 .. m : s[i] \in S
  OBVIOUS
<1>2. /\ g \in Seq(S) /\ Len(g) = IF 1 <= m THEN m - 1 + 1 ELSE 0
      /\ \A i \in 1 .. m - 1 + 1 : g[i] = s[1 + i - 1]
  BY ONLY <1>1, SubSeqProperties
<1>3. m \in Nat /\ m - 1 + 1 = m /\ \A i \in 1 .. m : 1 + i - 1 = i
  OBVIOUS
<1>. HIDE DEF g
<1>4. Len(g) = m /\ \A i \in 1 .. m : g[i] = s[i]
  BY ONLY <1>2, <1>3
<1>. QED  BY <1>2, <1>4 DEF g

\* A line that is appended to one that is cut short ends it, and makes an enque
\* of no less than was there.
LEMMA JoinedLine ==
    ASSUME NEW c \in Line, NEW x \in Line
    PROVE  /\ JoinLines(c, x) \in Line
           /\ JoinLines(c, x).nl = x.nl /\ JoinLines(c, x).op \in {"enque", "junk"}
           /\ c.op = "enque" => JoinLines(c, x).op = "enque"
<1>1. CASE c.op = "space"
  BY <1>1 DEF JoinLines, EnqueLine, Junk, Line
<1>2. CASE c.op = "enque"
  BY <1>2 DEF JoinLines, EnqueLine, Junk, Line
<1>3. CASE c.op \notin {"space", "enque"}
  BY <1>3 DEF JoinLines, EnqueLine, Junk, Line
<1>. QED  BY <1>1, <1>2, <1>3

\* The two ways of appending a line, position by position.
LEMMA AppendedLine ==
    ASSUME NEW f \in Seq(Line), NEW x \in Line
    PROVE  /\ AppendLine(f, x) \in Seq(Line)
           /\ ~Cut(f) => AppendLine(f, x) = Append(f, x)
           /\ Cut(f) => /\ Len(f) >= 1 /\ Len(AppendLine(f, x)) = Len(f)
                        /\ \A i \in 1 .. Len(f) - 1 : AppendLine(f, x)[i] = f[i]
                        /\ AppendLine(f, x)[Len(f)] = JoinLines(f[Len(f)], x)
<1>1. CASE ~Cut(f)
  BY <1>1 DEF AppendLine, Cut
<1>2. CASE Cut(f)
  <2>. DEFINE g == Front(f)
  <2>1. Len(f) \in Nat /\ Len(f) >= 1 /\ f[Len(f)] \in Line
    BY <1>2 DEF Cut
  <2>2. g \in Seq(Line) /\ Len(g) = Len(f) - 1 /\ \A i \in 1 .. Len(f) - 1 : g[i] = f[i]
    <3>1. Len(f) - 1 \in 0 .. Len(f) /\ g = SubSeq(f, 1, Len(f) - 1)
      BY <2>1 DEF Front
    <3>. HIDE DEF g
    <3>. QED  BY ONLY f \in Seq(Line), <3>1, PrefixOf
  <2>3. JoinLines(f[Len(f)], x) \in Line
    BY <2>1, JoinedLine
  <2>4. AppendLine(f, x) = Append(g, JoinLines(f[Len(f)], x))
    BY <1>2 DEF AppendLine, Cut, Last
  <2>. HIDE DEF g
  <2>. QED  BY <1>2, <2>1, <2>2, <2>3, <2>4
<1>. QED  BY <1>1, <1>2

\* What appending does to the enques of a file, and to its last line.
LEMMA AppendedEnques ==
    ASSUME NEW f \in Seq(Line), NEW x \in Line, WellFormed(f),
           x.op \in {"word", "space"} => ~x.nl
    PROVE  LET g == AppendLine(f, x) IN
           /\ WellFormed(g) /\ (Cut(g) <=> ~x.nl)
           /\ Enques(f, Len(f)) \in Nat /\ Enques(g, Len(g)) \in Nat
           /\ Cut(f) => Enques(g, Len(g)) >= Enques(f, Len(f))
           /\ ~Cut(f) => Enques(g, Len(g)) = Enques(f, Len(f)) + (IF x.op = "enque" THEN 1 ELSE 0)
<1>. DEFINE g == AppendLine(f, x)
            n == Len(f)
<1>0. n \in Nat /\ \A i \in 1 .. n : f[i] \in Line
  OBVIOUS
<1>1. g \in Seq(Line) /\ Len(g) \in Nat
  BY AppendedLine
<1>2. Enques(f, n) \in Nat /\ Enques(g, Len(g)) \in Nat
  BY <1>0, <1>1, EnquesCount
<1>3. CASE ~Cut(f)
  <2>1. Len(g) = n + 1 /\ g[n + 1] = x /\ \A i \in 1 .. n : g[i] = f[i]
    <3>1. g = Append(f, x)
      BY <1>3, AppendedLine
    <3>. HIDE DEF g
    <3>. QED  BY <1>0, <3>1
  <2>2. Enques(g, n) = Enques(f, n)
    BY <1>0, <2>1, EnquesSame
  <2>3. Enques(g, n + 1) = Enques(g, n) + (IF x.op = "enque" THEN 1 ELSE 0)
    BY <1>0, <2>1, EnquesCount
  <2>4. \A i \in 1 .. n : f[i].nl
    BY <1>0, <1>3 DEF WellFormed, Cut, Last
  <2>. HIDE DEF g
  <2>5. WellFormed(g)
    BY <1>0, <2>1, <2>4 DEF WellFormed
  <2>6. Cut(g) <=> ~x.nl
    BY <1>0, <1>1, <2>1 DEF Cut, Last
  <2>. QED  BY <1>2, <1>3, <2>1, <2>2, <2>3, <2>5, <2>6 DEF g
<1>4. CASE Cut(f)
  <2>. DEFINE j == JoinLines(f[n], x)
  <2>1. n >= 1 /\ Len(g) = n /\ g[n] = j /\ \A i \in 1 .. n - 1 : g[i] = f[i]
    BY <1>4, AppendedLine
  <2>2. j.nl = x.nl /\ j.op \in {"enque", "junk"} /\ (f[n].op = "enque" => j.op = "enque")
    BY <1>0, <2>1, JoinedLine
  <2>. HIDE DEF g, j
  <2>3. \A i \in 1 .. n : f[i].op = "enque" => g[i].op = "enque"
    BY <1>0, <2>1, <2>2
  <2>4. Enques(g, n) >= Enques(f, n)
    BY <1>0, <1>1, <1>2, <2>1, <2>3, EnquesMore
  <2>5. WellFormed(g)
    BY <1>0, <2>1, <2>2 DEF WellFormed
  <2>6. Cut(g) <=> ~x.nl
    BY <1>0, <1>1, <2>1, <2>2 DEF Cut, Last
  <2>. QED  BY <1>2, <1>4, <2>1, <2>4, <2>5, <2>6 DEF g
<1>. QED  BY <1>3, <1>4

\* A piece of a line that the program writes is no whole line.
LEMMA TornLine ==
    ASSUME NEW l \in Line, Written(l), NEW x \in TornFrom(l)
    PROVE  x \in Line /\ ~x.nl
<1>1. l.op \in {"enque", "deque"} /\ l.val \in Int /\ l.val \div 10 \in Int
  BY DEF Line, Written
<1>2. CASE \E o \in {"junk", "deque", "word", "space"} : x = [op |-> o, val |-> 0, nl |-> FALSE]
  BY <1>2 DEF Line
<1>3. CASE \E v \in {l.val, l.val \div 10} : x = [l EXCEPT !.val = v, !.nl = FALSE]
  BY <1>1, <1>3 DEF Line
<1>. QED  BY <1>1, <1>2, <1>3 DEF TornFrom

-----------------------------------------------------------------------------
(* queue_aof: the commands behind each version of the file.                *)

LEMMA LogOf ==
    ASSUME NEW d \in Seq(Line), NEW c \in Seq(Line), NEW k \in 1 .. Len(c) + 1
    PROVE  LET g == d \o SubSeq(c, 1, k - 1) IN
           /\ g \in Seq(Line) /\ Len(g) = Len(d) + (k - 1)
           /\ \A i \in 1 .. Len(d) : g[i] = d[i]
           /\ \A i \in 1 .. k - 1 : g[Len(d) + i] = c[i]
<1>. DEFINE p == SubSeq(c, 1, k - 1)
<1>1. Len(d) \in Nat /\ Len(c) \in Nat /\ k \in Nat /\ k - 1 \in 0 .. Len(c)
  OBVIOUS
<1>2. p \in Seq(Line) /\ Len(p) = k - 1 /\ \A i \in 1 .. k - 1 : p[i] = c[i]
  BY ONLY c \in Seq(Line), <1>1, PrefixOf
<1>. HIDE DEF p
<1>3. /\ d \o p \in Seq(Line) /\ Len(d \o p) = Len(d) + Len(p)
      /\ \A i \in 1 .. Len(d) + Len(p) :
            (d \o p)[i] = IF i <= Len(d) THEN d[i] ELSE p[i - Len(d)]
  BY <1>1, <1>2, ConcatProperties
<1>4. \A i \in 1 .. k - 1 : Len(d) + i \in 1 .. Len(d) + (k - 1)
                            /\ ~(Len(d) + i <= Len(d)) /\ (Len(d) + i) - Len(d) = i
  BY <1>1
<1>5. \A i \in 1 .. Len(d) : i \in 1 .. Len(d) + (k - 1) /\ i <= Len(d)
  BY <1>1
<1>. QED  BY <1>2, <1>3, <1>4, <1>5 DEF p

\* LogAt(k) is done and the first k - 1 lines since the last fsync.
LEMMA LogLines ==
    ASSUME AofTypeOK, NEW k \in 1 .. Len(files)
    PROVE  /\ LogAt(k) \in Seq(Line) /\ Len(LogAt(k)) = Len(done) + (k - 1)
           /\ \A i \in 1 .. Len(done) : LogAt(k)[i] = done[i]
           /\ \A i \in 1 .. k - 1 : LogAt(k)[Len(done) + i] = cache[i]
<1>1. done \in Seq(Line) /\ cache \in Seq(Line) /\ k \in 1 .. Len(cache) + 1
  BY DEF AofTypeOK
<1>. QED  BY <1>1, LogOf DEF LogAt

LEMMA LogLinesAfter ==
    ASSUME AofTypeOK', NEW k \in 1 .. Len(files')
    PROVE  /\ LogAt(k)' \in Seq(Line) /\ Len(LogAt(k)') = Len(done') + (k - 1)
           /\ \A i \in 1 .. Len(done') : LogAt(k)'[i] = done'[i]
           /\ \A i \in 1 .. k - 1 : LogAt(k)'[Len(done') + i] = cache'[i]
<1>1. done' \in Seq(Line) /\ cache' \in Seq(Line) /\ k \in 1 .. Len(cache') + 1
  BY DEF AofTypeOK
<1>2. LogAt(k)' = done' \o SubSeq(cache', 1, k - 1)
  BY DEF LogAt
<1>. QED  BY <1>1, <1>2, LogOf

\* All of them are lines as the program writes them.
LEMMA LogWritten ==
    ASSUME AofTypeOK, LinesKnown, NEW k \in 1 .. Len(files)
    PROVE  \A i \in 1 .. Len(LogAt(k)) : Written(LogAt(k)[i])
<1>1. Len(done) \in Nat /\ Len(cache) \in Nat /\ k \in Nat /\ k - 1 <= Len(cache)
  BY DEF AofTypeOK
<1>2. ASSUME NEW i \in 1 .. Len(LogAt(k))
      PROVE  Written(LogAt(k)[i])
  <2>1. CASE i <= Len(done)
    <3>1. i \in 1 .. Len(done)
      BY <1>1, <2>1, LogLines
    <3>. QED  BY <3>1, LogLines DEF LinesKnown
  <2>2. CASE i > Len(done)
    <3>1. i - Len(done) \in 1 .. k - 1 /\ Len(done) + (i - Len(done)) = i
      BY <1>1, <2>2, LogLines
    <3>2. i - Len(done) \in 1 .. Len(cache)
      BY <1>1, <3>1
    <3>3. LogAt(k)[i] = cache[i - Len(done)]
      BY <3>1, LogLines
    <3>. QED  BY <3>2, <3>3 DEF LinesKnown
  <2>. QED  BY <1>1, <2>1, <2>2, LogLines
<1>. QED  BY <1>2

\* The last version has all of them.
LEMMA WholeLog ==
    ASSUME AofTypeOK
    PROVE  /\ Len(files) \in Nat /\ Len(files) \in 1 .. Len(files) /\ File = files[Len(files)]
           /\ File \in Seq(Line) /\ LogAt(Len(files)) = done \o cache
<1>1. /\ cache \in Seq(Line) /\ Len(cache) \in Nat /\ Len(files) = Len(cache) + 1
      /\ files \in Seq(Seq(Line))
  BY DEF AofTypeOK
<1>2. Len(files) \in 1 .. Len(files) /\ Len(files) - 1 = Len(cache)
  BY <1>1
<1>3. SubSeq(cache, 1, Len(cache)) = cache
  BY <1>1, SubSeqFull
<1>4. files[Len(files)] \in Seq(Line)
  BY <1>1, <1>2
<1>. QED  BY <1>1, <1>2, <1>3, <1>4 DEF LogAt, File, Last

\* A line that is appended to the cache is the last of the log.
LEMMA LogGrows ==
    ASSUME AofTypeOK, NEW l \in Line, cache' = Append(cache, l), done' = done,
           NEW k \in 1 .. Len(files)
    PROVE  LogAt(k)' = LogAt(k)
<1>. DEFINE c == Append(cache, l)
            p == SubSeq(cache, 1, k - 1)
            q == SubSeq(c, 1, k - 1)
<1>1. /\ cache \in Seq(Line) /\ c \in Seq(Line) /\ Len(cache) \in Nat /\ Len(c) = Len(cache) + 1
      /\ \A i \in 1 .. Len(cache) : c[i] = cache[i]
  BY DEF AofTypeOK
<1>2. k \in Nat /\ k - 1 \in 0 .. Len(cache) /\ k - 1 \in 0 .. Len(c)
  BY <1>1 DEF AofTypeOK
<1>3. p \in Seq(Line) /\ Len(p) = k - 1 /\ \A i \in 1 .. k - 1 : p[i] = cache[i]
  BY ONLY <1>1, <1>2, PrefixOf
<1>. HIDE DEF c
<1>4. q \in Seq(Line) /\ Len(q) = k - 1 /\ \A i \in 1 .. k - 1 : q[i] = c[i]
  BY ONLY <1>1, <1>2, PrefixOf
<1>. HIDE DEF p, q
<1>5. \A i \in 1 .. k - 1 : i \in 1 .. Len(cache)
  BY <1>1, <1>2
<1>6. p = q
  BY ONLY <1>1, <1>3, <1>4, <1>5, SeqEqual
<1>. QED  BY <1>6 DEF LogAt, p, q, c

\* After an fsync or a power failure the log is what was durable.
LEMMA LogStarts ==
    ASSUME AofTypeOK, NEW k \in 1 .. Len(files), cache' = <<>>, done' = LogAt(k)
    PROVE  LogAt(1)' = LogAt(k)
<1>1. LogAt(k) \in Seq(Line)
  BY LogLines
<1>2. SubSeq(<<>>, 1, 1 - 1) = <<>>
  BY SubSeqEmpty
<1>3. LogAt(k) \o <<>> = LogAt(k)
  BY <1>1, ConcatEmptySeq
<1>. QED  BY <1>2, <1>3 DEF LogAt

-----------------------------------------------------------------------------
(* queue_aof: every step keeps the invariant.                              *)

\* A step that leaves the file alone.
LEMMA FileStays ==
    ASSUME UNCHANGED <<aofFile, aofHist>>
    PROVE  /\ files' = files /\ cache' = cache /\ done' = done /\ tears' = tears
           /\ File' = File /\ (FilesKnown => FilesKnown')
<1>1. files' = files /\ cache' = cache /\ done' = done /\ tears' = tears
  BY DEF aofFile, aofHist
<1>. QED  BY <1>1 DEF File, FilesKnown, LogAt, Last

\* The process ends, and the file stays as it is.
LEMMA GoneStep ==
    ASSUME AofInv, Gone, UNCHANGED <<aofFile, aofHist>>
    PROVE  AofInv'
<1>1. /\ files' = files /\ cache' = cache /\ done' = done /\ tears' = tears /\ FilesKnown'
  BY FileStays DEF AofInv
<1>2. <<>> \in Seq(Int) /\ Junk \in Line
  BY DEF Junk, Line
<1>3. /\ mem' = <<>> /\ made' = FALSE /\ at' = 1 /\ line' \in Line /\ preque' \in Int
      /\ apc' = "down"
  BY <1>2 DEF Gone
<1>4. AofTypeOK'
  <2>1. made' \in BOOLEAN
    BY <1>3
  <2>2. mem' \in Seq(Int) /\ at' \in Nat \ {0}
    BY <1>3
  <2>. QED  BY <1>1, <1>3, <2>1, <2>2 DEF AofInv, AofTypeOK
<1>5. LinesKnown' /\ ReplayKnown'
  BY <1>1, <1>3 DEF AofInv, LinesKnown, ReplayKnown
<1>. QED  BY <1>1, <1>4, <1>5 DEF AofInv

LEMMA StartStep ==
    ASSUME AofInv, StartAof
    PROVE  AofInv'
<1>1. /\ UNCHANGED <<aofFile, aofHist>> /\ mem' = mem /\ made' = made /\ at' = at /\ line' = line
      /\ preque' = preque /\ apc = "down" /\ apc' = "replay"
  BY DEF StartAof
<1>2. /\ files' = files /\ cache' = cache /\ done' = done /\ tears' = tears /\ File' = File
      /\ FilesKnown'
  BY <1>1, FileStays DEF AofInv
<1>3. AofTypeOK' /\ LinesKnown'
  BY <1>1, <1>2 DEF AofInv, AofTypeOK, LinesKnown
<1>4. at = 1 /\ mem = <<>> /\ ~made /\ Len(mem) = 0
  BY <1>1 DEF AofInv, ReplayKnown
<1>5. File \in Seq(Line) /\ Len(File) \in Nat
  BY WholeLog DEF AofInv
<1>6. Enques(File, 0) = 0 /\ (Len(File) = 0 => ~Cut(File))
  BY <1>5, EnquesCount DEF Cut
<1>7. ReplayKnown'
  <2>1. Len(File) = 0 => Credit(File) = 0
    BY <1>6 DEF Credit
  <2>2. Cut(File)' = Cut(File) /\ Credit(File)' = Credit(File)
    BY <1>2 DEF Cut, Credit, Last
  <2>3. \A i : Enques(File, i)' = Enques(File, i)
    BY <1>2 DEF Enques
  <2>. QED  BY <1>1, <1>2, <1>4, <1>5, <1>6, <2>1, <2>2, <2>3 DEF ReplayKnown
<1>. QED  BY <1>2, <1>3, <1>7 DEF AofInv

\* An enque puts the value behind the others.
LEMMA Enqued ==
    ASSUME mem \in Seq(Int), NEW v \in Int, EnqueV(v)
    PROVE  /\ mem' \in Seq(Int) /\ made' = TRUE /\ mem' # <<>>
           /\ Len(mem) \in Nat /\ Len(mem') = Len(mem) + 1 /\ mem'[Len(mem) + 1] = v
           /\ \A i \in 1 .. Len(mem) : mem'[i] = mem[i]
<1>. DEFINE q == Append(mem, v)
<1>1. /\ q \in Seq(Int) /\ Len(mem) \in Nat /\ Len(q) = Len(mem) + 1 /\ q[Len(mem) + 1] = v
      /\ \A i \in 1 .. Len(mem) : q[i] = mem[i]
  OBVIOUS
<1>3. mem' = q /\ made' = TRUE
  BY DEF EnqueV
<1>. HIDE DEF q
<1>2. q # <<>>
  BY <1>1, EmptySeq
<1>. QED  BY <1>1, <1>2, <1>3

LEMMA Dequed ==
    ASSUME mem \in Seq(Int), made \in BOOLEAN, DequeV, ~DequeDies
    PROVE  mem' \in Seq(Int) /\ made' \in BOOLEAN /\ Len(mem') + 1 >= Len(mem)
<1>1. CASE made
  <2>1. mem # <<>> /\ mem' = Tail(mem) /\ made' = made
    BY <1>1 DEF DequeV, DequeDies
  <2>. QED  BY <2>1, HeadTailProperties
<1>2. CASE ~made
  BY <1>2 DEF DequeV
<1>. QED  BY <1>1, <1>2

\* A line that is replayed while it is not the last, or has its end.
LEMMA ReplayWhole ==
    ASSUME AofInv, Replay, at < Len(File) \/ File[at].nl
    PROVE  /\ mem' \in Seq(Int) /\ made' \in BOOLEAN
           /\ made' => mem' # <<>>
           /\ Len(mem') = Enques(File, at)
           /\ \A i \in 1 .. at :
                 File[i].op = "enque" => mem'[Enques(File, i)] = File[i].val
<1>. DEFINE l == File[at]
<1>1. /\ apc = "replay" /\ at <= Len(File) /\ ~ReplayDies(l)
      /\ CASE Replays(l) = "enque" -> EnqueV(l.val)
           [] Replays(l) = "deque" -> DequeV
           [] OTHER                -> UNCHANGED <<mem, made>>
  BY DEF Replay
<1>2. File \in Seq(Line) /\ Len(File) \in Nat /\ at \in 1 .. Len(File) /\ at - 1 \in Nat
  BY <1>1, WholeLog DEF AofInv, AofTypeOK
<1>3. l \in Line /\ l.nl /\ l.op \notin {"word", "space"}
  <2>1. l \in Line
    BY <1>2
  <2>2. WellFormed(File)
    BY WholeLog DEF AofInv, FilesKnown
  <2>. QED  BY <1>2, <2>1, <2>2 DEF WellFormed
<1>4. /\ mem \in Seq(Int) /\ made \in BOOLEAN /\ (made => mem # <<>>)
      /\ Len(mem) = Enques(File, at - 1)
      /\ \A i \in 1 .. at - 1 : File[i].op = "enque" => mem[Enques(File, i)] = File[i].val
  BY <1>1 DEF AofInv, AofTypeOK, ReplayKnown
<1>5. Enques(File, at) = Enques(File, at - 1) + (IF l.op = "enque" THEN 1 ELSE 0)
  <2>1. (at - 1) + 1 = at
    BY <1>2
  <2>. QED  BY <1>2, <2>1, EnquesCount
<1>6. CASE l.op = "enque"
  <2>1. Replays(l) = "enque" /\ l.val \in Int
    BY <1>3, <1>6 DEF Replays, Line
  <2>2. EnqueV(l.val)
    BY <1>1, <2>1
  <2>3. /\ mem' \in Seq(Int) /\ made' = TRUE /\ mem' # <<>>
        /\ Len(mem) \in Nat /\ Len(mem') = Len(mem) + 1 /\ mem'[Len(mem) + 1] = l.val
        /\ \A i \in 1 .. Len(mem) : mem'[i] = mem[i]
    BY <1>4, <2>1, <2>2, Enqued
  <2>4. ASSUME NEW i \in 1 .. at, File[i].op = "enque"
        PROVE  mem'[Enques(File, i)] = File[i].val
    <3>1. CASE i = at
      BY <1>4, <1>5, <1>6, <2>3, <3>1
    <3>2. CASE i # at
      <4>1. i \in 1 .. at - 1
        BY <1>2, <3>2
      <4>2. Enques(File, i) \in 1 .. Len(mem)
        BY <1>2, <1>4, <2>3, <2>4, <4>1, EnquesUpTo
      <4>. QED  BY <1>4, <2>3, <2>4, <4>1, <4>2
    <3>. QED  BY <3>1, <3>2
  <2>. QED  BY <1>4, <1>5, <1>6, <2>3, <2>4
<1>7. CASE l.op # "enque"
  <2>1. Replays(l) = "none"
    BY <1>3, <1>7 DEF Replays
  <2>2. mem' = mem /\ made' = made
    BY <1>1, <2>1
  <2>3. Enques(File, at - 1) \in Nat
    BY <1>2, EnquesCount
  <2>4. \A i \in 1 .. at : File[i].op = "enque" => i \in 1 .. at - 1
    BY <1>2, <1>7
  <2>. QED  BY <1>4, <1>5, <1>7, <2>2, <2>3, <2>4
<1>. QED  BY <1>6, <1>7

\* A last line that is cut short takes one value at most.
LEMMA ReplayCut ==
    ASSUME AofInv, Replay
    PROVE  /\ mem' \in Seq(Int) /\ made' \in BOOLEAN
           /\ Len(mem') + 1 >= Enques(File, at)
<1>. DEFINE l == File[at]
<1>1. /\ apc = "replay" /\ at <= Len(File) /\ ~ReplayDies(l)
      /\ CASE Replays(l) = "enque" -> EnqueV(l.val)
           [] Replays(l) = "deque" -> DequeV
           [] OTHER                -> UNCHANGED <<mem, made>>
  BY DEF Replay
<1>2. File \in Seq(Line) /\ Len(File) \in Nat /\ at \in 1 .. Len(File) /\ at - 1 \in Nat
  BY <1>1, WholeLog DEF AofInv, AofTypeOK
<1>3. l \in Line /\ l.val \in Int
  <2>1. l \in Line
    BY <1>2
  <2>. HIDE DEF l
  <2>. QED  BY <2>1 DEF Line
<1>4. mem \in Seq(Int) /\ made \in BOOLEAN /\ Len(mem) = Enques(File, at - 1) /\ Len(mem) \in Nat
  BY <1>1 DEF AofInv, AofTypeOK, ReplayKnown
<1>5. Enques(File, at) = Enques(File, at - 1) + (IF l.op = "enque" THEN 1 ELSE 0)
  <2>1. (at - 1) + 1 = at
    BY <1>2
  <2>. QED  BY <1>2, <2>1, EnquesCount
<1>6. CASE Replays(l) = "enque"
  <2>1. EnqueV(l.val)
    BY <1>1, <1>6
  <2>2. mem' \in Seq(Int) /\ made' = TRUE /\ Len(mem') = Len(mem) + 1
    BY <1>3, <1>4, <2>1, Enqued
  <2>. QED  BY <1>4, <1>5, <2>2
<1>7. CASE Replays(l) = "deque"
  <2>1. l.op # "enque" /\ DequeV /\ ~DequeDies
    BY <1>1, <1>7 DEF ReplayDies, Replays
  <2>2. mem' \in Seq(Int) /\ made' \in BOOLEAN /\ Len(mem') + 1 >= Len(mem)
    BY <1>4, <2>1, Dequed
  <2>. QED  BY <1>4, <1>5, <2>1, <2>2
<1>8. CASE Replays(l) \notin {"enque", "deque"}
  <2>1. mem' = mem /\ made' = made
    BY <1>1, <1>8
  <2>. QED  BY <1>4, <1>5, <2>1
<1>. QED  BY <1>6, <1>7, <1>8

LEMMA ReplayStep ==
    ASSUME AofInv, Replay
    PROVE  AofInv'
<1>1. /\ UNCHANGED <<aofFile, aofHist>> /\ apc = "replay" /\ apc' = apc /\ at <= Len(File)
      /\ at' = at + 1 /\ line' = line /\ preque' = preque
  BY DEF Replay
<1>2. /\ files' = files /\ cache' = cache /\ done' = done /\ tears' = tears /\ File' = File
      /\ FilesKnown'
  BY <1>1, FileStays DEF AofInv
<1>3. /\ File \in Seq(Line) /\ Len(File) \in Nat /\ at \in 1 .. Len(File) /\ at' \in Nat \ {0}
      /\ at' - 1 = at /\ at' <= Len(File) + 1
  BY <1>1, WholeLog DEF AofInv, AofTypeOK
<1>4. /\ mem' \in Seq(Int) /\ made' \in BOOLEAN /\ Len(mem') + 1 >= Enques(File, at)
  BY ReplayCut
<1>5. AofTypeOK' /\ LinesKnown'
  BY <1>1, <1>2, <1>3, <1>4 DEF AofInv, AofTypeOK, LinesKnown
<1>6. Cut(File) <=> ~File[Len(File)].nl
  BY <1>3 DEF Cut, Last
<1>7. /\ (Cut(File))' = Cut(File) /\ (Credit(File))' = Credit(File)
      /\ \A i : (Enques(File, i))' = Enques(File, i)
  BY <1>2 DEF Cut, Credit, Last, Enques
<1>8. at' <= Len(File) \/ ~Cut(File) =>
         /\ made' => mem' # <<>>
         /\ Len(mem') = Enques(File, at)
         /\ \A i \in 1 .. at : File[i].op = "enque" => mem'[Enques(File, i)] = File[i].val
  <2>1. ASSUME at' <= Len(File) \/ ~Cut(File)
        PROVE  at < Len(File) \/ File[at].nl
    BY <1>1, <1>3, <1>6, <2>1
  <2>. QED  BY <2>1, ReplayWhole
<1>9. at' > Len(File) => Len(mem') + Credit(File) >= Enques(File, Len(File))
  <2>1. SUFFICES ASSUME at' > Len(File)
                 PROVE  Len(mem') + Credit(File) >= Enques(File, Len(File))
    OBVIOUS
  <2>2. at = Len(File)
    BY <1>1, <1>3, <2>1
  <2>3. Len(mem') \in Nat
    BY <1>4
  <2>4. CASE Cut(File)
    BY <1>4, <2>2, <2>4 DEF Credit
  <2>5. CASE ~Cut(File)
    BY <1>8, <2>2, <2>3, <2>5 DEF Credit
  <2>. QED  BY <2>4, <2>5
<1>10. ReplayKnown'
  BY <1>1, <1>2, <1>3, <1>7, <1>8, <1>9 DEF ReplayKnown
<1>. QED  BY <1>2, <1>5, <1>10 DEF AofInv

LEMMA EndReplayStep ==
    ASSUME AofInv, EndReplay
    PROVE  AofInv'
<1>1. /\ UNCHANGED <<aofFile, aofHist>> /\ apc = "replay" /\ apc' = "fresh" /\ at > Len(File)
      /\ at' = at /\ line' = line /\ preque' = preque /\ mem' = mem /\ made' = made
  BY DEF EndReplay
<1>2. /\ files' = files /\ cache' = cache /\ done' = done /\ tears' = tears /\ File' = File
      /\ FilesKnown'
  BY <1>1, FileStays DEF AofInv
<1>3. AofTypeOK' /\ LinesKnown'
  BY <1>1, <1>2 DEF AofInv, AofTypeOK, LinesKnown
<1>4. File \in Seq(Line) /\ Len(File) \in Nat /\ at \in Nat
  BY WholeLog DEF AofInv, AofTypeOK
<1>5. /\ (Cut(File))' = Cut(File) /\ (Credit(File))' = Credit(File)
      /\ \A i : (Enques(File, i))' = Enques(File, i)
  BY <1>2 DEF Cut, Credit, Last, Enques
<1>6. ReplayKnown'
  BY <1>1, <1>2, <1>4, <1>5 DEF AofInv, ReplayKnown
<1>. QED  BY <1>2, <1>3, <1>6 DEF AofInv

\* A command that changes the queue in memory, and leaves the file to be written.
LEMMA CommandStep ==
    ASSUME AofInv, UNCHANGED <<aofFile, aofHist>>, at' = at, apc' = "write",
           mem' \in Seq(Int), made' \in BOOLEAN, line' \in Line, Written(line'), preque' \in Int
    PROVE  AofInv'
<1>1. /\ files' = files /\ cache' = cache /\ done' = done /\ tears' = tears /\ FilesKnown'
  BY FileStays DEF AofInv
<1>2. AofTypeOK'
  BY <1>1 DEF AofInv, AofTypeOK
<1>3. LinesKnown' /\ ReplayKnown'
  BY <1>1 DEF AofInv, LinesKnown, ReplayKnown, Written
<1>. QED  BY <1>1, <1>2, <1>3 DEF AofInv

LEMMA EnqueLineWritten ==
    /\ \A v \in Int : EnqueLine(v) \in Line /\ Written(EnqueLine(v))
    /\ DequeLine \in Line /\ Written(DequeLine)
BY DEF EnqueLine, DequeLine, Line, Written

LEMMA EnqueCmdStep ==
    ASSUME AofInv, NEW v \in Int, EnqueCmd(v)
    PROVE  AofInv'
<1>1. /\ EnqueV(v) /\ line' = EnqueLine(v) /\ apc' = "write"
      /\ UNCHANGED <<aofFile, aofHist>> /\ at' = at /\ preque' = preque
  BY DEF EnqueCmd
<1>2. mem' \in Seq(Int) /\ made' \in BOOLEAN /\ preque' \in Int
  BY <1>1, Enqued DEF AofInv, AofTypeOK
<1>. QED  BY <1>1, <1>2, EnqueLineWritten, CommandStep

LEMMA DequeCmdStep ==
    ASSUME AofInv, DequeCmd
    PROVE  AofInv'
<1>1. /\ DequeV /\ ~DequeDies /\ line' = DequeLine /\ apc' = "write"
      /\ UNCHANGED <<aofFile, aofHist>> /\ at' = at /\ preque' = preque
  BY DEF DequeCmd
<1>2. mem' \in Seq(Int) /\ made' \in BOOLEAN /\ preque' \in Int
  BY <1>1, Dequed DEF AofInv, AofTypeOK
<1>. QED  BY <1>1, <1>2, EnqueLineWritten, CommandStep

LEMMA PrequeNextStep ==
    ASSUME AofInv, PrequeNext
    PROVE  AofInv'
<1>. DEFINE v == PrequeLen - preque
<1>1. v \in Int /\ preque - 1 \in Int
  BY AofAssumption DEF AofInv, AofTypeOK
<1>2. /\ EnqueV(v) /\ line' = EnqueLine(v) /\ apc' = "write"
      /\ UNCHANGED <<aofFile, aofHist>> /\ at' = at /\ preque' = preque - 1
  BY DEF PrequeNext
<1>. HIDE DEF v
<1>3. mem' \in Seq(Int) /\ made' \in BOOLEAN
  BY <1>1, <1>2, Enqued DEF AofInv, AofTypeOK
<1>. QED  BY <1>1, <1>2, <1>3, EnqueLineWritten, CommandStep

LEMMA PrequeCmdStep ==
    ASSUME AofInv, PrequeCmd
    PROVE  AofInv'
<1>1. /\ UNCHANGED <<aofFile, aofHist>> /\ apc' = "preque" /\ preque' = PrequeLen
      /\ at' = at /\ line' = line /\ mem' = mem /\ made' = made
  BY DEF PrequeCmd
<1>2. /\ files' = files /\ cache' = cache /\ done' = done /\ tears' = tears /\ FilesKnown'
  BY <1>1, FileStays DEF AofInv
<1>3. PrequeLen \in Int
  BY AofAssumption
<1>4. AofTypeOK'
  BY <1>1, <1>2, <1>3 DEF AofInv, AofTypeOK
<1>5. LinesKnown' /\ ReplayKnown'
  BY <1>1, <1>2 DEF AofInv, LinesKnown, ReplayKnown
<1>. QED  BY <1>2, <1>4, <1>5 DEF AofInv

\* One more version of the file: with the line that was written.
LEMMA WriteLineStep ==
    ASSUME AofInv, WriteLine
    PROVE  AofInv'
<1>. DEFINE g == AppendLine(File, line)
<1>0. PICK n \in Nat : n = Len(files)
  BY WholeLog DEF AofInv
<1>1. /\ apc = "write" /\ apc' = "sync" /\ files' = Append(files, g) /\ cache' = Append(cache, line)
      /\ done' = done /\ tears' = tears /\ at' = at /\ line' = line /\ preque' = preque
      /\ mem' = mem /\ made' = made
  BY DEF WriteLine, aofHist
<1>2. /\ n \in Nat /\ n \in 1 .. n /\ File = files[n] /\ File \in Seq(Line)
      /\ files \in Seq(Seq(Line)) /\ cache \in Seq(Line) /\ n = Len(cache) + 1 /\ tears \in Nat
  BY <1>0, WholeLog DEF AofInv, AofTypeOK
<1>3. line \in Line /\ Written(line) /\ line.nl /\ line.op \notin {"word", "space"}
  BY <1>1 DEF AofInv, AofTypeOK, LinesKnown, Written
<1>4. WellFormed(File)
  BY <1>0, <1>2 DEF AofInv, FilesKnown
<1>5. g \in Seq(Line) /\ (~Cut(File) => g = Append(File, line))
  BY <1>2, <1>3, AppendedLine
<1>6. /\ WellFormed(g) /\ ~Cut(g)
      /\ Enques(File, Len(File)) \in Nat /\ Enques(g, Len(g)) \in Nat
      /\ Cut(File) => Enques(g, Len(g)) >= Enques(File, Len(File))
      /\ ~Cut(File) => Enques(g, Len(g)) = Enques(File, Len(File))
                                            + (IF line.op = "enque" THEN 1 ELSE 0)
  BY <1>2, <1>3, <1>4, AppendedEnques
<1>. HIDE DEF g
<1>7. /\ files' \in Seq(Seq(Line)) /\ Len(files') = n + 1 /\ files'[n + 1] = g
      /\ \A k \in 1 .. n : files'[k] = files[k]
  <2>1. files \in Seq(Seq(Line)) /\ n = Len(files) /\ files' = Append(files, g) /\ g \in Seq(Line)
    BY <1>0, <1>1, <1>2, <1>5
  <2>. QED  BY ONLY <2>1, AppendProperties
<1>8. /\ cache' \in Seq(Line) /\ Len(cache') = n /\ cache'[n] = line
      /\ \A i \in 1 .. n - 1 : cache'[i] = cache[i]
  BY <1>1, <1>2, <1>3
<1>9. AofTypeOK'
  BY <1>1, <1>7, <1>8 DEF AofInv, AofTypeOK
<1>10. LinesKnown'
  <2>1. \A i \in 1 .. n - 1 : Written(cache[i])
    BY <1>2 DEF AofInv, LinesKnown
  <2>2. \A i \in 1 .. n : i = n \/ i \in 1 .. n - 1
    BY <1>2
  <2>3. \A i \in 1 .. n : Written(cache'[i])
    BY <1>3, <1>8, <2>1, <2>2
  <2>. QED  BY <1>1, <1>8, <2>3 DEF AofInv, LinesKnown, Written
<1>11. \A k \in 1 .. n : LogAt(k)' = LogAt(k)
  BY <1>0, <1>1, <1>3, LogGrows DEF AofInv
<1>12. LogAt(n + 1)' = Append(LogAt(n), line) /\ LogAt(n) \in Seq(Line)
  <2>. DEFINE a == LogAt(n)
              b == Append(a, line)
              c == LogAt(n + 1)'
  <2>1. /\ a \in Seq(Line) /\ Len(a) = Len(done) + (n - 1)
        /\ \A i \in 1 .. Len(done) : a[i] = done[i]
        /\ \A i \in 1 .. n - 1 : a[Len(done) + i] = cache[i]
    BY <1>0, <1>2, LogLines DEF AofInv
  <2>2. n + 1 \in 1 .. Len(files')
    BY <1>2, <1>7
  <2>3. /\ c \in Seq(Line) /\ Len(c) = Len(done) + ((n + 1) - 1)
        /\ \A i \in 1 .. Len(done) : c[i] = done[i]
        /\ \A i \in 1 .. (n + 1) - 1 : c[Len(done) + i] = cache'[i]
    <3>1. /\ LogAt(n + 1)' \in Seq(Line) /\ Len(LogAt(n + 1)') = Len(done') + ((n + 1) - 1)
          /\ \A i \in 1 .. Len(done') : LogAt(n + 1)'[i] = done'[i]
          /\ \A i \in 1 .. (n + 1) - 1 : LogAt(n + 1)'[Len(done') + i] = cache'[i]
      BY <1>9, <2>2, LogLinesAfter
    <3>. QED  BY <1>1, <3>1
  <2>4. Len(done) \in Nat
    BY DEF AofInv, AofTypeOK
  <2>. HIDE DEF a, c
  <2>5. /\ b \in Seq(Line) /\ Len(b) = Len(done) + n
        /\ \A i \in 1 .. Len(done) + (n - 1) : b[i] = a[i]
        /\ b[Len(done) + n] = line
    BY <1>2, <1>3, <2>1, <2>4
  <2>. HIDE DEF b
  <2>6. ASSUME NEW i \in 1 .. Len(c)
        PROVE  c[i] = b[i]
    <3>1. CASE i <= Len(done)
      <4>1. i \in 1 .. Len(done) /\ i \in 1 .. Len(done) + (n - 1)
        BY <1>2, <2>4, <3>1
      <4>. QED  BY <2>1, <2>3, <2>5, <4>1
    <3>2. CASE i > Len(done) /\ i < Len(done) + n
      <4>. DEFINE j == i - Len(done)
      <4>1. j \in 1 .. n - 1 /\ j \in 1 .. (n + 1) - 1 /\ Len(done) + j = i
            /\ i \in 1 .. Len(done) + (n - 1)
        BY <1>2, <2>4, <3>2
      <4>. HIDE DEF j
      <4>. QED  BY <1>8, <2>1, <2>3, <2>5, <4>1
    <3>3. CASE i = Len(done) + n
      BY <1>2, <1>8, <2>3, <2>5, <3>3
    <3>4. i \in Nat /\ i <= Len(done) + n
      BY <2>3, <2>4
    <3>. QED  BY <2>4, <3>1, <3>2, <3>3, <3>4
  <2>7. c = b
    BY <1>2, <2>3, <2>4, <2>5, <2>6, SeqEqual
  <2>. QED  BY <2>1, <2>7 DEF a, b, c
<1>13. ASSUME NEW k \in 1 .. n
       PROVE  /\ WellFormed(files[k])
              /\ tears = 0 => files[k] = LogAt(k)
              /\ Enques(files[k], Len(files[k])) + tears
                   >= Enques(LogAt(k), Len(LogAt(k))) + Credit(files[k])
  BY <1>0 DEF AofInv, FilesKnown
<1>14. Len(LogAt(n)) \in Nat /\ Enques(LogAt(n), Len(LogAt(n))) \in Nat
  BY <1>12, EnquesCount
<1>. DEFINE b == Append(LogAt(n), line)
<1>15. Enques(b, Len(b)) = Enques(LogAt(n), Len(LogAt(n))) + (IF line.op = "enque" THEN 1 ELSE 0)
  <2>. DEFINE a == LogAt(n)
              m == Len(a)
  <2>1. a \in Seq(Line) /\ m \in Nat
    BY <1>12
  <2>. HIDE DEF a
  <2>2. Len(b) = m + 1 /\ b[m + 1] = line /\ \A i \in 1 .. m : b[i] = a[i]
    BY <1>3, <2>1 DEF a
  <2>. HIDE DEF b, m
  <2>3. Enques(b, m) = Enques(a, m)
    BY <2>1, <2>2, EnquesSame
  <2>4. Enques(b, m + 1) = Enques(b, m) + (IF line.op = "enque" THEN 1 ELSE 0)
    BY <2>1, <2>2, EnquesCount
  <2>. QED  BY <2>2, <2>3, <2>4 DEF a, m
<1>16. /\ tears = 0 => g = b
       /\ Enques(g, Len(g)) + tears >= Enques(b, Len(b)) + Credit(g)
  <2>1. Enques(File, Len(File)) + tears >= Enques(LogAt(n), Len(LogAt(n))) + Credit(File)
    BY <1>2, <1>13
  <2>2. tears = 0 => File = LogAt(n)
    BY <1>2, <1>13
  <2>3. tears = 0 => ~Cut(File)
    <3>1. \A i \in 1 .. Len(LogAt(n)) : Written(LogAt(n)[i])
      BY <1>0, <1>2, LogWritten DEF AofInv
    <3>. QED  BY <1>2, <2>2, <3>1 DEF Cut, Last, Written
  <2>4. Credit(g) = 0
    BY <1>6 DEF Credit
  <2>. HIDE DEF b
  <2>5. Enques(g, Len(g)) + tears >= Enques(b, Len(b)) + Credit(g)
    BY <1>2, <1>6, <1>14, <1>15, <2>1, <2>4 DEF Credit
  <2>. QED  BY <1>5, <2>2, <2>3, <2>5 DEF b
<1>17. FilesKnown'
  <2>1. \A k \in 1 .. n + 1 : k \in 1 .. n \/ k = n + 1
    BY ONLY n \in Nat
  <2>. HIDE DEF b
  <2>2. LogAt(n + 1)' = b
    BY <1>12 DEF b
  <2>3. ASSUME NEW k \in 1 .. n + 1
        PROVE  /\ WellFormed(files'[k])
               /\ tears = 0 => files'[k] = LogAt(k)'
               /\ Enques(files'[k], Len(files'[k])) + tears
                    >= Enques(LogAt(k)', Len(LogAt(k)')) + Credit(files'[k])
    <3>1. CASE k \in 1 .. n
      BY <1>7, <1>11, <1>13, <3>1
    <3>2. CASE k = n + 1
      BY <1>6, <1>7, <1>16, <2>2, <3>2
    <3>. QED  BY <2>1, <3>1, <3>2
  <2>. QED  BY <1>1, <1>7, <2>3
            DEF FilesKnown, WellFormed, Enques, Credit, Cut, Last
<1>18. ReplayKnown'
  BY <1>1 DEF ReplayKnown
<1>. QED  BY <1>9, <1>10, <1>17, <1>18 DEF AofInv

\* After an fsync or a power failure there is one version of the file.
LEMMA OneVersion ==
    ASSUME AofInv, NEW k \in 1 .. Len(files), NEW g \in Seq(Line),
           files' = <<g>>, cache' = <<>>, done' = LogAt(k), tears' \in Nat,
           WellFormed(g), tears' = 0 => g = LogAt(k),
           Enques(g, Len(g)) + tears' >= Enques(LogAt(k), Len(LogAt(k))) + Credit(g)
    PROVE  /\ files' \in Seq(Seq(Line)) /\ cache' \in Seq(Line) /\ Len(files') = Len(cache') + 1
           /\ done' \in Seq(Line) /\ FilesKnown'
           /\ \A i \in 1 .. Len(done') : Written(done'[i])
           /\ \A i \in 1 .. Len(cache') : Written(cache'[i])
<1>1. /\ files' \in Seq(Seq(Line)) /\ cache' \in Seq(Line) /\ Len(files') = 1 /\ Len(cache') = 0
      /\ files'[1] = g
  OBVIOUS
<1>2. done' \in Seq(Line) /\ \A i \in 1 .. Len(done') : Written(done'[i])
  BY LogLines, LogWritten DEF AofInv
<1>3. LogAt(1)' = LogAt(k)
  BY LogStarts DEF AofInv
<1>4. FilesKnown'
  <2>1. ASSUME NEW j \in 1 .. Len(files')
        PROVE  /\ WellFormed(files'[j])
               /\ tears' = 0 => files'[j] = LogAt(j)'
               /\ Enques(files'[j], Len(files'[j])) + tears'
                    >= Enques(LogAt(j)', Len(LogAt(j)')) + Credit(files'[j])
    <3>1. j = 1
      BY <1>1
    <3>. QED  BY <1>1, <1>3, <3>1
  <2>. QED  BY <2>1 DEF FilesKnown, WellFormed, Enques, Credit, Cut, Last
<1>. QED  BY <1>1, <1>2, <1>4

LEMMA SyncLineStep ==
    ASSUME AofInv, SyncLine
    PROVE  AofInv'
<1>0. PICK n \in Nat : n = Len(files)
  BY WholeLog DEF AofInv
<1>1. /\ files' = <<File>> /\ cache' = <<>> /\ done' = done \o cache /\ tears' = tears
      /\ apc' \in {"preque", "main"}
      /\ mem' = mem /\ made' = made /\ at' = at /\ line' = line /\ preque' = preque
  BY DEF SyncLine
<1>2. n \in 1 .. n /\ File = files[n] /\ File \in Seq(Line) /\ LogAt(n) = done \o cache
  BY <1>0, WholeLog DEF AofInv
<1>3. /\ WellFormed(File) /\ (tears = 0 => File = LogAt(n)) /\ tears \in Nat
      /\ Enques(File, Len(File)) + tears >= Enques(LogAt(n), Len(LogAt(n))) + Credit(File)
  BY <1>0, <1>2 DEF AofInv, FilesKnown, AofTypeOK
<1>4. /\ files' \in Seq(Seq(Line)) /\ cache' \in Seq(Line) /\ Len(files') = Len(cache') + 1
      /\ done' \in Seq(Line) /\ FilesKnown'
      /\ \A i \in 1 .. Len(done') : Written(done'[i])
      /\ \A i \in 1 .. Len(cache') : Written(cache'[i])
  BY <1>0, <1>1, <1>2, <1>3, OneVersion
<1>5. AofTypeOK'
  BY <1>1, <1>4 DEF AofInv, AofTypeOK
<1>6. LinesKnown' /\ ReplayKnown'
  BY <1>1, <1>4 DEF LinesKnown, ReplayKnown, Written
<1>. QED  BY <1>4, <1>5, <1>6 DEF AofInv

LEMMA PowerFailureStep ==
    ASSUME AofInv, PowerFailure
    PROVE  AofInv'
<1>1. PICK k \in 1 .. Len(files) :
          /\ \/ files' = <<files[k]>> /\ tears' = tears
             \/ /\ k < Len(files) /\ tears < MaxTears
                /\ \E x \in TornFrom(cache[k]) : files' = <<AppendLine(files[k], x)>>
                /\ tears' = tears + 1
          /\ done' = done \o SubSeq(cache, 1, k - 1)
  BY DEF PowerFailure
<1>2. cache' = <<>> /\ Gone /\ done' = LogAt(k)
  BY <1>1 DEF PowerFailure, LogAt
<1>. DEFINE f == files[k]
<1>3. /\ f \in Seq(Line) /\ Len(files) \in Nat /\ Len(cache) \in Nat /\ cache \in Seq(Line)
      /\ Len(files) = Len(cache) + 1 /\ tears \in Nat
  BY DEF AofInv, AofTypeOK
<1>4. /\ WellFormed(f) /\ (tears = 0 => f = LogAt(k))
      /\ Enques(f, Len(f)) + tears >= Enques(LogAt(k), Len(LogAt(k))) + Credit(f)
  BY DEF AofInv, FilesKnown
<1>5. LogAt(k) \in Seq(Line) /\ Len(LogAt(k)) \in Nat /\ Enques(LogAt(k), Len(LogAt(k))) \in Nat
  <2>1. LogAt(k) \in Seq(Line)
    BY LogLines DEF AofInv
  <2>. QED  BY <2>1, EnquesCount
<1>6. PICK g \in Seq(Line) :
          /\ files' = <<g>> /\ tears' \in Nat /\ WellFormed(g)
          /\ tears' = 0 => g = LogAt(k)
          /\ Enques(g, Len(g)) + tears' >= Enques(LogAt(k), Len(LogAt(k))) + Credit(g)
  <2>. HIDE DEF f
  <2>1. CASE files' = <<f>> /\ tears' = tears
    BY <1>3, <1>4, <2>1
  <2>2. ASSUME k < Len(files), tears' = tears + 1,
               NEW x \in TornFrom(cache[k]), files' = <<AppendLine(f, x)>>
        PROVE  \E g \in Seq(Line) :
                  /\ files' = <<g>> /\ tears' \in Nat /\ WellFormed(g)
                  /\ tears' = 0 => g = LogAt(k)
                  /\ Enques(g, Len(g)) + tears' >= Enques(LogAt(k), Len(LogAt(k))) + Credit(g)
    <3>. DEFINE g == AppendLine(f, x)
    <3>1. k \in 1 .. Len(cache) /\ cache[k] \in Line /\ Written(cache[k])
      BY <1>3, <2>2 DEF AofInv, LinesKnown
    <3>2. x \in Line /\ ~x.nl
      BY <2>2, <3>1, TornLine
    <3>3. g \in Seq(Line)
      BY <1>3, <3>2, AppendedLine
    <3>4. /\ WellFormed(g) /\ Cut(g) /\ Enques(f, Len(f)) \in Nat /\ Enques(g, Len(g)) \in Nat
          /\ Cut(f) => Enques(g, Len(g)) >= Enques(f, Len(f))
          /\ ~Cut(f) => Enques(g, Len(g)) = Enques(f, Len(f)) + (IF x.op = "enque" THEN 1 ELSE 0)
      BY <1>3, <1>4, <3>2, AppendedEnques
    <3>. HIDE DEF g
    <3>5. Enques(g, Len(g)) >= Enques(f, Len(f)) /\ Credit(g) = 1 /\ Credit(f) \in {0, 1}
      BY <3>4 DEF Credit
    <3>6. tears' \in Nat /\ tears' # 0
      BY <1>3, <2>2
    <3>7. Enques(g, Len(g)) + tears' >= Enques(LogAt(k), Len(LogAt(k))) + Credit(g)
      BY <1>3, <1>4, <1>5, <2>2, <3>4, <3>5
    <3>. QED  BY <2>2, <3>3, <3>4, <3>6, <3>7 DEF g
  <2>. QED  BY <1>1, <2>1, <2>2 DEF f
<1>7. /\ files' \in Seq(Seq(Line)) /\ cache' \in Seq(Line) /\ Len(files') = Len(cache') + 1
      /\ done' \in Seq(Line) /\ FilesKnown' /\ tears' \in Nat
      /\ \A i \in 1 .. Len(done') : Written(done'[i])
      /\ \A i \in 1 .. Len(cache') : Written(cache'[i])
  BY <1>2, <1>6, OneVersion
<1>8. /\ mem' = <<>> /\ made' = FALSE /\ at' = 1 /\ line' \in Line /\ preque' \in Int
      /\ apc' = "down"
  BY <1>2 DEF Gone, Junk, Line
<1>9. AofTypeOK'
  <2>1. made' \in BOOLEAN
    BY <1>8
  <2>2. mem' \in Seq(Int) /\ at' \in Nat \ {0}
    BY <1>8
  <2>. QED  BY <1>7, <1>8, <2>1, <2>2 DEF AofTypeOK
<1>10. LinesKnown' /\ ReplayKnown'
  BY <1>7, <1>8 DEF LinesKnown, ReplayKnown, Written
<1>. QED  BY <1>7, <1>9, <1>10 DEF AofInv

\* Before the first run the file is empty.
LEMMA AofStarts == AofInit => AofInv
<1>1. SUFFICES ASSUME AofInit
               PROVE  AofInv
  OBVIOUS
<1>2. /\ files = << <<>> >> /\ cache = <<>> /\ mem = <<>> /\ made = FALSE /\ apc = "down" /\ at = 1
      /\ line = Junk /\ preque = 0 /\ done = <<>> /\ tears = 0
  BY <1>1 DEF AofInit
<1>. DEFINE e == <<>>
<1>3. e \in Seq(Line) /\ Len(e) = 0 /\ e \in Seq(Int) /\ Junk \in Line /\ files = <<e>>
  BY <1>2 DEF Junk, Line
<1>4. files \in Seq(Seq(Line)) /\ Len(files) = 1 /\ files[1] = e
  BY <1>3
<1>5. AofTypeOK
  <2>1. made \in BOOLEAN
    BY <1>2
  <2>2. mem \in Seq(Int) /\ at \in Nat \ {0} /\ preque \in Int /\ tears \in Nat
    BY <1>2
  <2>3. cache \in Seq(Line) /\ done \in Seq(Line) /\ Len(cache) = 0 /\ line \in Line
    BY <1>2, <1>3
  <2>. QED  BY <1>2, <1>4, <2>1, <2>2, <2>3 DEF AofTypeOK
<1>6. LinesKnown /\ ReplayKnown
  BY <1>2 DEF LinesKnown, ReplayKnown
<1>7. FilesKnown
  <2>1. \A k \in 1 .. 1 : k = 1
    OBVIOUS
  <2>2. LogAt(1) = e
    <3>1. SubSeq(<<>>, 1, 1 - 1) = <<>>
      BY SubSeqEmpty
    <3>2. e \o e = e
      BY <1>3, ConcatEmptySeq
    <3>. QED  BY <1>2, <3>1, <3>2 DEF LogAt
  <2>3. Enques(e, 0) = 0 /\ WellFormed(e) /\ Credit(e) = 0
    BY EnquesCount DEF WellFormed, Credit, Cut
  <2>. HIDE DEF e
  <2>. QED  BY <1>2, <1>3, <1>4, <2>1, <2>2, <2>3 DEF FilesKnown
<1>. QED  BY <1>5, <1>6, <1>7 DEF AofInv

LEMMA AofStutters ==
    ASSUME AofInv, UNCHANGED aofVars
    PROVE  AofInv'
<1>1. /\ UNCHANGED <<aofFile, aofHist>> /\ mem' = mem /\ made' = made /\ apc' = apc /\ at' = at
      /\ line' = line /\ preque' = preque
  BY DEF aofVars
<1>2. /\ files' = files /\ cache' = cache /\ done' = done /\ tears' = tears /\ File' = File
      /\ FilesKnown'
  BY <1>1, FileStays DEF AofInv
<1>3. AofTypeOK' /\ LinesKnown'
  BY <1>1, <1>2 DEF AofInv, AofTypeOK, LinesKnown
<1>4. ReplayKnown'
  BY <1>1, <1>2 DEF AofInv, ReplayKnown, Cut, Credit, Last, Enques
<1>. QED  BY <1>2, <1>3, <1>4 DEF AofInv

-----------------------------------------------------------------------------
(* queue_aof: the theorems.                                                *)

\* AofInv is an inductive invariant of queue_aof.
THEOREM AofInvariant == AofSpec => []AofInv
<1>1. AofInv /\ [AofNext]_aofVars => AofInv'
  <2>1. SUFFICES ASSUME AofInv, [AofNext]_aofVars
                 PROVE  AofInv'
    OBVIOUS
  <2>2. ASSUME NEW v \in Numbers, EnqueCmd(v)
        PROVE  AofInv'
    BY <2>1, <2>2, AofAssumption, EnqueCmdStep
  <2>3. CASE ReplayDead \/ CommandDies \/ PrequeDies \/ QuitOrKilled
    BY <2>1, <2>3, GoneStep DEF ReplayDead, CommandDies, PrequeDies, QuitOrKilled
  <2>. QED
    BY <2>1, <2>2, <2>3, StartStep, ReplayStep, EndReplayStep, DequeCmdStep, PrequeCmdStep,
       PrequeNextStep, WriteLineStep, SyncLineStep, PowerFailureStep, AofStutters DEF AofNext
<1>. QED  BY <1>1, AofStarts, PTL DEF AofSpec

\* A restart of queue_aof has in its queue every value whose enque was logged, in
\* order, for files of any length, and any number of kills and power failures;
\* each line that a power failure tore costs one value at most.
THEOREM RestartFindsEnques == AofSpec => []EnquesReplayed
<1>1. AofInv => EnquesReplayed
  <2>1. SUFFICES ASSUME AofInv, apc = "fresh"
                 PROVE  /\ tears = 0 => EnquesAre(mem, done \o cache)
                        /\ Len(mem) + tears >= Enques(done \o cache, Len(done \o cache))
    BY DEF EnquesReplayed
  <2>. DEFINE log == done \o cache
              n == Len(files)
  <2>2. n \in 1 .. n /\ File = files[n] /\ File \in Seq(Line) /\ LogAt(n) = log
    BY <2>1, WholeLog DEF AofInv
  <2>3. Len(File) \in Nat /\ tears \in Nat /\ Len(mem) \in Nat /\ at = Len(File) + 1
    BY <2>1, <2>2 DEF AofInv, AofTypeOK, ReplayKnown
  <2>4. /\ tears = 0 => File = log
        /\ Enques(File, Len(File)) + tears >= Enques(log, Len(log)) + Credit(File)
    BY <2>1, <2>2 DEF AofInv, FilesKnown
  <2>5. tears = 0 => ~Cut(File)
    <3>1. \A i \in 1 .. Len(LogAt(n)) : Written(LogAt(n)[i])
      BY <2>1, <2>2, LogWritten DEF AofInv
    <3>. QED  BY <2>2, <2>3, <2>4, <3>1 DEF Cut, Last, Written
  <2>6. log \in Seq(Line)
    BY <2>1, <2>2, LogLines DEF AofInv
  <2>7. Enques(File, Len(File)) \in Nat /\ Enques(log, Len(log)) \in Nat
    BY <2>2, <2>3, <2>6, EnquesCount
  <2>. HIDE DEF log
  <2>8. at - 1 = Len(File) /\ at > Len(File)
    BY <2>3
  <2>9. tears = 0 => EnquesAre(mem, File)
    BY <2>1, <2>5, <2>8 DEF AofInv, ReplayKnown, EnquesAre
  <2>10. Len(mem) + Credit(File) >= Enques(File, Len(File)) /\ Credit(File) \in {0, 1}
    BY <2>1, <2>8 DEF AofInv, ReplayKnown, Credit
  <2>11. Len(mem) + tears >= Enques(log, Len(log))
    BY <2>3, <2>4, <2>7, <2>10
  <2>. QED  BY <2>4, <2>9, <2>11 DEF log
<1>. QED  BY <1>1, AofInvariant, PTL

\* The replay dies only of a last line that a power failure tore.
THEOREM OnlyTornLinesKill == AofSpec => []ReplaySurvives
<1>1. AofInv => ReplaySurvives
  <2>1. SUFFICES ASSUME AofInv, apc = "replay", at <= Len(File), ReplayDies(File[at])
                 PROVE  at = Len(File) /\ ~File[at].nl
    BY DEF ReplaySurvives
  <2>2. File \in Seq(Line) /\ Len(File) \in Nat /\ at \in 1 .. Len(File)
    BY <2>1, WholeLog DEF AofInv, AofTypeOK
  <2>3. WellFormed(File) /\ File[at] \in Line
    BY <2>1, <2>2, WholeLog DEF AofInv, FilesKnown
  <2>4. ~(made /\ mem = <<>>)
    BY <2>1 DEF AofInv, ReplayKnown
  <2>5. ~File[at].nl
    BY <2>1, <2>2, <2>3, <2>4 DEF ReplayDies, Replays, EnqueDies, DequeDies, WellFormed, Line
  <2>. QED  BY <2>2, <2>3, <2>5 DEF WellFormed
<1>. QED  BY <1>1, AofInvariant, PTL
=============================================================================
