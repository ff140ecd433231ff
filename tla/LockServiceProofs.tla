------------------------- MODULE LockServiceProofs --------------------------
(***************************************************************************)
(* Proofs about LockService, for any set of clients, blocks, lines and     *)
(* fills, any size of the hash table, whoever dies and however often the   *)
(* server is started again.                                                *)
(***************************************************************************)
EXTENDS LockService, CxlMemoryProofs, FiniteSetTheorems, SequenceTheorems

-----------------------------------------------------------------------------
(* hash_kv.c.                                                              *)

Chain == Seq([key : Block, value : Nat])
Index == 0 .. TableSize - 1

\* TypeOK and TableIsMap, of any table.
IsTable(T) ==
    /\ T \in [Index -> Chain]
    /\ \A i \in Index : \A m, n \in 1 .. Len(T[i]) :
          /\ HashFunction(T[i][m].key) = i
          /\ T[i][m].key = T[i][n].key => m = n

\* Every block has a chain.
LEMMA HashInTable ==
    ASSUME NEW k \in Block
    PROVE  HashFunction(k) \in Index
<1>1. k \in Nat /\ TableSize \in Nat \ {0}
  BY LockAssumption, TableAssumption
<1>. QED  BY <1>1 DEF HashFunction, Index

\* The first node of a key is its only node.
LEMMA FirstIsOnly ==
    ASSUME NEW c \in Chain, NEW k \in Block,
           \A m, n \in 1 .. Len(c) : c[m].key = c[n].key => m = n,
           NEW i \in NodesOf(c, k)
    PROVE  NodesOf(c, k) = {i} /\ First(NodesOf(c, k)) = i /\ i \in 1 .. Len(c)
<1>1. NodesOf(c, k) = {i} /\ i \in 1 .. Len(c)
  BY DEF NodesOf
<1>2. Len(c) \in Nat
  BY DEF Chain
<1>3. i \in Int
  BY <1>1, <1>2
<1>. QED  BY <1>1, <1>3 DEF First

\* getKeyValue finds the node of the key, if there is one.
LEMMA GetFinds ==
    ASSUME NEW T, IsTable(T), NEW k \in Block
    PROVE  /\ NodesOf(T[HashFunction(k)], k) = {} => GetKeyValue(T, k) = -1
           /\ \A i \in NodesOf(T[HashFunction(k)], k) :
                 GetKeyValue(T, k) = T[HashFunction(k)][i].value
           /\ GetKeyValue(T, k) \in Nat \cup {-1}
<1>. DEFINE c == T[HashFunction(k)]
<1>1. c \in Chain /\ \A m, n \in 1 .. Len(c) : c[m].key = c[n].key => m = n
  BY HashInTable DEF IsTable
<1>2. NodesOf(c, k) = {} => GetKeyValue(T, k) = -1
  BY DEF GetKeyValue
<1>3. ASSUME NEW i \in NodesOf(c, k)
      PROVE  GetKeyValue(T, k) = c[i].value /\ c[i].value \in Nat
  <2>1. NodesOf(c, k) # {} /\ First(NodesOf(c, k)) = i /\ i \in 1 .. Len(c)
    BY <1>1, FirstIsOnly
  <2>2. c[i] \in [key : Block, value : Nat]
    BY <1>1, <2>1, ElementOfSeq DEF Chain
  <2>. QED  BY <2>1, <2>2 DEF GetKeyValue
<1>. QED  BY <1>2, <1>3

\* setKeyValue changes what getKeyValue returns for its key, and nothing else;
\* it keeps one node per key.
LEMMA SetThenGet ==
    ASSUME NEW T, IsTable(T), NEW k \in Block, NEW v \in Nat
    PROVE  /\ IsTable(SetKeyValue(T, k, v))
           /\ GetKeyValue(SetKeyValue(T, k, v), k) = v
           /\ \A j \in Block \ {k} :
                 GetKeyValue(SetKeyValue(T, k, v), j) = GetKeyValue(T, j)
<1>. DEFINE h == HashFunction(k)
            c == T[h]
            S == SetKeyValue(T, k, v)
<1>1. /\ h \in Index /\ c \in Chain /\ T \in [Index -> Chain]
      /\ \A m, n \in 1 .. Len(c) : /\ HashFunction(c[m].key) = h
                                   /\ c[m].key = c[n].key => m = n
  BY HashInTable DEF IsTable
<1>2. Len(c) \in Nat /\ \A m \in 1 .. Len(c) : c[m] \in [key : Block, value : Nat]
  <2>1. c \in Seq([key : Block, value : Nat])
    BY <1>1 DEF Chain
  <2>. HIDE DEF c
  <2>2. Len(c) \in Nat
    BY <2>1
  <2>3. ASSUME NEW m \in 1 .. Len(c) PROVE c[m] \in [key : Block, value : Nat]
    BY ONLY <2>1, <2>3, ElementOfSeq
  <2>. QED  BY <2>2, <2>3
<1>3. CASE NodesOf(c, k) # {}
  <2>1. PICK i \in NodesOf(c, k) : TRUE
    BY <1>3
  <2>2. First(NodesOf(c, k)) = i /\ i \in 1 .. Len(c) /\ c[i].key = k
    BY <1>1, FirstIsOnly DEF NodesOf
  <2>. DEFINE d == [c EXCEPT ![i].value = v]
  <2>3. S = [T EXCEPT ![h] = d]
    BY <1>3, <2>2 DEF SetKeyValue
  <2>4. /\ d \in Chain /\ Len(d) = Len(c)
        /\ \A m \in 1 .. Len(c) : d[m].key = c[m].key
        /\ \A m \in 1 .. Len(c) : m # i => d[m].value = c[m].value
        /\ d[i].value = v
    BY <1>1, <1>2, <2>2 DEF Chain
  <2>. HIDE DEF d, S
  <2>5. /\ S \in [Index -> Chain] /\ S[h] = d
        /\ \A g \in Index : g # h => S[g] = T[g]
    BY <1>1, <2>3, <2>4
  <2>6. IsTable(S)
    BY <1>1, <2>4, <2>5 DEF IsTable
  <2>7. GetKeyValue(S, k) = v
    <3>1. i \in NodesOf(S[h], k)
      BY <2>2, <2>4, <2>5 DEF NodesOf
    <3>. QED  BY <2>4, <2>5, <2>6, <3>1, GetFinds
  <2>8. ASSUME NEW j \in Block \ {k} PROVE GetKeyValue(S, j) = GetKeyValue(T, j)
    <3>. DEFINE g == HashFunction(j)
    <3>1. g \in Index
      BY HashInTable
    <3>2. NodesOf(S[g], j) = NodesOf(T[g], j)
      BY <2>4, <2>5, <3>1 DEF NodesOf
    <3>3. \A m \in NodesOf(T[g], j) : S[g][m].value = T[g][m].value
      BY <2>2, <2>4, <2>5, <3>1 DEF NodesOf
    <3>. HIDE DEF g
    <3>4. CASE NodesOf(T[g], j) = {}
      BY <2>6, <3>2, <3>4, GetFinds DEF g
    <3>5. CASE NodesOf(T[g], j) # {}
      <4>1. PICK m \in NodesOf(T[g], j) : TRUE
        BY <3>5
      <4>2. GetKeyValue(T, j) = T[g][m].value
        BY <4>1, GetFinds DEF g
      <4>3. GetKeyValue(S, j) = S[g][m].value
        BY <2>6, <3>2, <4>1, GetFinds DEF g
      <4>. QED  BY <3>3, <4>1, <4>2, <4>3
    <3>. QED  BY <3>4, <3>5
  <2>. QED  BY <2>6, <2>7, <2>8 DEF S
<1>4. CASE NodesOf(c, k) = {}
  <2>. DEFINE e == Node(k, v)
              d == <<e>> \o c
  <2>1. e \in [key : Block, value : Nat] /\ e.key = k /\ e.value = v
    BY DEF Node
  <2>2. S = [T EXCEPT ![h] = d]
    BY <1>4 DEF SetKeyValue
  <2>. HIDE DEF e
  <2>3. /\ d \in Chain /\ Len(d) = Len(c) + 1 /\ d[1] = e
        /\ \A m \in 1 .. Len(c) : d[m + 1] = c[m]
        /\ \A m \in 2 .. Len(d) : m - 1 \in 1 .. Len(c) /\ d[m] = c[m - 1]
    BY <1>1, <1>2, <2>1 DEF Chain
  <2>. HIDE DEF d, S
  <2>4. /\ S \in [Index -> Chain] /\ S[h] = d
        /\ \A g \in Index : g # h => S[g] = T[g]
    BY <1>1, <2>2, <2>3
  <2>5. \A m \in 1 .. Len(c) : c[m].key # k
    BY <1>4 DEF NodesOf
  <2>6. \A m \in 1 .. Len(d) : m = 1 \/ (m - 1 \in 1 .. Len(c) /\ d[m] = c[m - 1])
    BY <1>2, <2>3
  <2>7. \A m, n \in 1 .. Len(d) : HashFunction(d[m].key) = h /\ (d[m].key = d[n].key => m = n)
    <3>. TAKE m, n \in 1 .. Len(d)
    <3>1. m \in Int /\ n \in Int
      BY <1>2, <2>3
    <3>2. HashFunction(d[m].key) = h
      <4>1. CASE m = 1
        BY <2>1, <2>3, <4>1
      <4>2. CASE m # 1
        <5>1. m - 1 \in 1 .. Len(c) /\ d[m] = c[m - 1]
          BY <2>6, <4>2
        <5>. QED  BY <1>1, <5>1
      <4>. QED  BY <4>1, <4>2
    <3>3. ASSUME d[m].key = d[n].key PROVE m = n
      <4>1. CASE m = 1 /\ n # 1
        BY <2>1, <2>3, <2>5, <2>6, <3>3, <4>1
      <4>2. CASE m # 1 /\ n = 1
        BY <2>1, <2>3, <2>5, <2>6, <3>3, <4>2
      <4>3. CASE m # 1 /\ n # 1
        <5>1. /\ m - 1 \in 1 .. Len(c) /\ d[m] = c[m - 1]
              /\ n - 1 \in 1 .. Len(c) /\ d[n] = c[n - 1]
          BY <2>6, <4>3
        <5>2. m - 1 = n - 1
          BY <1>1, <3>3, <5>1
        <5>. QED  BY <3>1, <5>2
      <4>. QED  BY <4>1, <4>2, <4>3
    <3>. QED  BY <3>2, <3>3
  <2>8. IsTable(S)
    <3>. SUFFICES ASSUME NEW g \in Index, NEW m \in 1 .. Len(S[g]), NEW n \in 1 .. Len(S[g])
                  PROVE  /\ HashFunction(S[g][m].key) = g
                         /\ S[g][m].key = S[g][n].key => m = n
      BY <2>4 DEF IsTable
    <3>1. CASE g = h
      BY <2>4, <2>7, <3>1
    <3>2. CASE g # h
      BY <2>4, <3>2 DEF IsTable
    <3>. QED  BY <3>1, <3>2
  <2>9. GetKeyValue(S, k) = v
    <3>1. 1 \in NodesOf(S[h], k)
      BY <1>2, <2>1, <2>3, <2>4 DEF NodesOf
    <3>. QED  BY <2>1, <2>3, <2>4, <2>8, <3>1, GetFinds
  <2>10. ASSUME NEW j \in Block \ {k} PROVE GetKeyValue(S, j) = GetKeyValue(T, j)
    <3>. DEFINE g == HashFunction(j)
    <3>1. g \in Index
      BY HashInTable
    <3>2. CASE g # h
      <4>1. S[g] = T[g]
        BY <2>4, <3>1, <3>2
      <4>2. CASE NodesOf(T[g], j) = {}
        BY <2>8, <4>1, <4>2, GetFinds
      <4>3. CASE NodesOf(T[g], j) # {}
        <5>1. PICK m \in NodesOf(T[g], j) : TRUE
          BY <4>3
        <5>. QED  BY <2>8, <4>1, <5>1, GetFinds
      <4>. QED  BY <4>2, <4>3
    <3>3. CASE g = h
      <4>1. \A m \in 1 .. Len(c) : m \in NodesOf(c, j) => m + 1 \in NodesOf(d, j)
        BY <1>2, <2>3 DEF NodesOf
      <4>2. ASSUME NodesOf(c, j) = {}, NEW m \in NodesOf(d, j) PROVE FALSE
        <5>1. m \in 1 .. Len(d) /\ d[m].key = j
          BY <4>2 DEF NodesOf
        <5>2. CASE m = 1
          BY <2>1, <2>3, <5>1, <5>2
        <5>3. CASE m # 1
          <6>1. m - 1 \in 1 .. Len(c) /\ d[m] = c[m - 1]
            BY <2>6, <5>1, <5>3
          <6>2. m - 1 \in NodesOf(c, j)
            BY <5>1, <6>1 DEF NodesOf
          <6>. QED  BY <4>2, <6>2
        <5>. QED  BY <5>2, <5>3
      <4>3. CASE NodesOf(c, j) = {}
        <5>1. GetKeyValue(T, j) = -1
          BY <3>3, <4>3, GetFinds
        <5>2. GetKeyValue(S, j) = -1
          BY <2>4, <2>8, <3>3, <4>2, <4>3, GetFinds
        <5>. QED  BY <5>1, <5>2
      <4>4. CASE NodesOf(c, j) # {}
        <5>1. PICK m \in NodesOf(c, j) : TRUE
          BY <4>4
        <5>2. m \in 1 .. Len(c)
          BY <5>1 DEF NodesOf
        <5>3. GetKeyValue(T, j) = c[m].value
          BY <3>3, <5>1, GetFinds
        <5>4. m + 1 \in NodesOf(S[h], j)
          BY <2>4, <4>1, <5>1, <5>2
        <5>5. GetKeyValue(S, j) = d[m + 1].value
          BY <2>4, <2>8, <3>3, <5>4, GetFinds
        <5>. QED  BY <2>3, <5>2, <5>3, <5>5
      <4>. QED  BY <4>3, <4>4
    <3>. QED  BY <3>2, <3>3
  <2>. QED  BY <2>8, <2>9, <2>10 DEF S
<1>. QED  BY <1>3, <1>4

-----------------------------------------------------------------------------
(* Messages.                                                               *)

\* A request carries its operation and its block; different ones are told
\* apart.
LEMMA RequestParts ==
    ASSUME NEW b \in Block, NEW op \in {RELEASE_LOCK, READ_LOCK, WRITE_LOCK}
    PROVE  /\ Request(b, op) \in Nat
           /\ Indicator(Request(b, op)) = op
           /\ BlockId(Request(b, op)) = b
<1>1. b \in Nat
  BY LockAssumption
<1>. QED  BY <1>1 DEF Request, Indicator, BlockId, RELEASE_LOCK, READ_LOCK, WRITE_LOCK

LEMMA AskIsOp ==
    ASSUME NEW c \in Client
    PROVE  /\ Ask(c) \in {READ_LOCK, WRITE_LOCK}
           /\ Ask(c) = WRITE_LOCK <=> c \in Writers
           /\ Ask(c) = READ_LOCK => c \in Readers
  BY DEF Ask, READ_LOCK, WRITE_LOCK, Client

\* A request is not a release.
LEMMA RequestNotRelease ==
    ASSUME NEW c \in Client, NEW x, IsRequest(c, x)
    PROVE  ~IsRelease(x) /\ x \in Nat
<1>1. PICK b \in Block : x = Request(b, Ask(c))
  BY DEF IsRequest
<1>2. Indicator(x) = Ask(c) /\ x \in Nat /\ Ask(c) # RELEASE_LOCK
  BY <1>1, RequestParts, AskIsOp DEF RELEASE_LOCK, READ_LOCK, WRITE_LOCK
<1>3. ASSUME IsRelease(x) PROVE FALSE
  <2>1. PICK d \in Block : x = Request(d, RELEASE_LOCK)
    BY <1>3 DEF IsRelease
  <2>. QED  BY <1>2, <2>1, RequestParts
<1>. QED  BY <1>2, <1>3

\* What a client has said depends on its own variables and grants only.
LEMMA OthersKeep ==
    ASSUME NEW d \in Client, Dialogue(d), HeldAsSaid(d),
           toServer'[d] = toServer[d], toClient'[d] = toClient[d],
           pc'[d] = pc[d], conn'[d] = conn[d], block'[d] = block[d],
           Held(d)' = Held(d)
    PROVE  Dialogue(d)' /\ HeldAsSaid(d)'
  BY DEF Dialogue, HeldAsSaid, InCS, Connected

\* A client that works on a block has a grant of it.
LEMMA InCSHolds ==
    ASSUME NEW c \in Client, Dialogue(c), HeldAsSaid(c), c \in Connected, InCS(c),
           block[c] \in Block
    PROVE  Held(c) = {block[c]} /\ c \in holders[block[c]]
<1>1. Held(c) = {block[c]}
  BY DEF Dialogue, HeldAsSaid, InCS
<1>. QED  BY <1>1 DEF Held

-----------------------------------------------------------------------------
(* Every step keeps LockInv.                                               *)

\* A step that leaves the table and the grants alone.
LEMMA TableKept ==
    ASSUME LockInv, UNCHANGED <<table, holders>>, MemInv', TypeOK',
           \A d \in Client : Dialogue(d)' /\ HeldAsSaid(d)'
    PROVE  LockInv'
<1>1. TableIsMap'
  BY DEF LockInv, TableIsMap
<1>2. \A b \in Block : Counted(b)'
  BY DEF LockInv, Accounting, Counted, LockValue
<1>3. ASSUME NEW c \in Connected', InCS(c)' PROVE c \in holders'[block'[c]]
  <2>1. /\ c \in Client /\ Dialogue(c)' /\ HeldAsSaid(c)'
        /\ block'[c] \in Block
    BY <1>3 DEF Connected, TypeOK
  <2>2. Held(c)' = {block'[c]}
    BY <1>3, <2>1 DEF Dialogue, HeldAsSaid, InCS
  <2>. QED  BY <2>2 DEF Held
<1>. QED  BY <1>1, <1>2, <1>3 DEF LockInv, Accounting, MemInv

LEMMA MemoryKept ==
    ASSUME LockInv, UNCHANGED memVars
    PROVE  MemInv'
  BY DEF LockInv, Accounting, TypeOK, MemInv, MemTypeOK, DirtyHasCopy, memVars

\* The server accepts or closes a connection.
LEMMA ConnStep ==
    ASSUME LockInv, NEW c \in Client, Accept(c) \/ CloseConn(c)
    PROVE  LockInv'
<1>. USE DEF serverVars, netVars, clientVars, history, memVars
<1>1. /\ UNCHANGED <<memVars, table, netVars, clientVars, history>>
      /\ conn' \in [Client -> {"new", "open", "closed", "lost"}]
      /\ \A d \in Client : d # c => conn'[d] = conn[d]
      /\ \/ conn[c] = "new" /\ pc[c] # "off" /\ conn'[c] = "open"
         \/ conn[c] = "open" /\ pc[c] = "dead" /\ toServer[c] = <<>> /\ conn'[c] = "closed"
  BY DEF Accept, CloseConn, LockInv, Accounting, TypeOK
<1>2. MemInv'
  BY <1>1, MemoryKept
<1>3. TypeOK'
  BY <1>1 DEF LockInv, Accounting, TypeOK, MemTypeOK
<1>4. ASSUME NEW d \in Client PROVE Dialogue(d)' /\ HeldAsSaid(d)'
  <2>1. Dialogue(d) /\ HeldAsSaid(d) /\ Held(d)' = Held(d)
    BY <1>1 DEF LockInv, Held
  <2>2. CASE d # c
    BY <1>1, <2>1, <2>2, OthersKeep
  <2>3. CASE d = c
    <3>1. Dialogue(d)'
      BY <1>1, <2>1, <2>3 DEF Dialogue, InCS
    <3>2. HeldAsSaid(d)'
      BY <1>1, <2>1, <2>3 DEF HeldAsSaid, InCS, Connected
    <3>. QED  BY <3>1, <3>2
  <2>. QED  BY <2>2, <2>3
<1>. QED  BY <1>1, <1>2, <1>3, <1>4, TableKept

\* A client connects, or chooses its next block.
LEMMA SelectStep ==
    ASSUME LockInv, NEW c \in Client,
           \/ Connect(c)
           \/ \E b \in Block, v \in Content : SelectWrite(c, b, v)
           \/ \E b \in Block : SelectRead(c, b)
    PROVE  LockInv'
<1>. USE DEF serverVars, netVars, clientVars, history, memVars
<1>0. TypeOK
  BY DEF LockInv, Accounting
<1>1. /\ UNCHANGED <<memVars, serverVars, netVars, lock, got, todo, history>>
      /\ \/ pc[c] = "off" /\ pc' = [pc EXCEPT ![c] = "select"] /\ UNCHANGED <<block, source>>
         \/ /\ pc[c] = "select" /\ pc' = [pc EXCEPT ![c] = "send"]
            /\ \E b \in Block : block' = [block EXCEPT ![c] = b]
            /\ source' = source \/ \E v \in Content : source' = [source EXCEPT ![c] = v]
  BY DEF Connect, SelectWrite, SelectRead, Goto
<1>2. MemInv'
  BY <1>1, MemoryKept
<1>3. TypeOK' /\ (\A d \in Client : d # c => pc'[d] = pc[d] /\ block'[d] = block[d])
  <2>1. Content \subseteq Value
    BY LockAssumption
  <2>2. pc' \in [Client -> {"off", "select", "send", "wait", "copy", "flush",
                            "drop", "read", "release", "dead"}]
    BY <1>0, <1>1 DEF TypeOK
  <2>3. block' \in [Client -> Block] /\ source' \in [Client -> Value]
    <3>1. block \in [Client -> Block] /\ source \in [Client -> Value]
      BY <1>0 DEF TypeOK
    <3>2. block' = block \/ \E b \in Block : block' = [block EXCEPT ![c] = b]
      BY <1>1
    <3>3. source' = source \/ \E v \in Value : source' = [source EXCEPT ![c] = v]
      BY <1>1, <2>1
    <3>4. block' \in [Client -> Block]
      BY ONLY <3>1, <3>2, c \in Client
    <3>5. source' \in [Client -> Value]
      BY ONLY <3>1, <3>3, c \in Client
    <3>. QED  BY <3>4, <3>5
  <2>4. \A d \in Client : d # c => pc'[d] = pc[d] /\ block'[d] = block[d]
    BY <1>0, <1>1 DEF TypeOK
  <2>. QED  BY <1>0, <1>1, <2>2, <2>3, <2>4 DEF TypeOK, MemTypeOK
<1>4. ASSUME NEW d \in Client PROVE Dialogue(d)' /\ HeldAsSaid(d)'
  <2>1. Dialogue(d) /\ HeldAsSaid(d) /\ Held(d)' = Held(d)
    BY <1>1 DEF LockInv, Held
  <2>2. CASE d # c
    BY <1>1, <1>3, <2>1, <2>2, OthersKeep
  <2>3. CASE d = c
    <3>0. \/ pc[c] = "off" /\ pc'[c] = "select"
          \/ pc[c] = "select" /\ pc'[c] = "send"
      BY <1>0, <1>1 DEF TypeOK
    <3>1. Dialogue(d)'
      BY <1>1, <2>1, <2>3, <3>0 DEF Dialogue, InCS
    <3>2. HeldAsSaid(d)'
      BY <1>1, <2>1, <2>3, <3>0 DEF HeldAsSaid, InCS, Connected
    <3>. QED  BY <3>1, <3>2
  <2>. QED  BY <2>2, <2>3
<1>. QED  BY <1>1, <1>2, <1>3, <1>4, TableKept

\* What appending a message does.
LEMMA AppendOne ==
    ASSUME NEW s \in Seq(Nat), NEW x \in Nat, Len(s) <= 1
    PROVE  /\ Append(s, x) \in Seq(Nat) /\ Append(s, x) # <<>>
           /\ Len(Append(s, x)) = Len(s) + 1 /\ Append(s, x)[Len(s) + 1] = x
           /\ s = <<>> => Len(s) = 0
           /\ s # <<>> => Len(s) = 1 /\ Append(s, x)[1] = s[1]
<1>1. Append(s, x) \in Seq(Nat) /\ Len(Append(s, x)) = Len(s) + 1
  OBVIOUS
<1>2. Append(s, x)[Len(s) + 1] = x
  OBVIOUS
<1>3. Append(s, x) # <<>>
  BY <1>1
<1>4. s = <<>> => Len(s) = 0
  OBVIOUS
<1>5. s # <<>> => Len(s) = 1
  <2>. HAVE s # <<>>
  <2>. DEFINE n == Len(s)
  <2>1. n \in Nat \ {0} /\ n <= 1
    BY EmptySeq
  <2>. HIDE DEF n
  <2>2. n = 1
    BY <2>1
  <2>. QED  BY <2>2 DEF n
<1>6. Len(s) = 1 => Append(s, x)[1] = s[1]
  OBVIOUS
<1>. QED  BY <1>1, <1>2, <1>3, <1>4, <1>5, <1>6

\* One element of an array is assigned.
LEMMA Assigned ==
    ASSUME NEW D, NEW S, NEW f \in [D -> S], NEW d \in D, NEW v \in S
    PROVE  /\ [f EXCEPT ![d] = v] \in [D -> S] /\ [f EXCEPT ![d] = v][d] = v
           /\ \A e \in D : e # d => [f EXCEPT ![d] = v][e] = f[e]
  OBVIOUS

\* A client sends a request, or releases its lock.
LEMMA SendStep ==
    ASSUME LockInv, NEW c \in Client, SendLock(c) \/ Release(c)
    PROVE  LockInv'
<1>. USE DEF serverVars, netVars, clientVars, history, memVars
<1>. DEFINE s == toServer[c]
            x == Request(block[c], IF pc[c] = "send" THEN Ask(c) ELSE RELEASE_LOCK)
<1>0. TypeOK /\ Dialogue(c) /\ HeldAsSaid(c) /\ block[c] \in Block /\ s \in Seq(Nat)
  BY DEF LockInv, Accounting, TypeOK
<1>1. x \in Nat
  BY <1>0, RequestParts, AskIsOp
<1>2. /\ UNCHANGED <<memVars, serverVars, toClient, block, todo, history>>
      /\ \/ pc[c] = "send" /\ pc' = [pc EXCEPT ![c] = "wait"]
         \/ pc[c] = "release" /\ pc' = [pc EXCEPT ![c] = "select"]
      /\ toServer' = IF conn[c] = "lost" THEN toServer ELSE [toServer EXCEPT ![c] = Append(s, x)]
      /\ lock' = [lock EXCEPT ![c] = x]
      /\ \/ UNCHANGED <<source, got>>
         \/ /\ source' = [source EXCEPT ![c] = Junk]
            /\ got' = [got EXCEPT ![c] = [p \in Part |-> Junk]]
  BY DEF SendLock, Release, Send, Goto, Ask
<1>3. /\ pc[c] \in {"send", "release"} /\ toClient[c] = <<>> /\ Len(s) <= 1
      /\ s # <<>> => pc[c] = "send" /\ IsRelease(s[1])
      /\ conn[c] # "closed"
  BY <1>0, <1>2 DEF Dialogue, InCS
<1>4. /\ Append(s, x) \in Seq(Nat) /\ Append(s, x) # <<>>
      /\ Len(Append(s, x)) = Len(s) + 1 /\ Append(s, x)[Len(s) + 1] = x
      /\ s = <<>> => Len(s) = 0
      /\ s # <<>> => Len(s) = 1 /\ Append(s, x)[1] = s[1]
  BY <1>0, <1>1, <1>3, AppendOne
<1>. HIDE DEF x
<1>5. MemInv'
  BY <1>2, MemoryKept
<1>6. /\ pc' \in [Client -> {"off", "select", "send", "wait", "copy", "flush",
                             "drop", "read", "release", "dead"}]
      /\ \A d \in Client : d # c => pc'[d] = pc[d] /\ toServer'[d] = toServer[d]
      /\ (pc[c] = "send" /\ pc'[c] = "wait") \/ (pc[c] = "release" /\ pc'[c] = "select")
      /\ toServer' \in [Client -> Seq(Nat)]
      /\ toServer'[c] = IF conn[c] = "lost" THEN s ELSE Append(s, x)
  <2>1. /\ pc \in [Client -> {"off", "select", "send", "wait", "copy", "flush",
                              "drop", "read", "release", "dead"}]
        /\ toServer \in [Client -> Seq(Nat)]
    BY <1>0 DEF TypeOK
  <2>2. /\ pc' \in [Client -> {"off", "select", "send", "wait", "copy", "flush",
                               "drop", "read", "release", "dead"}]
        /\ \A d \in Client : d # c => pc'[d] = pc[d]
        /\ (pc[c] = "send" /\ pc'[c] = "wait") \/ (pc[c] = "release" /\ pc'[c] = "select")
    <3>1. CASE pc[c] = "send" /\ pc' = [pc EXCEPT ![c] = "wait"]
      BY ONLY <2>1, <3>1, c \in Client
    <3>2. CASE pc[c] = "release" /\ pc' = [pc EXCEPT ![c] = "select"]
      BY ONLY <2>1, <3>2, c \in Client
    <3>. QED  BY <1>2, <3>1, <3>2
  <2>3. CASE conn[c] = "lost"
    BY <1>2, <2>1, <2>2, <2>3
  <2>4. CASE conn[c] # "lost"
    <3>1. toServer' = [toServer EXCEPT ![c] = Append(s, x)]
      BY <1>2, <2>4
    <3>2. /\ toServer' \in [Client -> Seq(Nat)] /\ toServer'[c] = Append(s, x)
          /\ \A d \in Client : d # c => toServer'[d] = toServer[d]
      BY ONLY <1>4, <2>1, <3>1, c \in Client, Assigned
    <3>. QED  BY <2>2, <2>4, <3>2
  <2>. QED  BY <2>3, <2>4
<1>7. TypeOK'
  <2>1. lock' \in [Client -> Nat]
    BY <1>0, <1>1, <1>2 DEF TypeOK
  <2>2. source' \in [Client -> Value] /\ got' \in [Client -> [Part -> Value]]
    <3>1. Junk \in Value
      BY LockAssumption
    <3>2. source \in [Client -> Value] /\ got \in [Client -> [Part -> Value]]
      BY <1>0 DEF TypeOK
    <3>3. CASE UNCHANGED <<source, got>>
      BY <3>2, <3>3
    <3>4. CASE /\ source' = [source EXCEPT ![c] = Junk]
               /\ got' = [got EXCEPT ![c] = [p \in Part |-> Junk]]
      BY <3>1, <3>2, <3>4
    <3>. QED  BY <1>2, <3>3, <3>4
  <2>3. \A d \in Client : Len(toServer'[d]) <= 2 /\ Len(toClient'[d]) <= 1
    BY <1>0, <1>2, <1>3, <1>4, <1>6 DEF TypeOK
  <2>. QED  BY <1>0, <1>2, <1>6, <2>1, <2>2, <2>3 DEF TypeOK, MemTypeOK
<1>8. ASSUME NEW d \in Client PROVE Dialogue(d)' /\ HeldAsSaid(d)'
  <2>1. Dialogue(d) /\ HeldAsSaid(d) /\ Held(d)' = Held(d)
    BY <1>2 DEF LockInv, Held
  <2>2. CASE d # c
    BY <1>2, <1>6, <2>1, <2>2, OthersKeep
  <2>3. CASE d = c /\ conn[c] = "lost"
    <3>1. toServer'[c] = <<>>
      BY <1>0, <1>6, <2>3 DEF Dialogue
    <3>2. Dialogue(c)'
      BY <1>0, <1>2, <1>3, <1>6, <2>3, <3>1 DEF Dialogue, InCS, Outstanding
    <3>3. HeldAsSaid(c)'
      BY <1>0, <1>2, <1>6, <2>1, <2>3, <3>1 DEF HeldAsSaid, Connected
    <3>. QED  BY <2>3, <3>2, <3>3
  <2>4. CASE d = c /\ conn[c] # "lost" /\ pc[c] = "send"
    <3>1. x = Request(block[c], Ask(c)) /\ IsRequest(c, x) /\ ~IsRelease(x)
      BY <1>0, <2>4, RequestNotRelease DEF x, IsRequest
    <3>2. toServer'[c] = Append(s, x) /\ pc'[c] = "wait"
      BY <1>6, <2>4
    <3>3. Outstanding(c, toServer'[c])
      BY <1>3, <1>4, <3>1, <3>2 DEF Outstanding
    <3>4. Dialogue(c)'
      BY <1>2, <1>3, <1>4, <2>4, <3>1, <3>2, <3>3 DEF Dialogue, InCS
    <3>5. Held(c) = {b \in Block : toServer'[c][1] = Request(b, RELEASE_LOCK)}
      <4>1. CASE s = <<>>
        <5>1. Held(c) = {}
          BY <1>0, <1>2, <1>3, <2>4, <4>1 DEF HeldAsSaid, InCS, Connected, TypeOK
        <5>2. toServer'[c][1] = x
          BY <1>4, <3>2, <4>1
        <5>. QED  BY <3>1, <5>1, <5>2 DEF IsRelease
      <4>2. CASE s # <<>>
        BY <1>0, <1>4, <3>2, <4>2 DEF HeldAsSaid
      <4>. QED  BY <4>1, <4>2
    <3>6. HeldAsSaid(c)'
      BY <1>0, <1>2, <1>4, <2>1, <2>4, <3>2, <3>5 DEF HeldAsSaid
    <3>. QED  BY <2>4, <3>4, <3>6
  <2>5. CASE d = c /\ conn[c] # "lost" /\ pc[c] = "release"
    <3>1. x = Request(block[c], RELEASE_LOCK) /\ IsRelease(x)
      BY <1>0, <2>5 DEF x, IsRelease
    <3>2. toServer'[c] = Append(s, x) /\ pc'[c] = "select" /\ s = <<>>
      BY <1>3, <1>6, <2>5
    <3>3. Len(toServer'[c]) = 1 /\ toServer'[c][1] = x /\ toServer'[c] # <<>>
      BY <1>4, <3>2
    <3>4. Dialogue(c)'
      BY <1>2, <1>3, <2>5, <3>1, <3>2, <3>3 DEF Dialogue, Outstanding, InCS
    <3>5. Held(c) = {block[c]}
      BY <1>0, <1>3, <2>5, <3>2 DEF HeldAsSaid, InCS, Connected, TypeOK
    <3>6. {b \in Block : x = Request(b, RELEASE_LOCK)} = {block[c]}
      <4>1. ASSUME NEW b \in Block, x = Request(b, RELEASE_LOCK) PROVE b = block[c]
        BY <1>0, <3>1, <4>1, RequestParts
      <4>. QED  BY <1>0, <3>1, <4>1
    <3>7. HeldAsSaid(c)'
      BY <1>0, <1>2, <2>1, <2>5, <3>3, <3>5, <3>6 DEF HeldAsSaid
    <3>. QED  BY <2>5, <3>4, <3>7
  <2>. QED  BY <1>3, <2>2, <2>3, <2>4, <2>5
<1>. QED  BY <1>2, <1>5, <1>7, <1>8, TableKept

\* The only answer that is under way.
LEMMA OneAnswer ==
    ASSUME NEW s \in Seq({0, 1}), Len(s) <= 1, s # <<>>
    PROVE  Tail(s) = <<>> /\ Head(s) \in {0, 1} /\ s = <<Head(s)>>
<1>. DEFINE n == Len(s)
<1>1. n \in Nat \ {0} /\ n <= 1
  BY EmptySeq
<1>. HIDE DEF n
<1>2. n = 1
  BY <1>1
<1>3. Len(s) = 1
  BY <1>2 DEF n
<1>4. Head(s) \in {0, 1} /\ Head(s) = s[1]
  BY <1>3
<1>5. s = <<s[1]>>
  <2>. DEFINE t == <<s[1]>>
  <2>1. t \in Seq({0, 1}) /\ Len(t) = 1 /\ t[1] = s[1]
    BY <1>4
  <2>2. \A i \in 1 .. Len(s) : s[i] = t[i]
    BY <1>3, <2>1
  <2>. HIDE DEF t
  <2>3. s = t
    BY <1>3, <2>1, <2>2, SeqEqual
  <2>. QED  BY <2>3 DEF t
<1>6. Tail(s) = <<>>
  <2>. DEFINE t == Tail(s)
  <2>1. t \in Seq({0, 1}) /\ Len(t) = 0
    BY <1>3, HeadTailProperties
  <2>. HIDE DEF t
  <2>2. t = <<>>
    BY <2>1, EmptySeq
  <2>. QED  BY <2>2 DEF t
<1>. QED  BY <1>4, <1>5, <1>6

\* A client receives the answer, or read() fails.
LEMMA ReceiveStep ==
    ASSUME LockInv, NEW c \in Client, ReceiveLock(c)
    PROVE  LockInv'
<1>. USE DEF serverVars, netVars, clientVars, history, memVars
<1>. DEFINE a == toClient[c]
            CS == IF c \in Writers THEN "copy" ELSE "drop"
<1>0. TypeOK /\ Dialogue(c) /\ HeldAsSaid(c) /\ block[c] \in Block
  BY DEF LockInv, Accounting, TypeOK
<1>1. /\ a \in Seq({0, 1}) /\ Len(a) <= 1 /\ pc[c] = "wait"
      /\ UNCHANGED <<memVars, serverVars, toServer, block, source, got, history>>
  BY <1>0 DEF TypeOK, ReceiveLock
<1>2. MemInv'
  BY <1>1, MemoryKept
<1>3. /\ toClient' \in [Client -> Seq({0, 1})] /\ lock' \in [Client -> Nat]
      /\ toClient'[c] = <<>>
      /\ \A d \in Client : d # c => toClient'[d] = toClient[d]
      /\ lock'[c] = 1 /\ conn[c] # "lost" => a = <<1>> /\ toServer[c] = <<>>
      /\ lock'[c] # 1 /\ conn[c] # "lost" => a # <<1>> /\ toServer[c] = <<>>
  <2>1. toClient \in [Client -> Seq({0, 1})] /\ lock \in [Client -> Nat]
    BY <1>0 DEF TypeOK
  <2>2. CASE a # <<>>
    <3>1. /\ toClient' = [toClient EXCEPT ![c] = Tail(a)]
          /\ lock' = [lock EXCEPT ![c] = Head(a)]
      BY <2>2 DEF ReceiveLock
    <3>2. Tail(a) = <<>> /\ Head(a) \in {0, 1} /\ a = <<Head(a)>>
      BY <1>1, <2>2, OneAnswer
    <3>3. conn[c] # "lost" => toServer[c] = <<>>
      BY <1>0, <1>1, <2>2 DEF Dialogue
    <3>. DEFINE t == Tail(a)
                x == Head(a)
    <3>4. t \in Seq({0, 1}) /\ x \in Nat
      <4>1. t \in Seq({0, 1})
        BY <3>2, EmptySeq, Zenon
      <4>2. x \in Nat
        BY ONLY <3>2
      <4>. QED  BY <4>1, <4>2
    <3>. HIDE DEF t, x
    <3>5. /\ toClient' \in [Client -> Seq({0, 1})] /\ toClient'[c] = t
          /\ \A d \in Client : d # c => toClient'[d] = toClient[d]
      BY <2>1, <3>1, <3>4, Assigned DEF t
    <3>6. lock' \in [Client -> Nat] /\ lock'[c] = x
      BY <2>1, <3>1, <3>4, Assigned DEF x
    <3>7. x = 1 => a = <<1>>
      BY <3>2 DEF x
    <3>8. x # 1 => a # <<1>>
      BY <3>2 DEF x
    <3>. QED  BY <3>2, <3>3, <3>5, <3>6, <3>7, <3>8 DEF t
  <2>3. CASE a = <<>>
    BY <2>1, <2>3 DEF ReceiveLock
  <2>. QED  BY <2>2, <2>3
<1>4. /\ pc' \in [Client -> {"off", "select", "send", "wait", "copy", "flush",
                             "drop", "read", "release", "dead"}]
      /\ \A d \in Client : d # c => pc'[d] = pc[d]
      /\ lock'[c] = 1 => pc'[c] = CS
      /\ lock'[c] # 1 => pc'[c] = "send"
      /\ todo' \in [Client -> SUBSET Part]
  <2>1. /\ pc \in [Client -> {"off", "select", "send", "wait", "copy", "flush",
                              "drop", "read", "release", "dead"}]
        /\ todo \in [Client -> SUBSET Part]
    BY <1>0 DEF TypeOK
  <2>2. CASE lock'[c] = 1
    <3>1. pc' = [pc EXCEPT ![c] = CS] /\ todo' = [todo EXCEPT ![c] = Part]
      BY <2>2 DEF ReceiveLock, Goto
    <3>2. CS \in {"copy", "drop"}
      OBVIOUS
    <3>. HIDE DEF CS
    <3>. QED  BY ONLY <2>1, <2>2, <3>1, <3>2, c \in Client
  <2>3. CASE lock'[c] # 1
    <3>1. pc' = [pc EXCEPT ![c] = "send"] /\ todo' = todo
      BY <2>3 DEF ReceiveLock, Goto
    <3>. QED  BY ONLY <2>1, <2>3, <3>1, c \in Client
  <2>. QED  BY <2>2, <2>3
<1>5. TypeOK'
  <2>1. ASSUME NEW d \in Client PROVE Len(toServer'[d]) <= 2 /\ Len(toClient'[d]) <= 1
    <3>1. Len(toServer[d]) <= 2 /\ Len(toClient[d]) <= 1
      BY <1>0 DEF TypeOK
    <3>2. CASE d = c
      <4>1. Len(toClient'[c]) = 0
        BY <1>3
      <4>. QED  BY <1>1, <3>1, <3>2, <4>1
    <3>. QED  BY <1>1, <1>3, <3>1, <3>2
  <2>. QED  BY <1>0, <1>1, <1>3, <1>4, <2>1 DEF TypeOK, MemTypeOK
<1>6. ASSUME NEW d \in Client PROVE Dialogue(d)' /\ HeldAsSaid(d)'
  <2>1. Dialogue(d) /\ HeldAsSaid(d) /\ Held(d)' = Held(d)
    BY <1>1 DEF LockInv, Held
  <2>2. CASE d # c
    BY <1>1, <1>3, <1>4, <2>1, <2>2, OthersKeep
  <2>3. CASE d = c /\ conn[c] = "lost"
    <3>1. toServer[c] = <<>> /\ Held(c) = {}
      BY <1>0, <2>3 DEF Dialogue, HeldAsSaid
    <3>2. Dialogue(c)'
      BY <1>1, <1>3, <1>4, <2>3, <3>1 DEF Dialogue, InCS, Outstanding, Client
    <3>3. HeldAsSaid(c)'
      BY <1>1, <2>1, <2>3, <3>1 DEF HeldAsSaid, Connected
    <3>. QED  BY <2>3, <3>2, <3>3
  <2>4. CASE d = c /\ conn[c] # "lost"
    <3>1. toServer[c] = <<>> /\ conn[c] \in {"new", "open"}
      BY <1>0, <1>1, <1>3, <2>4 DEF Dialogue, TypeOK
    <3>2. Held(c) = IF lock'[c] = 1 THEN {block[c]} ELSE {}
      BY <1>0, <1>1, <1>3, <2>4, <3>1 DEF HeldAsSaid, InCS, Connected
    <3>3. Dialogue(c)'
      BY <1>1, <1>3, <1>4, <2>4, <3>1 DEF Dialogue, InCS, Outstanding, Client
    <3>4. HeldAsSaid(c)'
      BY <1>0, <1>1, <1>3, <1>4, <2>1, <2>4, <3>1, <3>2 DEF HeldAsSaid, Connected, InCS
    <3>. QED  BY <2>4, <3>3, <3>4
  <2>. QED  BY <2>2, <2>3, <2>4
<1>. QED  BY <1>1, <1>2, <1>5, <1>6, TableKept

\* A step of a client that has its lock, and keeps it.
LEMMA CSKept ==
    ASSUME LockInv, NEW c \in Client, InCS(c),
           UNCHANGED <<serverVars, netVars, block, lock, holders>>, MemInv',
           NEW l \in {"copy", "flush", "drop", "read", "release"},
           pc' = [pc EXCEPT ![c] = l],
           l \in {"copy", "flush"} => c \in Writers,
           l \in {"drop", "read"} => c \in Readers,
           source' \in [Client -> Value], got' \in [Client -> [Part -> Value]],
           todo' \in [Client -> SUBSET Part], last' \in [Block -> Value]
    PROVE  LockInv'
<1>. USE DEF serverVars, netVars
<1>0. TypeOK
  BY DEF LockInv, Accounting
<1>1. /\ pc' \in [Client -> {"off", "select", "send", "wait", "copy", "flush",
                             "drop", "read", "release", "dead"}]
      /\ pc'[c] = l
      /\ \A d \in Client : d # c => pc'[d] = pc[d]
  <2>1. pc \in [Client -> {"off", "select", "send", "wait", "copy", "flush",
                           "drop", "read", "release", "dead"}]
    BY <1>0 DEF TypeOK
  <2>. QED  BY ONLY <2>1, c \in Client, pc' = [pc EXCEPT ![c] = l],
                    l \in {"copy", "flush", "drop", "read", "release"}
<1>2. TypeOK'
  BY <1>0, <1>1 DEF TypeOK, MemInv
<1>3. ASSUME NEW d \in Client PROVE Dialogue(d)' /\ HeldAsSaid(d)'
  <2>1. Dialogue(d) /\ HeldAsSaid(d) /\ Held(d)' = Held(d)
    BY DEF LockInv, Held
  <2>2. CASE d # c
    BY <1>1, <2>1, <2>2, OthersKeep
  <2>3. CASE d = c
    <3>1. Dialogue(d)'
      BY <1>1, <2>1, <2>3 DEF Dialogue, InCS
    <3>2. HeldAsSaid(d)'
      BY <1>1, <2>1, <2>3 DEF HeldAsSaid, InCS, Connected
    <3>. QED  BY <3>1, <3>2
  <2>. QED  BY <2>2, <2>3
<1>. QED  BY <1>2, <1>3, TableKept

\* The lines of a block are lines of the memory.
LEMMA LineOfBlock ==
    ASSUME NEW b \in Block, NEW p \in Part
    PROVE  <<b, p>> \in Line /\ <<b, p>> \in LinesOf(b)
  BY LockAssumption DEF LinesOf

\* A writer copies and flushes its block; a reader drops its stale copies and
\* reads.
LEMMA WorkStep ==
    ASSUME LockInv, NEW c \in Client,
           \/ \E p \in Part : CopyPart(c, p) \/ ReadPart(c, p)
           \/ FlushBlock(c) \/ DropStale(c)
    PROVE  LockInv'
<1>. USE DEF serverVars, netVars, clientVars, history, Goto
<1>0. /\ TypeOK /\ MemInv /\ Dialogue(c)
      /\ block[c] \in Block /\ source[c] \in Value /\ c \in Host
  BY LockAssumption DEF LockInv, Accounting, TypeOK, MemInv
<1>1. /\ source \in [Client -> Value] /\ got \in [Client -> [Part -> Value]]
      /\ todo \in [Client -> SUBSET Part] /\ last \in [Block -> Value]
  BY <1>0 DEF TypeOK
<1>2. ASSUME NEW p \in Part, CopyPart(c, p) PROVE LockInv'
  <2>. DEFINE l == IF todo'[c] = {} THEN "flush" ELSE "copy"
  <2>1. MemInv'
    <3>1. <<block[c], p>> \in Line /\ Store(c, <<block[c], p>>, source[c])
      BY <1>0, <1>2, LineOfBlock DEF CopyPart
    <3>. QED  BY <1>0, <3>1, StoreEffect
  <2>2. InCS(c) /\ c \in Writers
    BY <1>0, <1>2 DEF CopyPart, InCS, Dialogue
  <2>3. todo' \in [Client -> SUBSET Part]
    BY <1>1, <1>2 DEF CopyPart
  <2>4. /\ pc' = [pc EXCEPT ![c] = l] /\ l \in {"copy", "flush"}
        /\ UNCHANGED <<serverVars, netVars, block, lock, source, got, history>>
    BY <1>2 DEF CopyPart
  <2>. HIDE DEF l
  <2>. QED  BY <1>1, <2>1, <2>2, <2>3, <2>4, CSKept
<1>3. ASSUME NEW p \in Part, ReadPart(c, p) PROVE LockInv'
  <2>. DEFINE l == IF todo'[c] = {} THEN "release" ELSE "read"
              k == <<block[c], p>>
  <2>1. MemInv' /\ Sees(c, k) \in Value
    <3>1. k \in Line /\ Load(c, k)
      BY <1>0, <1>3, LineOfBlock DEF ReadPart
    <3>. QED  BY <1>0, <3>1, LoadEffect, SeesValue
  <2>2. InCS(c) /\ c \in Readers
    BY <1>0, <1>3 DEF ReadPart, InCS, Dialogue
  <2>3. todo' \in [Client -> SUBSET Part] /\ got' \in [Client -> [Part -> Value]]
    <3>. DEFINE v == Sees(c, k)
    <3>1. got' = [got EXCEPT ![c][p] = v] /\ todo' = [todo EXCEPT ![c] = @ \ {p}]
      BY <1>3 DEF ReadPart
    <3>2. v \in Value
      BY <2>1
    <3>. HIDE DEF v
    <3>. QED  BY <1>1, <3>1, <3>2
  <2>4. /\ pc' = [pc EXCEPT ![c] = l] /\ l \in {"read", "release"}
        /\ UNCHANGED <<serverVars, netVars, block, lock, source, history>>
    BY <1>3 DEF ReadPart
  <2>. HIDE DEF l
  <2>. QED  BY <1>1, <2>1, <2>2, <2>3, <2>4, CSKept
<1>4. ASSUME FlushBlock(c) PROVE LockInv'
  <2>1. MemInv'
    BY <1>0, <1>4, FlushEffect DEF FlushBlock
  <2>2. last' \in [Block -> Value]
    BY <1>0, <1>1, <1>4 DEF FlushBlock
  <2>3. /\ pc' = [pc EXCEPT ![c] = "release"] /\ InCS(c)
        /\ UNCHANGED <<serverVars, netVars, block, lock, source, got, todo, holders>>
    BY <1>4 DEF FlushBlock, InCS
  <2>. QED  BY <1>1, <2>1, <2>2, <2>3, CSKept
<1>5. ASSUME DropStale(c) PROVE LockInv'
  <2>1. MemInv'
    BY <1>0, <1>5, FlushEffect DEF DropStale
  <2>2. /\ pc' = [pc EXCEPT ![c] = "read"] /\ InCS(c) /\ c \in Readers
        /\ UNCHANGED <<serverVars, netVars, block, lock, source, got, todo, history>>
    BY <1>0, <1>5 DEF DropStale, InCS, Dialogue
  <2>. QED  BY <1>1, <2>1, <2>2, CSKept
<1>. QED  BY <1>2, <1>3, <1>4, <1>5

\* The number that counts a set of grants, as Counted says it.
CountedAs(v, H) ==
    \/ v \in {-1, 0} /\ H = {}
    \/ v = 1 /\ \E w \in Writers : H = {w}
    \/ v > 1 /\ H \subseteq Readers /\ v = 2 * Cardinality(H)

\* Sets of clients are counted.
LEMMA ClientsCounted ==
    ASSUME NEW H \in SUBSET Client, NEW c \in Client
    PROVE  /\ Cardinality(H) \in Nat
           /\ Cardinality(H) = 0 => H = {}
           /\ c \notin H => Cardinality(H \cup {c}) = Cardinality(H) + 1
           /\ c \in H => Cardinality(H \ {c}) = Cardinality(H) - 1
<1>1. IsFiniteSet(H)
  BY LockAssumption, FS_Subset
<1>. QED  BY <1>1, FS_CardinalityType, FS_EmptySet, FS_AddElement, FS_RemoveElement

\* The arithmetic of handle_lock counts one grant more, or one less.
LEMMA GrantArithmetic ==
    ASSUME NEW H \in SUBSET Client, NEW c \in Client, NEW v \in Nat \cup {-1},
           CountedAs(v, H)
    PROVE  /\ v \in {-1, 0} /\ c \in Writers => CountedAs(1, H \cup {c})
           /\ v \notin {-1, 1} /\ c \in Readers /\ c \notin H =>
                 /\ ((v \div 2) + 1) * 2 \in Nat
                 /\ CountedAs(((v \div 2) + 1) * 2, H \cup {c})
           /\ c \in H => v \notin {-1, 0}
           /\ v = 1 /\ c \in H => CountedAs(0, H \ {c})
           /\ v \notin {-1, 0, 1} /\ c \in H =>
                 /\ ((v \div 2) - 1) * 2 \in Nat
                 /\ CountedAs(((v \div 2) - 1) * 2, H \ {c})
<1>. DEFINE n == Cardinality(H)
<1>1. n \in Nat
  BY ClientsCounted
<1>2. ASSUME v \in {-1, 0}, c \in Writers PROVE CountedAs(1, H \cup {c})
  <2>1. H \cup {c} = {c}
    BY <1>2 DEF CountedAs
  <2>. QED  BY <1>2, <2>1 DEF CountedAs
<1>3. ASSUME v \notin {-1, 1}, c \in Readers, c \notin H
      PROVE  /\ ((v \div 2) + 1) * 2 \in Nat
             /\ CountedAs(((v \div 2) + 1) * 2, H \cup {c})
  <2>1. v \in Nat /\ v = 2 * n /\ H \subseteq Readers
    <3>1. CASE v = 0
      <4>1. H = {}
        BY <3>1 DEF CountedAs
      <4>. QED  BY <3>1, <4>1, FS_EmptySet
    <3>2. CASE v # 0
      BY <1>3, <3>2 DEF CountedAs
    <3>. QED  BY <3>1, <3>2
  <2>. HIDE DEF n
  <2>2. ((v \div 2) + 1) * 2 = 2 * (n + 1) /\ 2 * (n + 1) \in Nat /\ 2 * (n + 1) > 1
    BY <1>1, <2>1
  <2>3. Cardinality(H \cup {c}) = n + 1 /\ H \cup {c} \subseteq Readers
    BY <1>3, <2>1, ClientsCounted DEF n
  <2>. QED  BY <2>2, <2>3 DEF CountedAs
<1>4. ASSUME c \in H PROVE v \notin {-1, 0}
  BY <1>4 DEF CountedAs
<1>5. ASSUME v = 1, c \in H PROVE CountedAs(0, H \ {c})
  <2>1. H \ {c} = {}
    BY <1>5 DEF CountedAs
  <2>. QED  BY <2>1 DEF CountedAs
<1>6. ASSUME v \notin {-1, 0, 1}, c \in H
      PROVE  /\ ((v \div 2) - 1) * 2 \in Nat
             /\ CountedAs(((v \div 2) - 1) * 2, H \ {c})
  <2>1. v \in Nat /\ v = 2 * n /\ H \subseteq Readers
    BY <1>6 DEF CountedAs
  <2>2. Cardinality(H \ {c}) = n - 1 /\ n - 1 \in Nat
    BY <1>1, <1>6, ClientsCounted
  <2>. HIDE DEF n
  <2>3. ((v \div 2) - 1) * 2 = 2 * (n - 1) /\ 2 * (n - 1) \in Nat
    BY <1>1, <2>1, <2>2
  <2>4. CASE n - 1 = 0
    <3>1. H \ {c} = {}
      BY <2>2, <2>4, ClientsCounted
    <3>2. v = 2 * 1
      BY <1>1, <2>1, <2>4
    <3>3. v \div 2 = 1
      BY <2>1, <3>2
    <3>4. ((v \div 2) - 1) * 2 = 0
      <4>1. (1 - 1) * 2 = 0
        OBVIOUS
      <4>. QED  BY <3>3, <4>1, Zenon
    <3>. QED  BY <3>1, <3>4 DEF CountedAs
  <2>5. CASE n - 1 # 0
    <3>1. 2 * (n - 1) > 1
      BY <1>1, <2>2, <2>5
    <3>. QED  BY <2>1, <2>2, <2>3, <3>1 DEF CountedAs
  <2>. QED  BY <2>4, <2>5
<1>. QED  BY <1>2, <1>3, <1>4, <1>5, <1>6

\* The number and the grants of one block change together.
LEMMA GrantsChange ==
    ASSUME LockInv, NEW b \in Block, NEW v \in Nat, NEW H \in SUBSET Client,
           SetValue(b, v), holders' = [holders EXCEPT ![b] = H], CountedAs(v, H)
    PROVE  /\ IsTable(table') /\ holders' \in [Block -> SUBSET Client]
           /\ \A d \in Block : Counted(d)'
           /\ \A d \in Block : holders'[d] = IF d = b THEN H ELSE holders[d]
           /\ \A d \in Block : d # b => LockValue(d)' = LockValue(d)
           /\ LockValue(b)' = v
<1>1. IsTable(table) /\ holders \in [Block -> SUBSET Client] /\ \A d \in Block : Counted(d)
  BY DEF LockInv, Accounting, TableIsMap, TypeOK, IsTable, Index, Chain
<1>2. /\ IsTable(table') /\ GetKeyValue(table', b) = v
      /\ \A d \in Block \ {b} : GetKeyValue(table', d) = GetKeyValue(table, d)
  BY <1>1, SetThenGet DEF SetValue
<1>3. /\ holders' \in [Block -> SUBSET Client]
      /\ \A d \in Block : holders'[d] = IF d = b THEN H ELSE holders[d]
  BY <1>1
<1>4. ASSUME NEW d \in Block PROVE Counted(d)'
  <2>1. CASE d = b
    BY <1>2, <1>3, <2>1 DEF Counted, LockValue, CountedAs
  <2>2. CASE d # b
    <3>1. GetKeyValue(table', d) = GetKeyValue(table, d) /\ holders'[d] = holders[d]
      BY <1>2, <1>3, <2>2
    <3>. QED  BY <1>1, <3>1 DEF Counted, LockValue
  <2>. QED  BY <2>1, <2>2
<1>5. \A d \in Block : d # b => LockValue(d)' = LockValue(d)
  BY <1>2 DEF LockValue
<1>6. LockValue(b)' = v
  BY <1>2 DEF LockValue
<1>. QED  BY <1>2, <1>3, <1>4, <1>5, <1>6

\* What handle_lock does: a release takes the grant of its client back, a
\* request is answered, and a grant is written down when the answer is 1.
LEMMA HandleEffect ==
    ASSUME LockInv, NEW c \in Client, HandleLock(c)
    PROVE  /\ IsTable(table') /\ holders' \in [Block -> SUBSET Client]
           /\ \A b \in Block : Counted(b)'
           /\ \A d \in Client : d # c => Held(d)' = Held(d)
           /\ \A b \in Block :
                 LockValue(b) = -1 /\ LockValue(b)' # -1 => c \in Writers \cap holders'[b]
           /\ \/ /\ IsRelease(toServer[c][1]) /\ toClient' = toClient
                 /\ Held(c)' = {}
              \/ \E b \in Block, n \in {0, 1} :
                    /\ toServer[c][1] = Request(b, Ask(c)) /\ toServer[c] = <<toServer[c][1]>>
                    /\ toClient' = [toClient EXCEPT ![c] = <<n>>]
                    /\ Held(c)' = IF n = 1 THEN {b} ELSE {}
<1>. DEFINE s == toServer[c]
            x == s[1]
<1>1. /\ IsTable(table) /\ holders \in [Block -> SUBSET Client]
      /\ \A b \in Block : Counted(b)
      /\ s \in Seq(Nat) /\ s # <<>> /\ Head(s) = x
      /\ toClient \in [Client -> Seq({0, 1})]
      /\ Dialogue(c) /\ HeldAsSaid(c)
  <2>1. LockInv /\ TypeOK /\ s # <<>>
    BY DEF LockInv, Accounting, HandleLock
  <2>2. IsTable(table) /\ holders \in [Block -> SUBSET Client]
    BY <2>1 DEF LockInv, TableIsMap, TypeOK, IsTable, Index, Chain
  <2>3. s \in Seq(Nat) /\ toClient \in [Client -> Seq({0, 1})]
    BY <2>1 DEF TypeOK
  <2>4. Head(s) = x
    BY <2>3
  <2>5. (\A b \in Block : Counted(b)) /\ Dialogue(c) /\ HeldAsSaid(c)
    BY <2>1 DEF LockInv, Accounting
  <2>. QED  BY <2>1, <2>2, <2>3, <2>4, <2>5
<1>2. Held(c) = {b \in Block : x = Request(b, RELEASE_LOCK)}
  BY <1>1 DEF HeldAsSaid
<1>3. ASSUME NEW b \in Block
      PROVE  /\ LockValue(b) \in Nat \cup {-1} /\ CountedAs(LockValue(b), holders[b])
             /\ holders[b] \in SUBSET Client
             /\ c \in holders[b] <=> b \in Held(c)
  BY <1>1, GetFinds DEF Counted, CountedAs, LockValue, Held
<1>. HIDE DEF x
<1>4. ASSUME IsRelease(x)
      PROVE  /\ IsTable(table') /\ holders' \in [Block -> SUBSET Client]
             /\ \A b \in Block : Counted(b)'
             /\ \A d \in Client : d # c => Held(d)' = Held(d)
             /\ \A b \in Block :
                   LockValue(b) = -1 /\ LockValue(b)' # -1 => c \in Writers \cap holders'[b]
             /\ toClient' = toClient /\ Held(c)' = {}
  <2>1. PICK b \in Block : x = Request(b, RELEASE_LOCK)
    BY <1>4 DEF IsRelease
  <2>2. Indicator(x) = RELEASE_LOCK /\ BlockId(x) = b
    BY <2>1, RequestParts
  <2>3. Held(c) = {b}
    <3>1. ASSUME NEW d \in Block, x = Request(d, RELEASE_LOCK) PROVE d = b
      BY <2>1, <3>1, RequestParts
    <3>. QED  BY <1>2, <2>1, <3>1
  <2>4. ReleaseLock(c, b)
    BY <1>1, <2>2 DEF HandleLock, RELEASE_LOCK, READ_LOCK, WRITE_LOCK
  <2>. DEFINE H == holders[b] \ {c}
  <2>5. \E v \in Nat : SetValue(b, v) /\ CountedAs(v, H)
    <3>1. c \in holders[b]
      BY <1>3, <2>3
    <3>2. CASE LockValue(b) = 1
      <4>1. SetValue(b, 0) /\ CountedAs(0, H)
        BY <1>3, <2>4, <3>1, <3>2, GrantArithmetic DEF ReleaseLock
      <4>. QED  BY <4>1
    <3>3. CASE LockValue(b) # 1
      <4>. DEFINE v == ((LockValue(b) \div 2) - 1) * 2
      <4>1. LockValue(b) \notin {-1, 0}
        BY <1>3, <3>1, GrantArithmetic
      <4>2. SetValue(b, v)
        BY <2>4, <3>3, <4>1 DEF ReleaseLock
      <4>3. v \in Nat /\ CountedAs(v, H)
        BY <1>3, <3>1, <3>3, <4>1, GrantArithmetic
      <4>. HIDE DEF v
      <4>. QED  BY <4>2, <4>3
    <3>. QED  BY <3>2, <3>3
  <2>6. holders' = [holders EXCEPT ![b] = H] /\ toClient' = toClient /\ H \in SUBSET Client
    BY <1>3, <2>4 DEF ReleaseLock
  <2>. HIDE DEF H
  <2>7. /\ IsTable(table') /\ holders' \in [Block -> SUBSET Client]
        /\ \A d \in Block : Counted(d)'
        /\ \A d \in Block : holders'[d] = IF d = b THEN H ELSE holders[d]
        /\ \A d \in Block : d # b => LockValue(d)' = LockValue(d)
    BY <2>5, <2>6, GrantsChange
  <2>8. Held(c)' = {}
    BY <2>3, <2>7 DEF Held, H
  <2>9. ASSUME NEW d \in Client, d # c PROVE Held(d)' = Held(d)
    BY <2>7, <2>9 DEF Held, H
  <2>10. LockValue(b) # -1
    BY <1>3, <2>3, GrantArithmetic
  <2>. QED  BY <2>6, <2>7, <2>8, <2>9, <2>10
<1>5. ASSUME ~IsRelease(x)
      PROVE  /\ IsTable(table') /\ holders' \in [Block -> SUBSET Client]
             /\ \A b \in Block : Counted(b)'
             /\ \A d \in Client : d # c => Held(d)' = Held(d)
             /\ \A b \in Block :
                   LockValue(b) = -1 /\ LockValue(b)' # -1 => c \in Writers \cap holders'[b]
             /\ \E b \in Block, n \in {0, 1} :
                   /\ x = Request(b, Ask(c)) /\ s = <<x>>
                   /\ toClient' = [toClient EXCEPT ![c] = <<n>>]
                   /\ Held(c)' = IF n = 1 THEN {b} ELSE {}
  <2>1. IsRequest(c, x) /\ Len(s) = 1
    BY <1>1, <1>5 DEF Dialogue, Outstanding, x
  <2>2. s = <<x>> /\ toClient[c] = <<>>
    <3>1. s = <<x>>
      <4>. DEFINE t == <<x>>
      <4>1. x \in Nat
        BY <1>1, <2>1, RequestNotRelease
      <4>2. t \in Seq(Nat) /\ Len(t) = 1 /\ t[1] = x
        BY <4>1
      <4>3. \A i \in 1 .. Len(s) : s[i] = t[i]
        BY <2>1, <4>2 DEF x
      <4>. HIDE DEF t
      <4>4. s = t
        BY <1>1, <2>1, <4>2, <4>3, SeqEqual
      <4>. QED  BY <4>4 DEF t
    <3>2. toClient[c] = <<>>
      BY <1>1, <1>5, <2>1 DEF Dialogue, x
    <3>. QED  BY <3>1, <3>2
  <2>3. PICK b \in Block : x = Request(b, Ask(c))
    BY <2>1 DEF IsRequest
  <2>4. Indicator(x) = Ask(c) /\ BlockId(x) = b /\ Ask(c) \in {READ_LOCK, WRITE_LOCK}
    BY <2>3, AskIsOp, RequestParts
  <2>5. Held(c) = {}
    BY <1>2, <1>5 DEF IsRelease
  <2>6. \/ Ask(c) = WRITE_LOCK /\ c \in Writers /\ WriteLock(c, b)
        \/ Ask(c) = READ_LOCK /\ c \in Readers /\ ReadLock(c, b)
    BY <1>1, <2>4, AskIsOp DEF HandleLock, RELEASE_LOCK, READ_LOCK, WRITE_LOCK
  <2>. DEFINE H == holders[b] \cup {c}
  <2>7. \A n \in {0, 1} : Answer(c, n) => toClient' = [toClient EXCEPT ![c] = <<n>>]
    BY <1>1, <2>2 DEF Answer
  <2>8. CASE /\ \E v \in Nat : SetValue(b, v) /\ CountedAs(v, H)
             /\ Answer(c, 1) /\ holders' = [holders EXCEPT ![b] = H]
             /\ (LockValue(b) # -1 \/ c \in Writers)
    <3>1. H \in SUBSET Client
      BY <1>3
    <3>. HIDE DEF H
    <3>2. /\ IsTable(table') /\ holders' \in [Block -> SUBSET Client]
          /\ \A d \in Block : Counted(d)'
          /\ \A d \in Block : holders'[d] = IF d = b THEN H ELSE holders[d]
          /\ \A d \in Block : d # b => LockValue(d)' = LockValue(d)
      BY <2>8, <3>1, GrantsChange
    <3>3. Held(c)' = {b}
      BY <2>5, <3>2 DEF Held, H
    <3>4. ASSUME NEW d \in Client, d # c PROVE Held(d)' = Held(d)
      BY <3>2, <3>4 DEF Held, H
    <3>5. toClient' = [toClient EXCEPT ![c] = <<1>>]
      BY <2>7, <2>8
    <3>6. ASSUME NEW d \in Block, LockValue(d) = -1, LockValue(d)' # -1
          PROVE  c \in Writers \cap holders'[d]
      BY <2>8, <3>2, <3>6 DEF H
    <3>. QED  BY <2>2, <2>3, <3>2, <3>3, <3>4, <3>5, <3>6
  <2>9. CASE UNCHANGED <<table, holders>> /\ Answer(c, 0)
    <3>1. IsTable(table') /\ holders' \in [Block -> SUBSET Client]
      BY <1>1, <2>9
    <3>2. \A d \in Block : Counted(d)'
      BY <1>1, <2>9 DEF Counted, LockValue
    <3>3. \A d \in Client : Held(d)' = Held(d)
      BY <2>9 DEF Held
    <3>4. toClient' = [toClient EXCEPT ![c] = <<0>>]
      BY <2>7, <2>9
    <3>5. \A d \in Block : LockValue(d)' = LockValue(d)
      BY <2>9 DEF LockValue
    <3>. QED  BY <2>2, <2>3, <2>5, <3>1, <3>2, <3>3, <3>4, <3>5
  <2>10. c \notin holders[b]
    BY <1>3, <2>5
  <2>11. CASE c \in Writers /\ WriteLock(c, b)
    <3>1. CASE LockValue(b) \in {-1, 0}
      <4>1. CountedAs(1, H)
        BY <1>3, <2>11, <3>1, GrantArithmetic
      <4>. QED  BY <2>8, <2>11, <3>1, <4>1 DEF WriteLock
    <3>2. CASE LockValue(b) \notin {-1, 0}
      BY <2>9, <2>11, <3>2 DEF WriteLock
    <3>. QED  BY <3>1, <3>2
  <2>12. CASE c \in Readers /\ ReadLock(c, b)
    <3>1. CASE LockValue(b) \notin {-1, 1}
      <4>. DEFINE v == ((LockValue(b) \div 2) + 1) * 2
      <4>1. v \in Nat /\ CountedAs(v, H)
        BY <1>3, <2>10, <2>12, <3>1, GrantArithmetic
      <4>2. SetValue(b, v) /\ Answer(c, 1) /\ holders' = [holders EXCEPT ![b] = H]
        BY <2>12, <3>1 DEF ReadLock
      <4>. HIDE DEF v, H
      <4>. QED  BY <2>8, <3>1, <4>1, <4>2
    <3>2. CASE LockValue(b) \in {-1, 1}
      BY <2>9, <2>12, <3>2 DEF ReadLock
    <3>. QED  BY <3>1, <3>2
  <2>. QED  BY <2>6, <2>11, <2>12
<1>. QED  BY <1>4, <1>5 DEF x

\* The server handles a message.
LEMMA HandleStep ==
    ASSUME LockInv, NEW c \in Client, HandleLock(c)
    PROVE  LockInv'
<1>. USE DEF serverVars, netVars, clientVars, history, memVars
<1>. DEFINE s == toServer[c]
            t == Tail(s)
<1>0. TypeOK /\ Dialogue(c) /\ HeldAsSaid(c)
  BY DEF LockInv, Accounting
<1>1. /\ s \in Seq(Nat) /\ s # <<>> /\ Len(s) <= 2 /\ conn[c] = "open"
      /\ toServer' = [toServer EXCEPT ![c] = t]
      /\ UNCHANGED <<memVars, conn, clientVars, last>>
  BY <1>0 DEF TypeOK, HandleLock
<1>2. /\ t \in Seq(Nat) /\ Len(t) = Len(s) - 1 /\ Len(s) \in {1, 2}
      /\ Len(s) = 1 => t = <<>>
      /\ Len(s) = 2 => t # <<>> /\ Len(t) = 1 /\ t[1] = s[2]
  <2>. DEFINE n == Len(s)
  <2>1. n \in Nat \ {0} /\ n <= 2
    BY <1>1, EmptySeq
  <2>. HIDE DEF n
  <2>2. n \in {1, 2}
    BY <2>1
  <2>3. /\ t \in Seq(Nat) /\ Len(t) = Len(s) - 1
        /\ \A i \in 1 .. Len(t) : t[i] = s[i + 1]
    BY <1>1, HeadTailProperties
  <2>. HIDE DEF t
  <2>4. n = 1 => t = <<>>
    BY <2>3, EmptySeq DEF n
  <2>5. n = 2 => t # <<>> /\ Len(t) = 1 /\ t[1] = s[2]
    <3>. HAVE n = 2
    <3>1. Len(t) = 1
      BY <2>3 DEF n
    <3>2. t[1] = s[2]
      <4>1. 1 .. 1 = {1} /\ 1 + 1 = 2
        OBVIOUS
      <4>. QED  BY <2>3, <3>1, <4>1, Zenon
    <3>3. t # <<>>
      <4>1. Len(<<>>) = 0 /\ 0 # 1
        OBVIOUS
      <4>. QED  BY <3>1, <4>1, Zenon
    <3>. QED  BY <3>1, <3>2, <3>3
  <2>. QED  BY <2>2, <2>3, <2>4, <2>5 DEF n
<1>. HIDE DEF t
<1>3. /\ toServer' \in [Client -> Seq(Nat)] /\ toServer'[c] = t
      /\ \A d \in Client : d # c => toServer'[d] = toServer[d]
  <2>1. toServer \in [Client -> Seq(Nat)]
    BY <1>0 DEF TypeOK
  <2>. QED  BY <1>1, <1>2, <2>1, Assigned
<1>4. /\ IsTable(table') /\ holders' \in [Block -> SUBSET Client]
      /\ \A b \in Block : Counted(b)'
      /\ \A d \in Client : d # c => Held(d)' = Held(d)
  BY HandleEffect
<1>5. MemInv'
  BY <1>1, MemoryKept
<1>6. /\ toClient' \in [Client -> Seq({0, 1})]
      /\ \A d \in Client : Len(toClient'[d]) <= 1
      /\ \A d \in Client : d # c => toClient'[d] = toClient[d]
  <2>1. toClient \in [Client -> Seq({0, 1})] /\ \A d \in Client : Len(toClient[d]) <= 1
    BY <1>0 DEF TypeOK
  <2>2. CASE toClient' = toClient
    BY <2>1, <2>2
  <2>3. ASSUME NEW n \in {0, 1}, toClient' = [toClient EXCEPT ![c] = <<n>>]
        PROVE  <1>6!1 /\ <1>6!2 /\ <1>6!3
    <3>. DEFINE a == <<n>>
    <3>1. a \in Seq({0, 1}) /\ Len(a) = 1
      OBVIOUS
    <3>2. toClient' = [toClient EXCEPT ![c] = a]
      BY <2>3
    <3>. HIDE DEF a
    <3>3. /\ toClient' \in [Client -> Seq({0, 1})] /\ toClient'[c] = a
          /\ \A d \in Client : d # c => toClient'[d] = toClient[d]
      BY <2>1, <3>1, <3>2, Assigned
    <3>4. ASSUME NEW d \in Client PROVE Len(toClient'[d]) <= 1
      <4>1. CASE d = c
        <5>1. 1 <= 1
          OBVIOUS
        <5>. QED  BY <3>1, <3>3, <4>1, <5>1, Zenon
      <4>2. CASE d # c
        BY <2>1, <3>3, <4>2, Zenon
      <4>. QED  BY <4>1, <4>2
    <3>. QED  BY <3>3, <3>4
  <2>. QED  BY <2>2, <2>3, HandleEffect
<1>7. TypeOK'
  <2>1. table' \in [0 .. TableSize - 1 -> Seq([key : Block, value : Nat])]
    BY <1>4 DEF IsTable, Index, Chain
  <2>2. \A d \in Client : Len(toServer'[d]) <= 2
    <3>. TAKE d \in Client
    <3>1. Len(toServer[d]) <= 2
      BY <1>0 DEF TypeOK
    <3>2. Len(t) <= 2
      <4>1. Len(t) \in {0, 1}
        BY <1>2
      <4>2. 0 <= 2 /\ 1 <= 2
        OBVIOUS
      <4>. QED  BY <4>1, <4>2, Zenon
    <3>3. CASE d = c
      BY <1>3, <3>2, <3>3, Zenon
    <3>4. CASE d # c
      BY <1>3, <3>1, <3>4, Zenon
    <3>. QED  BY <3>3, <3>4
  <2>. QED  BY <1>0, <1>1, <1>3, <1>4, <1>5, <1>6, <2>1, <2>2 DEF TypeOK, MemTypeOK
<1>8. Dialogue(c)' /\ HeldAsSaid(c)'
  <2>0. pc[c] # "off" /\ ~InCS(c) /\ Outstanding(c, s)
    BY <1>0, <1>1 DEF Dialogue
  <2>1. CASE IsRelease(s[1]) /\ toClient' = toClient /\ Held(c)' = {}
    <3>1. Len(s) = 2 => IsRequest(c, s[2])
      BY <2>0, <1>1 DEF Outstanding
    <3>2. Outstanding(c, t)
      BY <1>2, <3>1 DEF Outstanding
    <3>3. \A b \in Block : Request(b, Ask(c)) # s[1]
      BY <2>1, RequestNotRelease DEF IsRequest
    <3>4. pc[c] = "wait" => toClient[c] = <<>> /\ s[Len(s)] = Request(block[c], Ask(c))
      BY <1>0, <1>1 DEF Dialogue
    <3>5. pc[c] = "wait" => Len(s) = 2
      BY <1>0, <1>2, <3>3, <3>4 DEF TypeOK
    <3>6. Dialogue(c)'
      <4>1. pc[c] \in {"select", "send"} => toClient[c] = <<>> /\ Len(s) = 1
        BY <1>0, <1>2 DEF Dialogue
      <4>2. t # <<>> /\ ~IsRelease(t[Len(t)]) => toClient[c] = <<>>
        BY <1>0, <1>1, <1>2 DEF Dialogue
      <4>3. pc[c] = "wait" => t # <<>> /\ t[Len(t)] = Request(block[c], Ask(c))
        BY <1>2, <3>4, <3>5
      <4>. QED  BY <1>0, <1>1, <1>2, <1>3, <2>0, <2>1, <3>2, <3>4, <4>1, <4>2, <4>3 DEF Dialogue, InCS
    <3>7. HeldAsSaid(c)'
      <4>1. t # <<>> => {b \in Block : t[1] = Request(b, RELEASE_LOCK)} = {}
        BY <1>2, <3>1, RequestNotRelease DEF IsRelease
      <4>2. t = <<>> => pc[c] # "wait"
        BY <1>2, <3>5
      <4>. QED  BY <1>1, <1>3, <2>0, <2>1, <4>1, <4>2 DEF HeldAsSaid, InCS, Connected
    <3>. QED  BY <3>6, <3>7
  <2>2. ASSUME NEW b \in Block, NEW n \in {0, 1},
               s[1] = Request(b, Ask(c)), s = <<s[1]>>,
               toClient' = [toClient EXCEPT ![c] = <<n>>],
               Held(c)' = IF n = 1 THEN {b} ELSE {}
        PROVE  Dialogue(c)' /\ HeldAsSaid(c)'
    <3>1. Len(s) = 1 /\ t = <<>>
      <4>1. Len(s) = 1
        BY <2>2
      <4>. QED  BY <1>2, <4>1
    <3>2. toClient'[c] = <<n>>
      BY <1>0, <2>2 DEF TypeOK
    <3>3. ~IsRelease(s[1])
      BY <2>2, RequestNotRelease DEF IsRequest
    <3>4. pc[c] \notin {"select", "send"}
      BY <1>0, <1>1, <3>3 DEF Dialogue
    <3>5. pc[c] = "wait" => block[c] = b
      <4>. HAVE pc[c] = "wait"
      <4>1. s[1] = Request(block[c], Ask(c)) /\ block[c] \in Block
        BY <1>0, <1>1, <3>1 DEF Dialogue, TypeOK
      <4>2. BlockId(Request(b, Ask(c))) = b /\ BlockId(Request(block[c], Ask(c))) = block[c]
        BY <4>1, RequestParts, AskIsOp
      <4>. QED  BY <2>2, <4>1, <4>2
    <3>6. <<n>> # <<>> /\ (<<n>> = <<1>> <=> n = 1)
      OBVIOUS
    <3>7. Dialogue(c)'
      BY <1>0, <1>1, <1>3, <2>0, <3>1, <3>2, <3>4, <3>6 DEF Dialogue, InCS, Outstanding
    <3>8. HeldAsSaid(c)'
      <4>1. pc'[c] = pc[c] /\ conn'[c] = "open" /\ block'[c] = block[c] /\ ~InCS(c)'
        BY <1>1, <2>0 DEF InCS
      <4>2. pc[c] \in {"wait", "dead"}
        BY <1>0, <2>0, <3>4 DEF InCS, TypeOK
      <4>3. pc[c] = "wait" => Held(c)' = IF pc[c] = "wait" /\ toClient'[c] = <<1>> THEN {block[c]} ELSE {}
        BY <2>2, <3>2, <3>5, <3>6
      <4>. QED  BY <1>3, <3>1, <4>1, <4>2, <4>3 DEF HeldAsSaid, Connected
    <3>. QED  BY <3>7, <3>8
  <2>. QED  BY <2>1, <2>2, HandleEffect
<1>9. ASSUME NEW d \in Client PROVE Dialogue(d)' /\ HeldAsSaid(d)'
  <2>1. CASE d # c
    BY <1>1, <1>3, <1>4, <1>6, <2>1, OthersKeep DEF LockInv
  <2>. QED  BY <1>8, <2>1
<1>10. ASSUME NEW d \in Connected', InCS(d)' PROVE d \in holders'[block'[d]]
  <2>1. d \in Client /\ block'[d] \in Block
    BY <1>7 DEF Connected, TypeOK
  <2>2. Held(d)' = {block'[d]}
    BY <1>9, <1>10, <2>1 DEF Dialogue, HeldAsSaid, InCS
  <2>. QED  BY <2>2 DEF Held
<1>11. TableIsMap'
  BY <1>4 DEF TableIsMap, IsTable, Index
<1>. QED  BY <1>4, <1>5, <1>7, <1>9, <1>10, <1>11 DEF LockInv, Accounting, MemInv

\* A client dies.
LEMMA DieStep ==
    ASSUME LockInv, NEW c \in Client, Die(c)
    PROVE  LockInv'
<1>. USE DEF serverVars, netVars, clientVars, history, memVars
<1>0. TypeOK /\ Dialogue(c) /\ HeldAsSaid(c)
  BY DEF LockInv, Accounting
<1>1. /\ UNCHANGED <<memVars, serverVars, toServer, block, history>>
      /\ pc[c] \notin {"off", "dead"} /\ pc' = [pc EXCEPT ![c] = "dead"]
      /\ todo' = [todo EXCEPT ![c] = {}] /\ lock' = [lock EXCEPT ![c] = 0]
      /\ source' = [source EXCEPT ![c] = Junk]
      /\ got' = [got EXCEPT ![c] = [p \in Part |-> Junk]]
      /\ toClient' = [toClient EXCEPT ![c] = <<>>]
  BY DEF Die, Goto
<1>2. MemInv'
  BY <1>1, MemoryKept
<1>3. /\ pc' \in [Client -> {"off", "select", "send", "wait", "copy", "flush",
                             "drop", "read", "release", "dead"}]
      /\ pc'[c] = "dead"
      /\ \A d \in Client : d # c => pc'[d] = pc[d]
  <2>1. pc \in [Client -> {"off", "select", "send", "wait", "copy", "flush",
                           "drop", "read", "release", "dead"}]
    BY <1>0 DEF TypeOK
  <2>. QED  BY ONLY <1>1, <2>1, c \in Client
<1>4. /\ toClient' \in [Client -> Seq({0, 1})] /\ toClient'[c] = <<>>
      /\ \A d \in Client : d # c => toClient'[d] = toClient[d]
      /\ \A d \in Client : Len(toClient'[d]) <= 1
  <2>1. toClient \in [Client -> Seq({0, 1})] /\ \A d \in Client : Len(toClient[d]) <= 1
    BY <1>0 DEF TypeOK
  <2>2. /\ toClient' \in [Client -> Seq({0, 1})] /\ toClient'[c] = <<>>
        /\ \A d \in Client : d # c => toClient'[d] = toClient[d]
    BY ONLY <1>1, <2>1, c \in Client, EmptySeq, Assigned
  <2>3. Len(<<>>) <= 1
    OBVIOUS
  <2>. QED  BY <2>1, <2>2, <2>3, Zenon
<1>5. /\ source' \in [Client -> Value] /\ got' \in [Client -> [Part -> Value]]
      /\ todo' \in [Client -> SUBSET Part] /\ lock' \in [Client -> Nat]
  <2>1. /\ source \in [Client -> Value] /\ got \in [Client -> [Part -> Value]]
        /\ todo \in [Client -> SUBSET Part] /\ lock \in [Client -> Nat] /\ Junk \in Value
    BY <1>0, LockAssumption DEF TypeOK
  <2>. QED  BY ONLY <1>1, <2>1, c \in Client
<1>6. TypeOK'
  BY <1>0, <1>1, <1>3, <1>4, <1>5 DEF TypeOK, MemTypeOK
<1>7. ASSUME NEW d \in Client PROVE Dialogue(d)' /\ HeldAsSaid(d)'
  <2>1. Dialogue(d) /\ HeldAsSaid(d) /\ Held(d)' = Held(d)
    BY <1>1 DEF LockInv, Held
  <2>2. CASE d # c
    BY <1>1, <1>3, <1>4, <2>1, <2>2, OthersKeep
  <2>3. CASE d = c
    <3>1. Dialogue(d)'
      BY <1>1, <1>3, <1>4, <2>1, <2>3 DEF Dialogue, InCS
    <3>2. HeldAsSaid(d)'
      BY <1>1, <1>3, <2>1, <2>3 DEF HeldAsSaid, Connected
    <3>. QED  BY <3>1, <3>2
  <2>. QED  BY <2>2, <2>3
<1>. QED  BY <1>1, <1>2, <1>6, <1>7, TableKept

\* A table without nodes.
LEMMA EmptyTable ==
    /\ IsTable(CreateHashTable)
    /\ \A b \in Block : GetKeyValue(CreateHashTable, b) = -1
<1>. DEFINE T == CreateHashTable
<1>1. <<>> \in Chain /\ Len(<<>>) = 0
  BY EmptySeq DEF Chain
<1>2. T \in [Index -> Chain] /\ \A i \in Index : T[i] = <<>>
  BY <1>1 DEF CreateHashTable, Index
<1>. HIDE DEF T
<1>3. \A i \in Index : 1 .. Len(T[i]) = {}
  BY <1>1, <1>2
<1>4. IsTable(T)
  BY <1>2, <1>3 DEF IsTable
<1>5. ASSUME NEW b \in Block PROVE GetKeyValue(T, b) = -1
  <2>1. NodesOf(T[HashFunction(b)], b) = {}
    BY <1>3, HashInTable DEF NodesOf
  <2>. QED  BY <1>4, <2>1, GetFinds
<1>. QED  BY <1>4, <1>5 DEF T

\* The server starts without a lock.
LEMMA NoLocks ==
    ASSUME table = CreateHashTable, holders = [b \in Block |-> {}]
    PROVE  /\ IsTable(table) /\ TableIsMap /\ \A b \in Block : Counted(b)
           /\ \A b \in Block : LockValue(b) = -1
           /\ \A c \in Client : Held(c) = {}
<1>1. IsTable(table) /\ \A b \in Block : LockValue(b) = -1
  BY EmptyTable DEF LockValue
<1>2. TableIsMap
  BY <1>1 DEF IsTable, TableIsMap, Index
<1>3. \A b \in Block : Counted(b)
  BY <1>1 DEF Counted
<1>4. \A c \in Client : Held(c) = {}
  BY DEF Held
<1>. QED  BY <1>1, <1>2, <1>3, <1>4

\* The server is started again.
LEMMA RestartStep ==
    ASSUME LockInv, Restart
    PROVE  LockInv'
<1>. USE DEF serverVars, netVars, clientVars, history, memVars
<1>0. TypeOK
  BY DEF LockInv, Accounting
<1>1. /\ table' = CreateHashTable /\ holders' = [b \in Block |-> {}]
      /\ conn' = [c \in Client |-> IF pc[c] = "off" THEN "new" ELSE "lost"]
      /\ toServer' = [c \in Client |-> <<>>]
      /\ UNCHANGED <<memVars, toClient, clientVars, last>>
  BY DEF Restart
<1>2. MemInv'
  BY <1>1, MemoryKept
<1>3. /\ IsTable(table') /\ TableIsMap' /\ \A b \in Block : Counted(b)'
      /\ \A c \in Client : Held(c)' = {}
  <2>1. (table = CreateHashTable /\ holders = [b \in Block |-> {}] =>
            /\ IsTable(table) /\ TableIsMap /\ \A b \in Block : Counted(b)
            /\ \A c \in Client : Held(c) = {})'
    BY NoLocks, PTL
  <2>. QED  BY <1>1, <2>1 DEF IsTable
<1>4. TypeOK'
  <2>1. \A d \in Client : Len(toServer'[d]) <= 2
    <3>1. Len(<<>>) <= 2
      OBVIOUS
    <3>2. \A d \in Client : toServer'[d] = <<>>
      BY <1>1
    <3>. QED  BY <3>1, <3>2, Zenon
  <2>2. toServer' \in [Client -> Seq(Nat)]
    BY <1>1, EmptySeq
  <2>3. table' \in [0 .. TableSize - 1 -> Seq([key : Block, value : Nat])]
    BY <1>3 DEF IsTable, Index, Chain
  <2>4. conn' \in [Client -> {"new", "open", "closed", "lost"}]
    BY <1>1
  <2>. QED  BY <1>0, <1>1, <2>1, <2>2, <2>3, <2>4 DEF TypeOK, MemTypeOK
<1>5. ASSUME NEW c \in Client PROVE Dialogue(c)' /\ HeldAsSaid(c)'
  <2>1. Dialogue(c)
    BY DEF LockInv
  <2>2. /\ toServer'[c] = <<>> /\ conn'[c] = IF pc[c] = "off" THEN "new" ELSE "lost"
        /\ Held(c)' = {}
    BY <1>1, <1>3
  <2>3. Len(<<>>) <= 1
    OBVIOUS
  <2>4. Dialogue(c)'
    BY <1>1, <2>1, <2>2, <2>3 DEF Dialogue, InCS, Outstanding
  <2>5. HeldAsSaid(c)'
    BY <1>1, <2>2 DEF HeldAsSaid, InCS, Connected
  <2>. QED  BY <2>4, <2>5
<1>6. ASSUME NEW c \in Connected' PROVE ~InCS(c)'
  BY <1>1 DEF Connected, InCS
<1>. QED  BY <1>2, <1>3, <1>4, <1>5, <1>6 DEF LockInv, Accounting, MemInv

\* A step of the caches, or none.
LEMMA CacheStep ==
    ASSUME LockInv, Hardware \/ UNCHANGED vars
    PROVE  LockInv'
<1>. USE DEF serverVars, netVars, clientVars, history
<1>1. MemInv
  BY DEF LockInv, Accounting, TypeOK, MemInv
<1>2. UNCHANGED <<serverVars, netVars, clientVars, history>>
  BY DEF Hardware, vars
<1>3. MemInv'
  <2>1. CASE UNCHANGED vars
    <3>1. UNCHANGED memVars
      BY <2>1 DEF vars
    <3>. QED  BY <3>1, MemoryKept
  <2>2. CASE Hardware
    <3>1. \/ \E h \in Host, l \in Line : Evict(h, l)
          \/ \E h \in Host, l \in Line : Prefetch(h, l)
      BY <2>2, LockAssumption DEF Hardware, Client
    <3>. QED  BY <1>1, <3>1, EvictEffect, PrefetchEffect
  <2>. QED  BY <2>1, <2>2
<1>4. TypeOK'
  BY <1>2, <1>3 DEF LockInv, Accounting, TypeOK, MemInv
<1>5. \A d \in Client : Dialogue(d)' /\ HeldAsSaid(d)'
  BY <1>2 DEF LockInv, Dialogue, HeldAsSaid, Held, InCS, Connected
<1>. QED  BY <1>2, <1>3, <1>4, <1>5, TableKept

\* Nothing is locked and nothing under way at first.
LEMMA LockInit ==
    ASSUME Init
    PROVE  LockInv
<1>1. IsTable(table) /\ TableIsMap /\ (\A b \in Block : Counted(b)) /\ \A c \in Client : Held(c) = {}
  BY NoLocks DEF Init
<1>2. Junk \in Value
  BY LockAssumption
<1>3. MemInv
  BY <1>2, MemInitType DEF Init
<1>4. TypeOK
  <2>1. /\ toServer \in [Client -> Seq(Nat)] /\ toClient \in [Client -> Seq({0, 1})]
        /\ \A c \in Client : toServer[c] = <<>> /\ toClient[c] = <<>>
    BY EmptySeq DEF Init
  <2>2. Len(<<>>) <= 2 /\ Len(<<>>) <= 1
    OBVIOUS
  <2>3. \A c \in Client : Len(toServer[c]) <= 2 /\ Len(toClient[c]) <= 1
    BY <2>1, <2>2, Zenon
  <2>4. table \in [0 .. TableSize - 1 -> Seq([key : Block, value : Nat])]
    BY <1>1 DEF IsTable, Index, Chain
  <2>5. /\ pc \in [Client -> {"off", "select", "send", "wait", "copy", "flush",
                              "drop", "read", "release", "dead"}]
        /\ conn \in [Client -> {"new", "open", "closed", "lost"}]
    BY DEF Init
  <2>6. /\ block \in [Client -> Block] /\ lock \in [Client -> Nat]
        /\ source \in [Client -> Value] /\ got \in [Client -> [Part -> Value]]
        /\ todo \in [Client -> SUBSET Part]
        /\ holders \in [Block -> SUBSET Client] /\ last \in [Block -> Value]
    BY <1>2 DEF Init
  <2>. QED  BY <1>3, <2>1, <2>3, <2>4, <2>5, <2>6 DEF TypeOK, MemInv
<1>5. ASSUME NEW c \in Client PROVE Dialogue(c) /\ HeldAsSaid(c)
  BY <1>1 DEF Init, Dialogue, HeldAsSaid, Outstanding, InCS, Connected
<1>6. \A c \in Client : ~InCS(c)
  BY DEF Init, InCS
<1>. QED  BY <1>1, <1>3, <1>4, <1>5, <1>6 DEF LockInv, Accounting, MemInv, Connected

\* Every step keeps the invariant.
LEMMA LockStep ==
    ASSUME LockInv, [Next]_vars
    PROVE  LockInv'
<1>1. ASSUME NEW c \in Client, ServerStep(c) \/ ClientStep(c) \/ Die(c) PROVE LockInv'
  BY <1>1, ConnStep, HandleStep, SelectStep, SendStep, ReceiveStep, WorkStep, DieStep
     DEF ServerStep, ClientStep
<1>. QED  BY <1>1, RestartStep, CacheStep DEF Next

LEMMA LockInvariant == Spec => []LockInv
<1>1. Init => LockInv
  BY LockInit
<1>2. LockInv /\ [Next]_vars => LockInv'
  BY LockStep
<1>. QED  BY <1>1, <1>2, PTL DEF Spec

\* The number of a block always counts the grants that were not released
\* (handle_lock), whoever dies and however often the server is restarted.
THEOREM GrantsCounted == Spec => []Accounting
<1>1. LockInv => Accounting
  BY DEF LockInv
<1>. QED  BY <1>1, LockInvariant, PTL

\* setKeyValue keeps one node per key, in the chain of the key.
THEOREM OneNodePerKey == Spec => []TableIsMap
<1>1. LockInv => TableIsMap
  BY DEF LockInv
<1>. QED  BY <1>1, LockInvariant, PTL

\* Whoever writes a block is alone with it: the lock of a writer is a number
\* that counts one grant, its own.
THEOREM WritersAlone == Spec => []MutualExclusion
<1>1. ASSUME Accounting PROVE MutualExclusion
  <2>. SUFFICES ASSUME NEW c \in Connected, NEW d \in Connected, c # d,
                       InCS(c), InCS(d), block[c] = block[d]
                PROVE  {c, d} \subseteq Readers
    BY DEF MutualExclusion
  <2>1. /\ c \in holders[block[c]] /\ d \in holders[block[c]]
        /\ block[c] \in Block /\ Counted(block[c])
    BY <1>1 DEF Accounting, TypeOK, Connected
  <2>. QED  BY <2>1 DEF Counted
<1>. QED  BY <1>1, GrantsCounted, PTL

-----------------------------------------------------------------------------
(* Every step keeps BlockInv.                                              *)

\* A writer that works on its block has a grant of it, and of no other.
LEMMA WorkerHolds ==
    ASSUME LockInv, NoWriterForgotten, NEW w \in Writers, pc[w] \in {"copy", "flush"}
    PROVE  /\ w \in Connected /\ InCS(w) /\ toServer[w] = <<>> /\ block[w] \in Block
           /\ \A b \in Block : w \in holders[b] <=> b = block[w]
<1>1. /\ w \in Client /\ Dialogue(w) /\ HeldAsSaid(w) /\ TypeOK /\ block[w] \in Block
  BY DEF LockInv, Accounting, TypeOK, Client
<1>2. w \in Connected /\ InCS(w) /\ toServer[w] = <<>>
  BY <1>1 DEF Dialogue, InCS, Connected, TypeOK, NoWriterForgotten
<1>3. Held(w) = {block[w]}
  BY <1>1, <1>2, InCSHolds
<1>. QED  BY <1>1, <1>2, <1>3 DEF Held

\* A writer that has a grant is the only one that has.
LEMMA OneHolder ==
    ASSUME LockInv, NEW b \in Block, NEW w \in Writers \cap holders[b], NEW c \in holders[b]
    PROVE  c = w
<1>1. Counted(b) /\ w \notin Readers
  BY LockAssumption DEF LockInv, Accounting
<1>. QED  BY <1>1 DEF Counted

\* What a reader that has the lock finds in the memory.
LEMMA ReaderKnows ==
    ASSUME LockInv, BlockInMemory, NEW c \in Readers \cap Connected, InCS(c)
    PROVE  /\ block[c] \in Block /\ last[block[c]] # Junk
           /\ \A p \in Part : mem[<<block[c], p>>] = last[block[c]]
<1>1. /\ c \in Client /\ block[c] \in Block /\ c \in holders[block[c]] /\ Counted(block[c])
      /\ c \notin Writers
  BY LockAssumption DEF LockInv, Accounting, TypeOK, Connected, Client
<1>2. LockValue(block[c]) # -1 /\ holders[block[c]] \subseteq Readers
  BY <1>1 DEF Counted
<1>3. WriterDone(block[c])
  BY <1>2, LockAssumption DEF WriterDone
<1>. QED  BY <1>1, <1>2, <1>3 DEF BlockInMemory

\* A step of a client outside of its work on a block: it does not touch the
\* memory, and makes no lock look released that is not.
LEMMA QuietStep ==
    ASSUME LockInv, BlockKnown, NEW c \in Client,
           UNCHANGED <<memVars, serverVars, history>>,
           \A d \in Client : d # c =>
               /\ pc'[d] = pc[d] /\ block'[d] = block[d] /\ source'[d] = source[d]
               /\ got'[d] = got[d] /\ todo'[d] = todo[d] /\ toServer'[d] = toServer[d],
           pc'[c] \notin {"flush", "read", "release"},
           pc'[c] \in {"copy", "drop"} => todo'[c] = Part,
           c \in Writers /\ pc'[c] \in {"send", "wait", "copy"} => source'[c] \in Content,
           \/ pc[c] \notin {"dead", "copy", "flush"}
           \/ pc'[c] = "dead" /\ toServer'[c] = toServer[c],
           \A b \in Block : c \in holders[b] /\ toServer'[c] # <<>> =>
               pc[c] = "release" \/ toServer[c] # <<>>
    PROVE  BlockKnown'
<1>. USE DEF memVars, serverVars, history
<1>1. DirtyIsHeld'
  <2>. SUFFICES ASSUME NEW h \in Client, NEW b \in Block, NEW p \in Part, <<b, p>> \in dirty[h]
                PROVE  /\ h \in Writers \cap holders[b] /\ toServer'[h] = <<>>
                       /\ pc'[h] = "dead" \/ (pc'[h] \in {"copy", "flush"} /\ block'[h] = b)
    BY DEF DirtyIsHeld
  <2>1. /\ h \in Writers \cap holders[b] /\ toServer[h] = <<>>
        /\ pc[h] = "dead" \/ (pc[h] \in {"copy", "flush"} /\ block[h] = b)
    BY DEF BlockKnown, DirtyIsHeld
  <2>2. CASE h # c
    BY <2>1, <2>2
  <2>3. CASE h = c
    BY <2>1, <2>3
  <2>. QED  BY <2>2, <2>3
<1>2. BlockInMemory'
  <2>. SUFFICES ASSUME NEW b \in Block, LockValue(b)' # -1, WriterDone(b)'
                PROVE  last[b] # Junk /\ \A p \in Part : mem[<<b, p>>] = last[b]
    BY DEF BlockInMemory
  <2>1. LockValue(b) # -1
    BY DEF LockValue
  <2>2. ASSUME NEW w \in Writers \cap holders[b] PROVE pc[w] = "release" \/ toServer[w] # <<>>
    <3>1. pc'[w] = "release" \/ toServer'[w] # <<>>
      BY DEF WriterDone
    <3>2. CASE w = c
      BY <3>1, <3>2
    <3>3. CASE w # c
      BY <3>1, <3>3 DEF Client
    <3>. QED  BY <3>2, <3>3
  <2>. QED  BY <2>1, <2>2 DEF BlockKnown, BlockInMemory, WriterDone
<1>3. CopyProgress'
  <2>. SUFFICES ASSUME NEW w \in Writers
                PROVE  /\ pc'[w] \in {"send", "wait", "copy", "flush"} => source'[w] \in Content
                       /\ pc'[w] = "flush" => todo'[w] = {}
                       /\ pc'[w] \in {"copy", "flush"} =>
                             \A p \in Part \ todo'[w] :
                                 IF <<block'[w], p>> \in dirty[w]
                                 THEN copy[w][<<block'[w], p>>] = source'[w]
                                 ELSE mem[<<block'[w], p>>] = source'[w]
    BY DEF CopyProgress
  <2>1. CASE w = c
    BY <2>1
  <2>2. CASE w # c
    BY <2>2 DEF BlockKnown, CopyProgress, Client
  <2>. QED  BY <2>1, <2>2
<1>4. ReadProgress'
  <2>. SUFFICES ASSUME NEW r \in Readers \cap Connected
                PROVE  /\ pc'[r] = "drop" => todo'[r] = Part
                       /\ pc'[r] = "read" =>
                             \A p \in Part :
                                 /\ copy[r][<<block'[r], p>>] \in {NoCopy, last[block'[r]]}
                                 /\ p \notin todo'[r] => got'[r][p] = last[block'[r]]
                       /\ pc'[r] = "release" => \A p \in Part : got'[r][p] = last[block'[r]]
    BY DEF ReadProgress, Connected
  <2>1. CASE r = c
    BY <2>1
  <2>2. CASE r # c
    BY <2>2 DEF BlockKnown, ReadProgress, Client
  <2>. QED  BY <2>1, <2>2
<1>. QED  BY <1>1, <1>2, <1>3, <1>4 DEF BlockKnown

LEMMA BlockQuiet ==
    ASSUME LockInv, BlockKnown, NoWriterForgotten, NEW c \in Client,
           \/ Connect(c) \/ SendLock(c) \/ Release(c) \/ ReceiveLock(c) \/ Die(c)
           \/ \E b \in Block, v \in Content : SelectWrite(c, b, v)
           \/ \E b \in Block : SelectRead(c, b)
    PROVE  BlockKnown'
<1>. USE DEF serverVars, netVars, clientVars, history
<1>0. /\ TypeOK /\ Dialogue(c) /\ HeldAsSaid(c) /\ CopyProgress
      /\ c \in Readers => c \notin Writers
  BY LockAssumption DEF LockInv, Accounting, BlockKnown
<1>1. ASSUME Connect(c) PROVE BlockKnown'
  <2>1. /\ pc[c] = "off" /\ pc'[c] = "select" /\ \A d \in Client : d # c => pc'[d] = pc[d]
        /\ UNCHANGED <<memVars, serverVars, netVars, block, lock, source, got, todo, history>>
    BY <1>0, <1>1 DEF Connect, Goto, TypeOK
  <2>. QED  BY <2>1, QuietStep
<1>2. ASSUME NEW b \in Block, NEW v \in Content, SelectWrite(c, b, v) PROVE BlockKnown'
  <2>1. /\ pc[c] = "select" /\ pc'[c] = "send" /\ source'[c] = v
        /\ \A d \in Client : d # c => pc'[d] = pc[d] /\ block'[d] = block[d] /\ source'[d] = source[d]
        /\ UNCHANGED <<memVars, serverVars, netVars, lock, got, todo, history>>
    BY <1>0, <1>2 DEF SelectWrite, Goto, TypeOK
  <2>. QED  BY <2>1, QuietStep
<1>3. ASSUME NEW b \in Block, SelectRead(c, b) PROVE BlockKnown'
  <2>1. /\ pc[c] = "select" /\ pc'[c] = "send" /\ c \notin Writers
        /\ \A d \in Client : d # c => pc'[d] = pc[d] /\ block'[d] = block[d]
        /\ UNCHANGED <<memVars, serverVars, netVars, lock, source, got, todo, history>>
    BY <1>0, <1>3 DEF SelectRead, Goto, TypeOK
  <2>. QED  BY <2>1, QuietStep
<1>4. ASSUME SendLock(c) PROVE BlockKnown'
  <2>1. /\ pc[c] = "send" /\ pc'[c] = "wait"
        /\ \A d \in Client : d # c => pc'[d] = pc[d] /\ toServer'[d] = toServer[d]
        /\ UNCHANGED <<memVars, serverVars, toClient, block, source, got, todo, history>>
    BY <1>0, <1>4 DEF SendLock, Send, Goto, TypeOK
  <2>2. c \in Writers => source[c] \in Content
    BY <1>0, <2>1 DEF CopyProgress
  <2>3. \A b \in Block : c \in holders[b] => toServer[c] # <<>>
    <3>1. toServer[c] = <<>> => Held(c) = {}
      BY <1>0, <2>1 DEF HeldAsSaid, Dialogue, Connected, InCS, TypeOK
    <3>. QED  BY <3>1 DEF Held
  <2>. QED  BY <2>1, <2>2, <2>3, QuietStep
<1>5. ASSUME Release(c) PROVE BlockKnown'
  <2>1. /\ pc[c] = "release" /\ pc'[c] = "select"
        /\ \A d \in Client : d # c =>
              pc'[d] = pc[d] /\ toServer'[d] = toServer[d] /\ source'[d] = source[d] /\ got'[d] = got[d]
        /\ UNCHANGED <<memVars, serverVars, toClient, block, todo, history>>
    BY <1>0, <1>5 DEF Release, Send, Goto, TypeOK
  <2>. QED  BY <2>1, QuietStep
<1>6. ASSUME ReceiveLock(c) PROVE BlockKnown'
  <2>1. /\ pc[c] = "wait" /\ pc'[c] \in {"copy", "drop", "send"}
        /\ pc'[c] \in {"copy", "drop"} => todo'[c] = Part
        /\ \A d \in Client : d # c => pc'[d] = pc[d] /\ todo'[d] = todo[d]
        /\ UNCHANGED <<memVars, serverVars, toServer, block, source, got, history>>
    BY <1>0, <1>6 DEF ReceiveLock, Goto, TypeOK
  <2>2. c \in Writers => source[c] \in Content
    BY <1>0, <2>1 DEF CopyProgress
  <2>. QED  BY <2>1, <2>2, QuietStep
<1>7. ASSUME Die(c) PROVE BlockKnown'
  <2>1. /\ pc'[c] = "dead"
        /\ \A d \in Client : d # c =>
              pc'[d] = pc[d] /\ source'[d] = source[d] /\ got'[d] = got[d] /\ todo'[d] = todo[d]
        /\ UNCHANGED <<memVars, serverVars, toServer, block, history>>
    BY <1>0, <1>7 DEF Die, Goto, TypeOK
  <2>. QED  BY <2>1, QuietStep
<1>. QED  BY <1>1, <1>2, <1>3, <1>4, <1>5, <1>6, <1>7

\* The server accepts or closes a connection, or nothing happens.
LEMMA BlockConn ==
    ASSUME BlockKnown, Connected' \subseteq Connected,
           UNCHANGED <<memVars, table, netVars, clientVars, history>>
    PROVE  BlockKnown'
  BY DEF BlockKnown, DirtyIsHeld, BlockInMemory, WriterDone, LockValue, CopyProgress,
         ReadProgress, memVars, netVars, clientVars, history

\* The server handles a message: a block gets a number when a writer gets its
\* lock, and a release is under way as long as its grant counts.
LEMMA BlockHandle ==
    ASSUME LockInv, BlockKnown, NEW c \in Client, HandleLock(c)
    PROVE  BlockKnown'
<1>. USE DEF memVars, serverVars, netVars, clientVars, history
<1>1. /\ TypeOK /\ Dialogue(c) /\ HeldAsSaid(c) /\ toServer[c] # <<>>
      /\ toServer' = [toServer EXCEPT ![c] = Tail(@)]
      /\ UNCHANGED <<memVars, conn, clientVars, last>>
  BY DEF LockInv, Accounting, HandleLock
<1>2. ~InCS(c) /\ \A d \in Client : d # c => toServer'[d] = toServer[d]
  BY <1>1 DEF Dialogue, TypeOK
<1>3. /\ \A d \in Client : d # c => Held(d)' = Held(d)
      /\ \A b \in Block :
            LockValue(b) = -1 /\ LockValue(b)' # -1 => c \in Writers \cap holders'[b]
      /\ Held(c)' # {} => Len(toServer[c]) = 1
  <2>1. ASSUME NEW b \in Block, NEW x, toServer[c] = <<x>> PROVE Len(toServer[c]) = 1
    BY <2>1
  <2>. QED  BY <2>1, HandleEffect
<1>4. \A d \in Client, b \in Block : d # c => (d \in holders'[b] <=> d \in holders[b])
  BY <1>3 DEF Held
<1>5. DirtyIsHeld'
  BY <1>1, <1>2, <1>4 DEF BlockKnown, DirtyIsHeld
<1>6. BlockInMemory'
  <2>. SUFFICES ASSUME NEW b \in Block, LockValue(b)' # -1, WriterDone(b)'
                PROVE  last[b] # Junk /\ \A p \in Part : mem[<<b, p>>] = last[b]
    BY <1>1 DEF BlockInMemory
  <2>1. LockValue(b) # -1
    <3>. SUFFICES ASSUME LockValue(b) = -1 PROVE FALSE
      OBVIOUS
    <3>1. c \in Writers \cap holders'[b]
      BY <1>3
    <3>2. Held(c)' # {}
      BY <3>1 DEF Held
    <3>3. toServer'[c] = <<>>
      <4>. DEFINE s == toServer[c]
                  t == Tail(s)
      <4>1. s \in Seq(Nat) /\ s # <<>> /\ Len(s) = 1 /\ toServer'[c] = t
        BY <1>1, <1>3, <3>2 DEF TypeOK
      <4>2. t \in Seq(Nat) /\ Len(t) = Len(s) - 1
        BY <4>1, HeadTailProperties
      <4>. HIDE DEF t
      <4>3. Len(t) = 0
        BY <4>1, <4>2
      <4>4. t = <<>>
        BY <4>2, <4>3, EmptySeq
      <4>. QED  BY <4>1, <4>4
    <3>4. pc[c] = "release"
      BY <1>1, <3>1, <3>3 DEF WriterDone
    <3>. QED  BY <1>2, <3>4 DEF InCS
  <2>2. ASSUME NEW w \in Writers \cap holders[b] PROVE pc[w] = "release" \/ toServer[w] # <<>>
    <3>1. CASE w = c
      BY <1>1, <3>1
    <3>2. CASE w # c
      BY <1>1, <1>2, <1>4, <3>2 DEF WriterDone, Client
    <3>. QED  BY <3>1, <3>2
  <2>. QED  BY <2>1, <2>2 DEF BlockKnown, BlockInMemory, WriterDone
<1>7. CopyProgress'
  BY <1>1 DEF BlockKnown, CopyProgress
<1>8. ReadProgress'
  BY <1>1 DEF BlockKnown, ReadProgress, Connected
<1>. QED  BY <1>5, <1>6, <1>7, <1>8 DEF BlockKnown

\* What the memory operations ask for.
LEMMA MemoryParts ==
    ASSUME LockInv
    PROVE  /\ TypeOK /\ MemInv /\ Client = Host
           /\ \A b, d \in Block, p, q \in Part : <<b, p>> = <<d, q>> <=> b = d /\ p = q
           /\ \A b, d \in Block, p \in Part : <<b, p>> \in LinesOf(d) <=> b = d
           /\ \A b \in Block, p \in Part : <<b, p>> \in Line
           /\ \A c \in Readers : c \in Client /\ c \notin Writers
           /\ \A w \in Writers : w \in Client /\ w \notin Readers
  BY LockAssumption DEF LockInv, Accounting, TypeOK, MemInv, LinesOf, Client

\* A writer copies a line into its cache.
LEMMA BlockCopy ==
    ASSUME LockInv, BlockKnown, NoWriterForgotten, NEW c \in Client, NEW p \in Part,
           CopyPart(c, p)
    PROVE  BlockKnown'
<1>. USE DEF serverVars, netVars, clientVars, history
<1>0. /\ TypeOK /\ MemInv /\ Client = Host /\ Dialogue(c)
      /\ \A b, d \in Block, q, r \in Part : <<b, q>> = <<d, r>> <=> b = d /\ q = r
      /\ \A r \in Readers : r \in Client /\ r \notin Writers
      /\ \A w \in Writers : w \in Client /\ w \notin Readers
  BY MemoryParts DEF LockInv
<1>. DEFINE l == <<block[c], p>>
<1>1. /\ pc[c] = "copy" /\ p \in todo[c] /\ Store(c, l, source[c])
      /\ todo'[c] = todo[c] \ {p} /\ \A d \in Client : d # c => todo'[d] = todo[d]
      /\ pc'[c] = IF todo'[c] = {} THEN "flush" ELSE "copy"
      /\ \A d \in Client : d # c => pc'[d] = pc[d]
      /\ UNCHANGED <<serverVars, netVars, block, lock, source, got, history>>
  BY <1>0 DEF CopyPart, Goto, TypeOK
<1>2. c \in Writers
  BY <1>0, <1>1 DEF Dialogue
<1>3. /\ toServer[c] = <<>> /\ block[c] \in Block
      /\ \A b \in Block : c \in holders[b] <=> b = block[c]
  BY <1>1, <1>2, WorkerHolds
<1>4. l \in Line /\ source[c] \in Value
  BY <1>0, <1>3, MemoryParts DEF TypeOK
<1>. HIDE DEF l
<1>5. /\ mem' = mem
      /\ \A g \in Client : dirty'[g] = IF g = c THEN dirty[g] \cup {l} ELSE dirty[g]
      /\ \A g \in Client, k \in Line : copy'[g][k] = IF g = c /\ k = l THEN source[c] ELSE copy[g][k]
  <2>1. MemInv /\ c \in Host /\ Store(c, l, source[c])
    BY <1>0, <1>1
  <2>2. /\ mem' = mem
        /\ \A g \in Host : dirty'[g] = IF g = c THEN dirty[g] \cup {l} ELSE dirty[g]
        /\ \A g \in Host, k \in Line : copy'[g][k] = IF g = c /\ k = l THEN source[c] ELSE copy[g][k]
    BY <1>4, <2>1, StoreEffect
  <2>. QED  BY <1>0, <2>2
<1>6. DirtyIsHeld'
  <2>. SUFFICES ASSUME NEW h \in Client, NEW b \in Block, NEW q \in Part, <<b, q>> \in dirty'[h]
                PROVE  /\ h \in Writers \cap holders[b] /\ toServer[h] = <<>>
                       /\ pc'[h] = "dead" \/ (pc'[h] \in {"copy", "flush"} /\ block[h] = b)
    BY <1>1 DEF DirtyIsHeld
  <2>1. CASE <<b, q>> \in dirty[h]
    <3>1. /\ h \in Writers \cap holders[b] /\ toServer[h] = <<>>
          /\ pc[h] = "dead" \/ (pc[h] \in {"copy", "flush"} /\ block[h] = b)
      BY <2>1 DEF BlockKnown, DirtyIsHeld
    <3>2. CASE h = c
      BY <1>1, <3>1, <3>2
    <3>3. CASE h # c
      BY <1>1, <3>1, <3>3
    <3>. QED  BY <3>2, <3>3
  <2>2. CASE <<b, q>> \notin dirty[h]
    <3>0. h = c /\ <<b, q>> = l
      BY <1>5, <2>2
    <3>1. h = c /\ b = block[c]
      BY <3>0 DEF l
    <3>. QED  BY <1>1, <1>2, <1>3, <3>1
  <2>. QED  BY <2>1, <2>2
<1>7. BlockInMemory'
  <2>. SUFFICES ASSUME NEW b \in Block, LockValue(b) # -1, WriterDone(b)'
                PROVE  last[b] # Junk /\ \A q \in Part : mem[<<b, q>>] = last[b]
    BY <1>1, <1>5 DEF BlockInMemory, LockValue
  <2>1. WriterDone(b)
    BY <1>0, <1>1 DEF WriterDone
  <2>. QED  BY <2>1 DEF BlockKnown, BlockInMemory
<1>8. CopyProgress'
  <2>. SUFFICES ASSUME NEW w \in Writers
                PROVE  /\ pc'[w] \in {"send", "wait", "copy", "flush"} => source[w] \in Content
                       /\ pc'[w] = "flush" => todo'[w] = {}
                       /\ pc'[w] \in {"copy", "flush"} =>
                             \A q \in Part \ todo'[w] :
                                 IF <<block[w], q>> \in dirty'[w]
                                 THEN copy'[w][<<block[w], q>>] = source[w]
                                 ELSE mem[<<block[w], q>>] = source[w]
    BY <1>1, <1>5 DEF CopyProgress
  <2>0. /\ pc[w] \in {"send", "wait", "copy", "flush"} => source[w] \in Content
        /\ pc[w] = "flush" => todo[w] = {}
        /\ pc[w] \in {"copy", "flush"} =>
              \A q \in Part \ todo[w] :
                  IF <<block[w], q>> \in dirty[w]
                  THEN copy[w][<<block[w], q>>] = source[w]
                  ELSE mem[<<block[w], q>>] = source[w]
    BY DEF BlockKnown, CopyProgress
  <2>1. w \in Client /\ block[w] \in Block /\ \A q \in Part : <<block[w], q>> \in Line
    BY <1>0, MemoryParts DEF TypeOK
  <2>2. CASE w # c
    BY <1>1, <1>5, <2>0, <2>1, <2>2
  <2>3. CASE w = c
    <3>1. ASSUME NEW q \in Part \ todo'[c]
          PROVE  IF <<block[c], q>> \in dirty'[c]
                 THEN copy'[c][<<block[c], q>>] = source[c]
                 ELSE mem[<<block[c], q>>] = source[c]
      <4>1. CASE q = p
        BY <1>4, <1>5, <4>1 DEF l
      <4>2. CASE q # p
        <5>1. q \in Part \ todo[c] /\ <<block[c], q>> # l
          BY <1>0, <1>1, <1>3, <3>1, <4>2 DEF l
        <5>. QED  BY <1>1, <1>5, <2>0, <2>1, <2>3, <5>1
      <4>. QED  BY <4>1, <4>2
    <3>. QED  BY <1>1, <2>0, <2>3, <3>1
  <2>. QED  BY <2>2, <2>3
<1>9. ReadProgress'
  <2>. SUFFICES ASSUME NEW r \in Readers \cap Connected
                PROVE  /\ pc'[r] = "drop" => todo'[r] = Part
                       /\ pc'[r] = "read" =>
                             \A q \in Part :
                                 /\ copy'[r][<<block[r], q>>] \in {NoCopy, last[block[r]]}
                                 /\ q \notin todo'[r] => got[r][q] = last[block[r]]
                       /\ pc'[r] = "release" => \A q \in Part : got[r][q] = last[block[r]]
    BY <1>1 DEF ReadProgress, Connected
  <2>1. /\ r \in Client /\ r # c /\ block[r] \in Block
        /\ \A q \in Part : <<block[r], q>> \in Line
    BY <1>0, <1>2, MemoryParts DEF TypeOK
  <2>. QED  BY <1>1, <1>5, <2>1 DEF BlockKnown, ReadProgress
<1>. QED  BY <1>6, <1>7, <1>8, <1>9 DEF BlockKnown

\* A writer flushes its block: all of it, and nothing else of its own, gets
\* into the memory.
LEMMA BlockFlush ==
    ASSUME LockInv, BlockKnown, NoWriterForgotten, NEW c \in Client, FlushBlock(c)
    PROVE  BlockKnown'
<1>. USE DEF serverVars, netVars, clientVars, history
<1>0. /\ TypeOK /\ MemInv /\ Client = Host /\ Dialogue(c)
      /\ \A r \in Readers : r \in Client /\ r \notin Writers
      /\ \A w \in Writers : w \in Client /\ w \notin Readers
      /\ \A b, d \in Block, p \in Part : <<b, p>> \in LinesOf(d) <=> b = d
      /\ \A b \in Block, p \in Part : <<b, p>> \in Line
  BY MemoryParts DEF LockInv
<1>1. /\ pc[c] = "flush" /\ Flush(c, LinesOf(block[c]))
      /\ pc'[c] = "release" /\ \A d \in Client : d # c => pc'[d] = pc[d]
      /\ last' = [last EXCEPT ![block[c]] = source[c]]
      /\ UNCHANGED <<serverVars, netVars, block, lock, source, got, todo, holders>>
  BY <1>0 DEF FlushBlock, Goto, TypeOK
<1>2. c \in Writers
  BY <1>0, <1>1 DEF Dialogue
<1>3. /\ toServer[c] = <<>> /\ block[c] \in Block
      /\ \A b \in Block : c \in holders[b] <=> b = block[c]
  BY <1>1, <1>2, WorkerHolds
<1>4. \A b \in Block : last'[b] = IF b = block[c] THEN source[c] ELSE last[b]
  BY <1>0, <1>1, <1>3 DEF TypeOK
<1>5. /\ \A k \in Line : mem'[k] = IF k \in LinesOf(block[c]) /\ k \in dirty[c] THEN copy[c][k] ELSE mem[k]
      /\ \A g \in Client : dirty'[g] = IF g = c THEN dirty[g] \ LinesOf(block[c]) ELSE dirty[g]
      /\ \A g \in Client, k \in Line : copy'[g][k] = IF g = c /\ k \in LinesOf(block[c]) THEN NoCopy ELSE copy[g][k]
  <2>1. c \in Host
    BY <1>0
  <2>2. /\ \A k \in Line : mem'[k] = IF k \in LinesOf(block[c]) /\ k \in dirty[c] THEN copy[c][k] ELSE mem[k]
        /\ \A g \in Host : dirty'[g] = IF g = c THEN dirty[g] \ LinesOf(block[c]) ELSE dirty[g]
        /\ \A g \in Host, k \in Line : copy'[g][k] = IF g = c /\ k \in LinesOf(block[c]) THEN NoCopy ELSE copy[g][k]
    BY <1>0, <1>1, <2>1, FlushEffect
  <2>. QED  BY <1>0, <2>2
<1>6. /\ source[c] \in Content /\ source[c] # Junk
      /\ \A p \in Part : mem'[<<block[c], p>>] = source[c]
  <2>1. /\ source[c] \in Content
        /\ \A p \in Part : IF <<block[c], p>> \in dirty[c]
                           THEN copy[c][<<block[c], p>>] = source[c]
                           ELSE mem[<<block[c], p>>] = source[c]
    BY <1>1, <1>2 DEF BlockKnown, CopyProgress
  <2>2. \A p \in Part : <<block[c], p>> \in Line /\ <<block[c], p>> \in LinesOf(block[c])
    BY <1>0, <1>3
  <2>. QED  BY <1>5, <2>1, <2>2, LockAssumption
<1>7. \A b \in Block, p \in Part : b # block[c] => mem'[<<b, p>>] = mem[<<b, p>>]
  BY <1>0, <1>3, <1>5
<1>8. \A w \in Writers : w # c /\ pc[w] \in {"copy", "flush"} => block[w] # block[c]
  <2>. SUFFICES ASSUME NEW w \in Writers, w # c, pc[w] \in {"copy", "flush"}, block[w] = block[c]
                PROVE  FALSE
    OBVIOUS
  <2>1. w \in holders[block[c]] /\ c \in holders[block[c]]
    BY <1>3, WorkerHolds
  <2>. QED  BY <1>2, <1>3, <2>1, OneHolder
<1>9. DirtyIsHeld'
  <2>. SUFFICES ASSUME NEW h \in Client, NEW b \in Block, NEW q \in Part, <<b, q>> \in dirty'[h]
                PROVE  /\ h \in Writers \cap holders[b] /\ toServer[h] = <<>>
                       /\ pc'[h] = "dead" \/ (pc'[h] \in {"copy", "flush"} /\ block[h] = b)
    BY <1>1 DEF DirtyIsHeld
  <2>1. <<b, q>> \in dirty[h] /\ (h = c => b # block[c])
    <3>1. <<b, q>> \in LinesOf(block[c]) <=> b = block[c]
      BY <1>0, <1>3
    <3>. QED  BY <1>5, <3>1
  <2>2. /\ h \in Writers \cap holders[b] /\ toServer[h] = <<>>
        /\ pc[h] = "dead" \/ (pc[h] \in {"copy", "flush"} /\ block[h] = b)
    BY <2>1 DEF BlockKnown, DirtyIsHeld
  <2>. QED  BY <1>1, <2>1, <2>2
<1>10. BlockInMemory'
  <2>. SUFFICES ASSUME NEW b \in Block, LockValue(b) # -1, WriterDone(b)'
                PROVE  last'[b] # Junk /\ \A q \in Part : mem'[<<b, q>>] = last'[b]
    BY <1>1 DEF BlockInMemory, LockValue
  <2>1. CASE b = block[c]
    BY <1>4, <1>6, <2>1
  <2>2. CASE b # block[c]
    <3>1. WriterDone(b)
      BY <1>0, <1>1, <1>3, <2>2 DEF WriterDone
    <3>. QED  BY <1>4, <1>7, <2>2, <3>1 DEF BlockKnown, BlockInMemory
  <2>. QED  BY <2>1, <2>2
<1>11. CopyProgress'
  <2>. SUFFICES ASSUME NEW w \in Writers
                PROVE  /\ pc'[w] \in {"send", "wait", "copy", "flush"} => source[w] \in Content
                       /\ pc'[w] = "flush" => todo[w] = {}
                       /\ pc'[w] \in {"copy", "flush"} =>
                             \A q \in Part \ todo[w] :
                                 IF <<block[w], q>> \in dirty'[w]
                                 THEN copy'[w][<<block[w], q>>] = source[w]
                                 ELSE mem'[<<block[w], q>>] = source[w]
    BY <1>1 DEF CopyProgress
  <2>1. CASE w = c
    BY <1>1, <2>1
  <2>2. CASE w # c
    <3>1. w \in Client /\ block[w] \in Block /\ \A q \in Part : <<block[w], q>> \in Line
      BY <1>0 DEF TypeOK
    <3>2. /\ pc[w] \in {"send", "wait", "copy", "flush"} => source[w] \in Content
          /\ pc[w] = "flush" => todo[w] = {}
          /\ pc[w] \in {"copy", "flush"} =>
                \A q \in Part \ todo[w] :
                    IF <<block[w], q>> \in dirty[w]
                    THEN copy[w][<<block[w], q>>] = source[w]
                    ELSE mem[<<block[w], q>>] = source[w]
      BY DEF BlockKnown, CopyProgress
    <3>. QED  BY <1>1, <1>5, <1>7, <1>8, <2>2, <3>1, <3>2
  <2>. QED  BY <2>1, <2>2
<1>12. ReadProgress'
  <2>. SUFFICES ASSUME NEW r \in Readers \cap Connected
                PROVE  /\ pc'[r] = "drop" => todo[r] = Part
                       /\ pc'[r] = "read" =>
                             \A q \in Part :
                                 /\ copy'[r][<<block[r], q>>] \in {NoCopy, last'[block[r]]}
                                 /\ q \notin todo[r] => got[r][q] = last'[block[r]]
                       /\ pc'[r] = "release" => \A q \in Part : got[r][q] = last'[block[r]]
    BY <1>1 DEF ReadProgress, Connected
  <2>1. /\ r \in Client /\ r # c /\ block[r] \in Block
        /\ \A q \in Part : <<block[r], q>> \in Line
    BY <1>0, <1>2 DEF TypeOK
  <2>2. InCS(r) => block[r] # block[c]
    <3>. SUFFICES ASSUME InCS(r), block[r] = block[c] PROVE FALSE
      OBVIOUS
    <3>1. r \in holders[block[c]] /\ c \in holders[block[c]]
      BY <1>3 DEF LockInv, Accounting
    <3>. QED  BY <1>2, <1>3, <2>1, <3>1, OneHolder
  <2>. QED  BY <1>1, <1>4, <1>5, <2>1, <2>2 DEF BlockKnown, ReadProgress, InCS
<1>. QED  BY <1>9, <1>10, <1>11, <1>12 DEF BlockKnown

\* A reader drops its copies, or reads: it changes no memory, and every copy
\* it makes is of the block as the last writer left it.
LEMMA BlockRead ==
    ASSUME LockInv, BlockKnown, NEW c \in Client,
           DropStale(c) \/ \E p \in Part : ReadPart(c, p)
    PROVE  BlockKnown'
<1>. USE DEF serverVars, netVars, clientVars, history
<1>0. /\ TypeOK /\ MemInv /\ Client = Host /\ Dialogue(c) /\ block[c] \in Block
      /\ \A r \in Readers : r \in Client /\ r \notin Writers
      /\ \A w \in Writers : w \in Client /\ w \notin Readers
      /\ \A b, d \in Block, p, q \in Part : <<b, p>> = <<d, q>> <=> b = d /\ p = q
      /\ \A b, d \in Block, p \in Part : <<b, p>> \in LinesOf(d) <=> b = d
      /\ \A b \in Block, p \in Part : <<b, p>> \in Line
  BY MemoryParts DEF LockInv, TypeOK
<1>1. /\ UNCHANGED <<serverVars, netVars, block, lock, source, history>>
      /\ \A d \in Client : d # c => pc'[d] = pc[d] /\ todo'[d] = todo[d] /\ got'[d] = got[d]
      /\ pc[c] \in {"drop", "read"} /\ pc'[c] \in {"read", "release"}
  <2>1. CASE DropStale(c)
    BY <1>0, <2>1 DEF DropStale, Goto, TypeOK
  <2>2. ASSUME NEW p \in Part, ReadPart(c, p) PROVE <1>1!1 /\ <1>1!2 /\ <1>1!3
    BY <1>0, <2>2 DEF ReadPart, Goto, TypeOK
  <2>. QED  BY <2>1, <2>2
<1>2. c \in Readers /\ InCS(c)
  BY <1>0, <1>1 DEF Dialogue, InCS
<1>3. \A b \in Block, p \in Part : <<b, p>> \notin dirty[c]
  BY <1>0, <1>2 DEF BlockKnown, DirtyIsHeld
<1>4. /\ \A k \in Line : mem'[k] = mem[k]
      /\ \A g \in Client : dirty'[g] = dirty[g]
      /\ \A g \in Client, k \in Line : g # c => copy'[g][k] = copy[g][k]
  <2>1. c \in Host
    BY <1>0
  <2>2. CASE DropStale(c)
    <3>1. Flush(c, LinesOf(block[c]))
      BY <2>2 DEF DropStale
    <3>2. \A k \in Line : k \notin dirty[c]
      <4>1. \A k \in Line : \E b \in Block, p \in Part : k = <<b, p>>
        <5>1. Line = Block \X Part
          BY LockAssumption
        <5>. QED  BY ONLY <5>1
      <4>. QED  BY <1>3, <4>1
    <3>3. /\ \A k \in Line : mem'[k] = IF k \in LinesOf(block[c]) /\ k \in dirty[c] THEN copy[c][k] ELSE mem[k]
          /\ \A g \in Host : dirty'[g] = IF g = c THEN dirty[g] \ LinesOf(block[c]) ELSE dirty[g]
          /\ \A g \in Host, k \in Line : copy'[g][k] = IF g = c /\ k \in LinesOf(block[c]) THEN NoCopy ELSE copy[g][k]
      BY <1>0, <2>1, <3>1, FlushEffect
    <3>4. dirty[c] = {}
      <4>1. dirty[c] \subseteq Line
        BY <1>0, <2>1 DEF MemInv, MemTypeOK
      <4>. QED  BY <3>2, <4>1
    <3>5. \A g \in Host : dirty'[g] = dirty[g]
      BY <3>3, <3>4
    <3>. QED  BY <1>0, <3>2, <3>3, <3>5
  <2>3. ASSUME NEW p \in Part, ReadPart(c, p) PROVE <1>4!1 /\ <1>4!2 /\ <1>4!3
    <3>. DEFINE l == <<block[c], p>>
    <3>1. Load(c, l) /\ l \in Line
      BY <1>0, <2>3 DEF ReadPart
    <3>. HIDE DEF l
    <3>2. /\ mem' = mem /\ dirty' = dirty
          /\ \A g \in Host, k \in Line : copy'[g][k] = IF g = c /\ k = l THEN Sees(c, l) ELSE copy[g][k]
      BY <1>0, <2>1, <3>1, LoadEffect
    <3>. QED  BY <1>0, <3>2
  <2>. QED  BY <2>2, <2>3
<1>5. DirtyIsHeld'
  BY <1>0, <1>1, <1>2, <1>4 DEF BlockKnown, DirtyIsHeld
<1>6. BlockInMemory'
  <2>. SUFFICES ASSUME NEW b \in Block, LockValue(b) # -1, WriterDone(b)'
                PROVE  last[b] # Junk /\ \A q \in Part : mem'[<<b, q>>] = last[b]
    BY <1>1 DEF BlockInMemory, LockValue
  <2>1. WriterDone(b)
    BY <1>0, <1>1, <1>2 DEF WriterDone
  <2>. QED  BY <1>0, <1>4, <2>1 DEF BlockKnown, BlockInMemory
<1>7. CopyProgress'
  <2>. SUFFICES ASSUME NEW w \in Writers
                PROVE  /\ pc'[w] \in {"send", "wait", "copy", "flush"} => source[w] \in Content
                       /\ pc'[w] = "flush" => todo'[w] = {}
                       /\ pc'[w] \in {"copy", "flush"} =>
                             \A q \in Part \ todo'[w] :
                                 IF <<block[w], q>> \in dirty'[w]
                                 THEN copy'[w][<<block[w], q>>] = source[w]
                                 ELSE mem'[<<block[w], q>>] = source[w]
    BY <1>1 DEF CopyProgress
  <2>1. /\ w \in Client /\ w # c /\ block[w] \in Block
        /\ \A q \in Part : <<block[w], q>> \in Line
    BY <1>0, <1>2 DEF TypeOK
  <2>. QED  BY <1>1, <1>4, <2>1 DEF BlockKnown, CopyProgress
<1>8. ASSUME c \in Connected
      PROVE  /\ pc'[c] = "read" =>
                   \A q \in Part :
                       /\ copy'[c][<<block[c], q>>] \in {NoCopy, last[block[c]]}
                       /\ q \notin todo'[c] => got'[c][q] = last[block[c]]
             /\ pc'[c] = "release" => \A q \in Part : got'[c][q] = last[block[c]]
  <2>1. CASE DropStale(c)
    <3>1. /\ pc'[c] = "read" /\ todo'[c] = Part /\ Flush(c, LinesOf(block[c]))
      BY <1>0, <1>2, <1>8, <2>1 DEF DropStale, Goto, TypeOK, BlockKnown, ReadProgress
    <3>2. c \in Host
      BY <1>0
    <3>3. \A k \in Line : copy'[c][k] = IF k \in LinesOf(block[c]) THEN NoCopy ELSE copy[c][k]
      BY <1>0, <3>1, <3>2, FlushEffect
    <3>4. \A q \in Part : copy'[c][<<block[c], q>>] = NoCopy
      BY <1>0, <3>3
    <3>. QED  BY <3>1, <3>4
  <2>2. ASSUME NEW p \in Part, ReadPart(c, p) PROVE <1>8!2
    <3>. DEFINE l == <<block[c], p>>
                v == last[block[c]]
    <3>1. /\ Load(c, l) /\ l \in Line /\ pc[c] = "read"
          /\ todo'[c] = todo[c] \ {p} /\ pc'[c] = IF todo'[c] = {} THEN "release" ELSE "read"
          /\ got'[c][p] = Sees(c, l) /\ \A q \in Part : q # p => got'[c][q] = got[c][q]
      BY <1>0, <2>2 DEF ReadPart, Goto, TypeOK
    <3>2. mem[l] = v
      BY <1>2, <1>8, ReaderKnows DEF BlockKnown
    <3>3. \A q \in Part : /\ copy[c][<<block[c], q>>] \in {NoCopy, v}
                          /\ q \notin todo[c] => got[c][q] = v
      BY <1>2, <1>8, <3>1 DEF BlockKnown, ReadProgress
    <3>4. Sees(c, l) = v
      BY <3>2, <3>3 DEF Sees
    <3>5. c \in Host
      BY <1>0
    <3>. HIDE DEF l, v
    <3>6. \A k \in Line : copy'[c][k] = IF k = l THEN Sees(c, l) ELSE copy[c][k]
      BY <1>0, <3>1, <3>5, LoadEffect
    <3>7. \A q \in Part : copy'[c][<<block[c], q>>] \in {NoCopy, v}
      BY <1>0, <3>3, <3>4, <3>6
    <3>8. \A q \in Part : q \notin todo'[c] => got'[c][q] = v
      BY <3>1, <3>3, <3>4
    <3>9. pc'[c] = "release" => \A q \in Part : got'[c][q] = v
      BY <3>1, <3>8
    <3>. QED  BY <3>7, <3>8, <3>9 DEF v
  <2>. QED  BY <2>1, <2>2
<1>9. ReadProgress'
  <2>. SUFFICES ASSUME NEW r \in Readers \cap Connected
                PROVE  /\ pc'[r] = "drop" => todo'[r] = Part
                       /\ pc'[r] = "read" =>
                             \A q \in Part :
                                 /\ copy'[r][<<block[r], q>>] \in {NoCopy, last[block[r]]}
                                 /\ q \notin todo'[r] => got'[r][q] = last[block[r]]
                       /\ pc'[r] = "release" => \A q \in Part : got'[r][q] = last[block[r]]
    BY <1>1 DEF ReadProgress, Connected
  <2>1. r \in Client /\ \A q \in Part : <<block[r], q>> \in Line
    BY <1>0 DEF TypeOK
  <2>2. CASE r = c
    BY <1>1, <1>8, <2>2
  <2>3. CASE r # c
    BY <1>1, <1>4, <2>1, <2>3 DEF BlockKnown, ReadProgress
  <2>. QED  BY <2>2, <2>3
<1>. QED  BY <1>5, <1>6, <1>7, <1>9 DEF BlockKnown

\* A cache writes a line back or drops it: only the one that has the write lock
\* can change the memory.
LEMMA BlockEvict ==
    ASSUME LockInv, BlockKnown, NoWriterForgotten, NEW h \in Client, NEW l \in Line, Evict(h, l),
           UNCHANGED <<serverVars, netVars, clientVars, history>>
    PROVE  BlockKnown'
<1>. USE DEF serverVars, netVars, clientVars, history
<1>0. /\ TypeOK /\ MemInv /\ h \in Host /\ Client = Host
      /\ \A r \in Readers : r \in Client /\ r \notin Writers
      /\ \A w \in Writers : w \in Client /\ w \notin Readers
      /\ \A b \in Block, p \in Part : <<b, p>> \in Line
  BY MemoryParts
<1>1. /\ \A k \in Line : mem'[k] = IF k = l /\ k \in dirty[h] THEN copy[h][k] ELSE mem[k]
      /\ \A g \in Client : dirty'[g] = IF g = h THEN dirty[g] \ {l} ELSE dirty[g]
      /\ \A g \in Client, k \in Line : copy'[g][k] = IF g = h /\ k = l THEN NoCopy ELSE copy[g][k]
  <2>1. /\ \A k \in Line : mem'[k] = IF k = l /\ k \in dirty[h] THEN copy[h][k] ELSE mem[k]
        /\ \A g \in Host : dirty'[g] = IF g = h THEN dirty[g] \ {l} ELSE dirty[g]
        /\ \A g \in Host, k \in Line : copy'[g][k] = IF g = h /\ k = l THEN NoCopy ELSE copy[g][k]
    BY <1>0, EvictEffect
  <2>. QED  BY <1>0, <2>1
<1>2. DirtyIsHeld'
  <2>1. \A g \in Client : dirty'[g] \subseteq dirty[g]
    BY <1>1
  <2>. QED  BY <2>1 DEF BlockKnown, DirtyIsHeld
<1>3. BlockInMemory'
  <2>. SUFFICES ASSUME NEW b \in Block, LockValue(b) # -1, WriterDone(b)
                PROVE  last[b] # Junk /\ \A p \in Part : mem'[<<b, p>>] = last[b]
    BY DEF BlockInMemory, LockValue, WriterDone
  <2>1. last[b] # Junk /\ \A p \in Part : mem[<<b, p>>] = last[b]
    BY DEF BlockKnown, BlockInMemory
  <2>2. ASSUME NEW p \in Part PROVE <<b, p>> \notin dirty[h]
    BY DEF BlockKnown, DirtyIsHeld, WriterDone
  <2>. QED  BY <1>0, <1>1, <2>1, <2>2
<1>4. CopyProgress'
  <2>. SUFFICES ASSUME NEW w \in Writers, pc[w] \in {"copy", "flush"}, NEW p \in Part \ todo[w]
                PROVE  IF <<block[w], p>> \in dirty'[w]
                       THEN copy'[w][<<block[w], p>>] = source[w]
                       ELSE mem'[<<block[w], p>>] = source[w]
    BY DEF BlockKnown, CopyProgress
  <2>. DEFINE k == <<block[w], p>>
  <2>1. w \in Client /\ block[w] \in Block /\ k \in Line
    BY <1>0 DEF TypeOK
  <2>2. IF k \in dirty[w] THEN copy[w][k] = source[w] ELSE mem[k] = source[w]
    BY DEF BlockKnown, CopyProgress
  <2>3. k \in dirty[h] => h = w
    <3>. HAVE k \in dirty[h]
    <3>1. h \in Writers \cap holders[block[w]]
      BY <2>1 DEF BlockKnown, DirtyIsHeld
    <3>2. w \in holders[block[w]]
      BY <2>1, WorkerHolds
    <3>. QED  BY <2>1, <3>1, <3>2, OneHolder
  <2>. HIDE DEF k
  <2>4. IF k \in dirty'[w] THEN copy'[w][k] = source[w] ELSE mem'[k] = source[w]
    BY <1>1, <2>1, <2>2, <2>3
  <2>. QED  BY <2>4 DEF k
<1>5. ReadProgress'
  <2>. SUFFICES ASSUME NEW r \in Readers \cap Connected, pc[r] = "read", NEW p \in Part
                PROVE  copy'[r][<<block[r], p>>] \in {NoCopy, last[block[r]]}
    BY DEF BlockKnown, ReadProgress, Connected
  <2>1. /\ r \in Client /\ <<block[r], p>> \in Line
        /\ copy[r][<<block[r], p>>] \in {NoCopy, last[block[r]]}
    BY <1>0 DEF BlockKnown, ReadProgress, TypeOK
  <2>. QED  BY <1>1, <2>1
<1>. QED  BY <1>2, <1>3, <1>4, <1>5 DEF BlockKnown

\* A cache prefetches a line: what a reader gets of its block is what the last
\* writer left there.
LEMMA BlockPrefetch ==
    ASSUME LockInv, BlockKnown, NEW h \in Readers, NEW l \in Line, Prefetch(h, l),
           UNCHANGED <<serverVars, netVars, clientVars, history>>
    PROVE  BlockKnown'
<1>. USE DEF serverVars, netVars, clientVars, history
<1>0. /\ TypeOK /\ MemInv /\ h \in Host /\ Client = Host
      /\ \A r \in Readers : r \in Client /\ r \notin Writers
      /\ \A w \in Writers : w \in Client /\ w \notin Readers
      /\ \A b \in Block, p \in Part : <<b, p>> \in Line
  BY MemoryParts
<1>1. /\ mem' = mem /\ dirty' = dirty
      /\ \A g \in Client, k \in Line : copy'[g][k] = IF g = h /\ k = l THEN mem[l] ELSE copy[g][k]
  <2>1. /\ mem' = mem /\ dirty' = dirty
        /\ \A g \in Host, k \in Line : copy'[g][k] = IF g = h /\ k = l THEN mem[l] ELSE copy[g][k]
    BY <1>0, PrefetchEffect
  <2>. QED  BY <1>0, <2>1
<1>2. DirtyIsHeld'
  BY <1>1 DEF BlockKnown, DirtyIsHeld
<1>3. BlockInMemory'
  BY <1>1 DEF BlockKnown, BlockInMemory, LockValue, WriterDone
<1>4. CopyProgress'
  <2>. SUFFICES ASSUME NEW w \in Writers, pc[w] \in {"copy", "flush"}, NEW p \in Part \ todo[w]
                PROVE  IF <<block[w], p>> \in dirty[w]
                       THEN copy'[w][<<block[w], p>>] = source[w]
                       ELSE mem[<<block[w], p>>] = source[w]
    BY <1>1 DEF BlockKnown, CopyProgress
  <2>1. w \in Client /\ w # h /\ <<block[w], p>> \in Line
    BY <1>0 DEF TypeOK
  <2>. QED  BY <1>1, <2>1 DEF BlockKnown, CopyProgress
<1>5. ReadProgress'
  <2>. SUFFICES ASSUME NEW r \in Readers \cap Connected, pc[r] = "read", NEW p \in Part
                PROVE  copy'[r][<<block[r], p>>] \in {NoCopy, last[block[r]]}
    BY DEF BlockKnown, ReadProgress, Connected
  <2>1. /\ r \in Client /\ <<block[r], p>> \in Line
        /\ copy[r][<<block[r], p>>] \in {NoCopy, last[block[r]]}
    BY <1>0 DEF BlockKnown, ReadProgress, TypeOK
  <2>2. mem[<<block[r], p>>] = last[block[r]]
    BY ReaderKnows DEF BlockKnown, InCS
  <2>. QED  BY <1>1, <2>1, <2>2
<1>. QED  BY <1>2, <1>3, <1>4, <1>5 DEF BlockKnown

\* The server is started again before any writer: nothing is dirty, and no
\* block is readable.
LEMMA BlockRestart ==
    ASSUME LockInv, BlockKnown, Restart, NoWriterForgotten'
    PROVE  BlockKnown'
<1>. USE DEF serverVars, netVars, clientVars, history
<1>1. /\ table' = CreateHashTable
      /\ conn' = [c \in Client |-> IF pc[c] = "off" THEN "new" ELSE "lost"]
      /\ UNCHANGED <<memVars, toClient, clientVars, last>>
  BY DEF Restart
<1>2. \A w \in Writers : pc[w] = "off"
  BY <1>1 DEF NoWriterForgotten, Client
<1>3. \A r \in Connected' : pc[r] = "off"
  BY <1>1 DEF Connected
<1>4. DirtyIsHeld'
  BY <1>1, <1>2 DEF BlockKnown, DirtyIsHeld, memVars
<1>5. BlockInMemory'
  <2>1. \A b \in Block : LockValue(b)' = -1
    BY <1>1, EmptyTable DEF LockValue
  <2>. QED  BY <2>1 DEF BlockInMemory
<1>6. CopyProgress'
  BY <1>1, <1>2 DEF CopyProgress
<1>7. ReadProgress'
  BY <1>1, <1>3 DEF ReadProgress
<1>. QED  BY <1>4, <1>5, <1>6, <1>7 DEF BlockKnown

\* No step makes the server remember a writer it forgot.
LEMMA ForgottenStays ==
    ASSUME LockInv, [Next]_vars, NoWriterForgotten'
    PROVE  NoWriterForgotten
<1>. USE DEF serverVars, netVars, clientVars, history
<1>1. conn \in [Client -> {"new", "open", "closed", "lost"}]
  BY DEF LockInv, Accounting, TypeOK
<1>2. CASE Restart
  <2>1. \A w \in Writers : w \in Client /\ pc[w] = "off" /\ Dialogue(w)
    BY <1>2 DEF Restart, NoWriterForgotten, LockInv, Client
  <2>. QED  BY <2>1 DEF NoWriterForgotten, Dialogue
<1>3. ASSUME NEW c \in Client, Accept(c) \/ CloseConn(c) PROVE NoWriterForgotten
  BY <1>1, <1>3 DEF Accept, CloseConn, NoWriterForgotten, Client
<1>4. CASE UNCHANGED conn
  BY <1>4 DEF NoWriterForgotten
<1>5. ASSUME NEW c \in Client, ClientStep(c) \/ Die(c) \/ HandleLock(c) PROVE UNCHANGED conn
  BY <1>5 DEF ClientStep, Connect, SendLock, ReceiveLock, Release, SelectWrite, CopyPart,
              ReadPart, SelectRead, FlushBlock, DropStale, Die, HandleLock
<1>6. CASE Hardware \/ UNCHANGED vars
  BY <1>4, <1>6 DEF Hardware, vars
<1>. QED  BY <1>2, <1>3, <1>4, <1>5, <1>6 DEF Next, ServerStep

LEMMA BlockStep ==
    ASSUME LockInv, BlockInv, [Next]_vars
    PROVE  BlockInv'
<1>. SUFFICES ASSUME NoWriterForgotten' PROVE BlockKnown'
  BY DEF BlockInv
<1>. USE DEF serverVars, netVars, clientVars, history
<1>1. NoWriterForgotten /\ BlockKnown
  BY ForgottenStays DEF BlockInv
<1>2. ASSUME NEW c \in Client, Accept(c) \/ CloseConn(c) PROVE BlockKnown'
  <2>1. Connected' \subseteq Connected
    BY <1>2 DEF Accept, CloseConn, Connected, LockInv, Accounting, TypeOK
  <2>2. UNCHANGED <<memVars, table, netVars, clientVars, history>>
    BY <1>2 DEF Accept, CloseConn
  <2>. QED  BY <1>1, <2>1, <2>2, BlockConn
<1>3. ASSUME NEW c \in Client, ClientStep(c) \/ Die(c) \/ HandleLock(c) PROVE BlockKnown'
  BY <1>1, <1>3, BlockQuiet, BlockHandle, BlockCopy, BlockFlush, BlockRead DEF ClientStep
<1>4. CASE Hardware
  <2>1. UNCHANGED <<serverVars, netVars, clientVars, history>>
    BY <1>4 DEF Hardware
  <2>2. \/ \E h \in Client, l \in Line : Evict(h, l)
        \/ \E h \in Readers, l \in Line : Prefetch(h, l)
    BY <1>4 DEF Hardware
  <2>. QED  BY <1>1, <2>1, <2>2, BlockEvict, BlockPrefetch
<1>5. CASE UNCHANGED vars
  <2>1. Connected' \subseteq Connected
    BY <1>5 DEF Connected, vars
  <2>2. UNCHANGED <<memVars, table, netVars, clientVars, history>>
    BY <1>5 DEF vars
  <2>. QED  BY <1>1, <2>1, <2>2, BlockConn
<1>. QED  BY <1>1, <1>2, <1>3, <1>4, <1>5, BlockRestart DEF Next, ServerStep

LEMMA BlockInit ==
    ASSUME Init
    PROVE  BlockInv
<1>1. \A b \in Block : LockValue(b) = -1
  BY NoLocks DEF Init
<1>2. \A h \in Client : dirty[h] = {} /\ pc[h] = "off"
  BY LockAssumption DEF Init, EmptyCaches
<1>3. BlockInMemory
  BY <1>1 DEF BlockInMemory
<1>. QED  BY <1>2, <1>3 DEF BlockInv, BlockKnown, DirtyIsHeld, CopyProgress, ReadProgress,
                            Connected, Client

LEMMA BlockInvariant == Spec => []BlockInv
<1>1. Init => BlockInv
  BY BlockInit
<1>2. LockInv /\ BlockInv /\ [Next]_vars => BlockInv'
  BY BlockStep
<1>. QED  BY <1>1, <1>2, LockInvariant, PTL DEF Spec

\* The hand-over of a block through the lock and the flushes: a reader that is
\* about to release its lock has read the whole block of the last writer, although
\* no cache sees another's stores.
THEOREM ReadersUpToDate == Spec => []ReadsLastWrite
<1>1. ASSUME LockInv, BlockInv PROVE ReadsLastWrite
  <2>. SUFFICES ASSUME NEW c \in Readers \cap Connected, pc[c] = "release", NoWriterForgotten,
                       NEW p \in Part
                PROVE  got[c][p] = last[block[c]] /\ got[c][p] # Junk
    BY DEF ReadsLastWrite
  <2>1. BlockKnown
    BY <1>1 DEF BlockInv
  <2>2. got[c][p] = last[block[c]]
    BY <2>1 DEF BlockKnown, ReadProgress
  <2>3. last[block[c]] # Junk
    BY <1>1, <2>1, ReaderKnows DEF BlockKnown, InCS
  <2>. QED  BY <2>2, <2>3
<1>. QED  BY <1>1, LockInvariant, BlockInvariant, PTL
=============================================================================
