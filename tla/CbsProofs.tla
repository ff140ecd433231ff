----------------------------- MODULE CbsProofs ------------------------------
(***************************************************************************)
(* Proofs about the page caches of cbs_req/, for a disk and a cache of any *)
(* size and any contents.                                                  *)
(***************************************************************************)
EXTENDS CbsPmem, CbsPmemobj, CbsDirect,
        FiniteSetTheorems, FunctionTheorems, SequenceTheorems, WellFoundedInduction, TLAPS

-----------------------------------------------------------------------------
(* Numbers, sets of pages and their order.                                 *)

\* The requests of the disk are in its blocks.
LEMMA BlocksOfRequests ==
    /\ IsFiniteSet(Req) /\ Req \subseteq Nat
    /\ \A r \in Req : BlockOf(r) \in Block
<1>1. BlockPageNum \in Nat /\ BlockPageNum > 0 /\ DiskBlockNum \in Nat
  BY LayoutAssumption
<1>2. BlockPageNum * DiskBlockNum \in Nat
  BY <1>1
<1>3. ASSUME NEW r \in Req
      PROVE  BlockOf(r) \in Block
  <2>1. r \in Nat /\ r < BlockPageNum * DiskBlockNum
    BY <1>2 DEF Req
  <2>. DEFINE q == r \div BlockPageNum
  <2>2. q \in Nat /\ BlockPageNum * q <= r
    BY <1>1, <2>1
  <2>. HIDE DEF q
  <2>3. ~(DiskBlockNum <= q)
    <3>1. DiskBlockNum <= q => BlockPageNum * DiskBlockNum <= BlockPageNum * q
      <4>1. ASSUME DiskBlockNum <= q
            PROVE  BlockPageNum * DiskBlockNum <= BlockPageNum * q
        <5>1. BlockPageNum * (q - DiskBlockNum) >= 0
          BY <1>1, <2>2, <4>1
        <5>. QED  BY <1>1, <2>2, <5>1
      <4>. QED  BY <4>1
    <3>2. BlockPageNum * q \in Int
      BY <1>1, <2>2
    <3>. QED  BY ONLY <1>2, <2>1, <2>2, <3>1, <3>2
  <2>. QED  BY <1>1, <2>2, <2>3 DEF BlockOf, Block, q
<1>. QED  BY <1>2, <1>3, FS_Interval DEF Req

LEMMA PagesCounted == /\ PageNum \in Nat /\ Page \subseteq Nat
                      /\ IsFiniteSet(Page) /\ Cardinality(Page) = PageNum
<1>1. PageNum \in Nat
  BY PmemAssumption
<1>2. IsFiniteSet(1 .. PageNum) /\ Cardinality(1 .. PageNum) = IF 1 > PageNum THEN 0 ELSE PageNum - 1 + 1
  BY <1>1, FS_Interval
<1>3. Cardinality(1 .. PageNum) = PageNum
  BY <1>1, <1>2
<1>. QED  BY <1>1, <1>2, <1>3 DEF Page

\* A set of pages has a last one.
LEMMA LastPage ==
    ASSUME NEW S, S \subseteq Page, S # {}
    PROVE  \E p \in S : \A q \in S : q <= p
<1>1. PageNum \in Nat /\ \A p \in S : p \in Nat /\ PageNum - p \in Nat
  BY PmemAssumption DEF Page
<1>. DEFINE T == {PageNum - p : p \in S}
<1>2. T \subseteq Nat /\ T # {}
  BY <1>1
<1>. HIDE DEF T
<1>3. PICK x \in T : \A y \in T : ~(<<y, x>> \in OpToRel(<, Nat))
  BY <1>2, NatLessThanWellFounded, WFMin
<1>4. \A y \in T : ~(y < x)
  BY <1>2, <1>3 DEF OpToRel
<1>5. PICK p \in S : x = PageNum - p
  BY DEF T
<1>6. \A q \in S : ~(PageNum - q < PageNum - p)
  BY <1>4, <1>5 DEF T
<1>7. \A q \in S : q <= p
  BY <1>1, <1>6
<1>. QED  BY <1>7

\* A set of pages has a sequence in ascending order.
LEMMA PagesInOrder ==
    ASSUME NEW S, S \subseteq Page
    PROVE  /\ Cardinality(S) \in Nat
           /\ \E s \in [1 .. Cardinality(S) -> S] : \A i, j \in DOMAIN s : i < j => s[i] < s[j]
<1>1. S \subseteq Nat /\ IsFiniteSet(S)
  BY PagesCounted, FS_Subset
<1>. DEFINE n == Cardinality(S)
            Less(p) == {q \in S : q < p}
            rank == [p \in S |-> Cardinality(Less(p))]
<1>2. n \in Nat
  BY <1>1, FS_CardinalityType
<1>3. ASSUME NEW p \in S
      PROVE  /\ IsFiniteSet(Less(p)) /\ Cardinality(Less(p)) \in Nat
             /\ IsFiniteSet(Less(p) \cup {p}) /\ Cardinality(Less(p) \cup {p}) = Cardinality(Less(p)) + 1
  <2>1. Less(p) \in SUBSET S /\ p \notin Less(p)
    BY <1>1
  <2>2. IsFiniteSet(Less(p))
    BY <1>1, <2>1, FS_Subset
  <2>. HIDE DEF Less
  <2>. QED  BY <2>1, <2>2, FS_CardinalityType, FS_AddElement
<1>4. ASSUME NEW p \in S
      PROVE  Cardinality(Less(p)) \in 0 .. n - 1
  <2>1. Less(p) \cup {p} \in SUBSET S
    OBVIOUS
  <2>2. Cardinality(Less(p) \cup {p}) <= n
    BY <1>1, <2>1, FS_Subset
  <2>. HIDE DEF Less, n
  <2>3. Cardinality(Less(p)) \in Nat /\ Cardinality(Less(p)) + 1 <= n
    BY <1>3, <2>2
  <2>. QED  BY <1>2, <2>3
<1>5. ASSUME NEW p \in S, NEW q \in S, p < q
      PROVE  Cardinality(Less(p)) < Cardinality(Less(q))
  <2>1. Less(p) \cup {p} \in SUBSET Less(q)
    <3>1. p \in Less(q)
      BY <1>5
    <3>2. ASSUME NEW x \in Less(p)
          PROVE  x \in Less(q)
      BY <1>1, <1>5
    <3>. QED  BY <3>1, <3>2
  <2>. HIDE DEF Less
  <2>2. Cardinality(Less(p) \cup {p}) <= Cardinality(Less(q))
    BY <1>3, <2>1, FS_Subset
  <2>3. /\ Cardinality(Less(p)) \in Nat /\ Cardinality(Less(q)) \in Nat
        /\ Cardinality(Less(p)) + 1 <= Cardinality(Less(q))
    BY <1>3, <2>2
  <2>. QED  BY <2>3
<1>. HIDE DEF Less
<1>6. rank \in Injection(S, 0 .. n - 1)
  <2>1. rank \in [S -> 0 .. n - 1]
    BY <1>4
  <2>2. ASSUME NEW p \in S, NEW q \in S, rank[p] = rank[q]
        PROVE  p = q
    <3>1. Cardinality(Less(p)) = Cardinality(Less(q)) /\ Cardinality(Less(p)) \in Nat
      BY <1>3, <2>2
    <3>2. ~(p < q) /\ ~(q < p)
      BY <1>3, <1>5, <3>1
    <3>. QED  BY <1>1, <3>2
  <2>. QED  BY <2>1, <2>2 DEF Injection, IsInjective
<1>7. IsFiniteSet(0 .. n - 1) /\ Cardinality(0 .. n - 1) = n
  BY <1>2, FS_Interval
<1>. HIDE DEF rank
<1>8. rank \in Surjection(S, 0 .. n - 1)
  BY <1>6, <1>7, FS_Injection
<1>9. \A i \in 1 .. n : \E p \in S : rank[p] = i - 1
  BY <1>2, <1>8 DEF Surjection
<1>. DEFINE s == [i \in 1 .. n |-> CHOOSE p \in S : rank[p] = i - 1]
<1>10. \A i \in 1 .. n : s[i] \in S /\ rank[s[i]] = i - 1
  BY <1>9
<1>11. s \in [1 .. n -> S]
  BY <1>10
<1>12. ASSUME NEW i \in 1 .. n, NEW j \in 1 .. n, i < j
       PROVE  s[i] < s[j]
  <2>1. ~(s[i] = s[j]) /\ ~(rank[s[j]] < rank[s[i]])
    BY <1>2, <1>10, <1>12
  <2>2. ~(s[j] < s[i])
    BY <1>5, <1>10, <2>1 DEF rank
  <2>3. s[i] \in Nat /\ s[j] \in Nat
    BY <1>1, <1>10
  <2>. QED  BY ONLY <2>1, <2>2, <2>3
<1>. HIDE DEF s
<1>13. DOMAIN s = 1 .. n
  BY <1>11
<1>. QED  BY <1>2, <1>11, <1>12, <1>13

\* A sequence of pages without repetition is no longer than there are pages.
LEMMA NoRoomForMore ==
    ASSUME NEW s \in Seq(Page), \A i, j \in 1 .. Len(s) : i # j => s[i] # s[j]
    PROVE  Len(s) <= PageNum
<1>1. PageNum \in Nat /\ Len(s) \in Nat /\ s \in [1 .. Len(s) -> Page]
  BY PmemAssumption
<1>2. s \in Injection(1 .. Len(s), Page)
  BY <1>1 DEF Injection, IsInjective
<1>3. /\ IsFiniteSet(Page) /\ Cardinality(Page) = PageNum
      /\ Cardinality(1 .. Len(s)) = Len(s)
  <2>1. Cardinality(1 .. Len(s)) = IF 1 > Len(s) THEN 0 ELSE Len(s) - 1 + 1
    BY <1>1, FS_Interval
  <2>. QED  BY <1>1, <2>1, PagesCounted
<1>. QED  BY <1>2, <1>3, FS_Injection

-----------------------------------------------------------------------------
(* What cbs_init finds.                                                    *)

LEMMA ScanFreeKnown ==
    /\ ScanFree \in Seq(Page)
    /\ \A i, j \in 1 .. Len(ScanFree) : i # j => ScanFree[i] # ScanFree[j]
    /\ \A i \in 1 .. Len(ScanFree) : ~meta[ScanFree[i]].valid
<1>. DEFINE F == {p \in Page : ~meta[p].valid}
            n == Cardinality(F)
            Good(s) == \A i, j \in DOMAIN s : i < j => s[i] < s[j]
<1>1. n \in Nat /\ \E s \in [1 .. n -> F] : Good(s)
  BY PagesInOrder
<1>2. ScanFree = CHOOSE s \in [1 .. n -> F] : Good(s)
  BY DEF ScanFree
<1>. HIDE DEF Good
<1>3. ScanFree \in [1 .. n -> F] /\ Good(ScanFree)
  BY <1>1, <1>2
<1>4. DOMAIN ScanFree = 1 .. n
  BY <1>3
<1>. HIDE DEF n
<1>5. ScanFree \in Seq(F) /\ Len(ScanFree) = n
  BY <1>1, <1>3, SeqDef, LenProperties
<1>6. \A i \in 1 .. n : ScanFree[i] \in Page /\ ScanFree[i] \in Nat /\ ~meta[ScanFree[i]].valid
  BY <1>3, PagesCounted
<1>7. \A i, j \in 1 .. n : i < j => ScanFree[i] < ScanFree[j]
  BY <1>3, <1>4 DEF Good
<1>8. \A i, j \in 1 .. n : i # j => ScanFree[i] # ScanFree[j]
  <2>1. SUFFICES ASSUME NEW i \in 1 .. n, NEW j \in 1 .. n, i # j
                 PROVE  ScanFree[i] # ScanFree[j]
    OBVIOUS
  <2>2. i < j \/ j < i
    BY <1>1, <2>1
  <2>3. ScanFree[i] < ScanFree[j] \/ ScanFree[j] < ScanFree[i]
    BY <1>7, <2>2
  <2>. QED  BY <1>6, <2>3
<1>9. ScanFree \in Seq(Page)
  BY <1>5
<1>. QED  BY <1>5, <1>6, <1>8, <1>9

LEMMA RecoveredKnown ==
    ASSUME NEW r
    PROVE  /\ PagesOf(r) = {} => Recovered(r) = 0
           /\ PagesOf(r) # {} => Recovered(r) \in PagesOf(r)
           /\ Recovered(r) \in 0 .. PageNum
           /\ Recovered(r) = 0 => PagesOf(r) = {}
<1>1. PagesOf(r) \subseteq Page
  BY DEF PagesOf
<1>2. PagesOf(r) # {} => Recovered(r) \in PagesOf(r)
  BY <1>1, LastPage DEF Recovered
<1>3. PagesOf(r) = {} => Recovered(r) = 0
  BY DEF Recovered
<1>4. 0 \notin Page /\ Page \subseteq 0 .. PageNum /\ 0 \in 0 .. PageNum
  BY PagesCounted DEF Page
<1>. QED  BY <1>1, <1>2, <1>3, <1>4

\* A page of a request with no other one is the page that is found.
LEMMA FoundOne ==
    ASSUME NEW r, NEW p \in PagesOf(r), \A q \in PagesOf(r) : q = p, magic
    PROVE  Recovered(r) = p /\ Found(r) = page[p]
<1>1. Recovered(r) = p /\ Recovered(r) # 0
  BY RecoveredKnown
<1>. QED  BY <1>1 DEF Found

LEMMA FoundNone ==
    ASSUME NEW r, PagesOf(r) = {}
    PROVE  Found(r) = None
BY RecoveredKnown DEF Found

\* Requests whose pages are left alone are found as before.
LEMMA FoundSame ==
    ASSUME NEW r, PagesOf(r)' = PagesOf(r), magic' = magic, \A p \in PagesOf(r) : page'[p] = page[p]
    PROVE  Recovered(r)' = Recovered(r) /\ Found(r)' = Found(r)
<1>1. Recovered(r)' = Recovered(r)
  BY DEF Recovered
<1>2. Recovered(r) # 0 => Recovered(r) \in PagesOf(r)
  BY RecoveredKnown
<1>. QED  BY <1>1, <1>2 DEF Found

LEMMA SamePages ==
    ASSUME \A p \in Page : meta'[p].valid = meta[p].valid /\ meta'[p].req_id = meta[p].req_id
    PROVE  \A r : PagesOf(r)' = PagesOf(r)
BY DEF PagesOf

\* The counts of a restart: they go with the requests that have a page.
LEMMA CountKept ==
    ASSUME NEW b, \A r \in Req : PagesOf(r)' # {} => PagesOf(r) # {}
    PROVE  CachedIn(b) \in Nat /\ CachedIn(b)' \in Nat /\ CachedIn(b)' <= CachedIn(b)
<1>. DEFINE S == {r \in Req : BlockOf(r) = b /\ PagesOf(r) # {}}
            T == {r \in Req : BlockOf(r) = b /\ PagesOf(r)' # {}}
<1>1. T \subseteq S /\ S \subseteq Req
  OBVIOUS
<1>2. CachedIn(b) = Cardinality(S)
  BY DEF CachedIn
<1>3. CachedIn(b)' = Cardinality(T)
  BY DEF CachedIn, BlockOf
<1>. HIDE DEF S, T
<1>4. IsFiniteSet(S)
  BY <1>1, BlocksOfRequests, FS_Subset
<1>5. IsFiniteSet(T) /\ Cardinality(T) <= Cardinality(S)
  BY <1>1, <1>4, FS_Subset
<1>. QED  BY <1>2, <1>3, <1>4, <1>5, FS_CardinalityType

LEMMA CountOneMore ==
    ASSUME NEW b, NEW q \in Req, \A r \in Req \ {q} : PagesOf(r)' # {} => PagesOf(r) # {}
    PROVE  /\ CachedIn(b) \in Nat /\ CachedIn(b)' \in Nat
           /\ CachedIn(b)' <= CachedIn(b) + IF b = BlockOf(q) THEN 1 ELSE 0
<1>. DEFINE S == {r \in Req : BlockOf(r) = b /\ PagesOf(r) # {}}
            T == {r \in Req : BlockOf(r) = b /\ PagesOf(r)' # {}}
<1>1. T \subseteq S \cup {q} /\ S \subseteq Req
  OBVIOUS
<1>2. CachedIn(b) = Cardinality(S)
  BY DEF CachedIn
<1>3. CachedIn(b)' = Cardinality(T)
  BY DEF CachedIn, BlockOf
<1>4. b # BlockOf(q) => T \subseteq S
  OBVIOUS
<1>. HIDE DEF S, T
<1>5. IsFiniteSet(S)
  BY <1>1, BlocksOfRequests, FS_Subset
<1>6. IsFiniteSet(S \cup {q}) /\ Cardinality(S \cup {q}) <= Cardinality(S) + 1
  BY <1>5, FS_AddElement, FS_CardinalityType
<1>7. IsFiniteSet(T) /\ Cardinality(T) <= Cardinality(S \cup {q})
  BY <1>1, <1>6, FS_Subset
<1>8. b # BlockOf(q) => Cardinality(T) <= Cardinality(S)
  BY <1>4, <1>5, FS_Subset
<1>9. Cardinality(T) \in Nat /\ Cardinality(S) \in Nat /\ Cardinality(S \cup {q}) \in Nat
  BY <1>5, <1>6, <1>7, FS_CardinalityType
<1>. QED  BY <1>2, <1>3, <1>6, <1>7, <1>8, <1>9

-----------------------------------------------------------------------------
(* cbs_req_pmem: every step keeps CacheInv.                                *)

\* Steps of a call that change neither the pages nor the table.
LEMMA QuietStep ==
    ASSUME CacheInv, UNCHANGED <<pmemVars, dramVars, history>>,
           Up, Up', pc # "clear", pc' # "clear",
           req_id' \in Nat, content' \in Content \cup {None}, page_old' \in 0 .. PageNum,
           CallKnown'
    PROVE  CacheInv'
<1>1. UNCHANGED <<magic, page_offset, meta, page, page_id1, page_id2, cached_pages_cnt, free_list,
                  store, orphaned>>
  BY DEF pmemVars, dramVars, history
<1>2. \A r : /\ PagesOf(r)' = PagesOf(r) /\ NoPage(r)' = NoPage(r) /\ TwoPages(r)' = TwoPages(r)
             /\ Found(r)' = Found(r)
  <2>1. \A r : PagesOf(r)' = PagesOf(r)
    BY <1>1, SamePages
  <2>. QED  BY <1>1, <2>1, FoundSame DEF NoPage, TwoPages
<1>3. TypeOK'
  BY <1>1 DEF CacheInv, TypeOK, Up
<1>4. HeaderKnown'
  BY <1>1 DEF CacheInv, HeaderKnown, Up
<1>5. TableKnown'
  BY <1>1, <1>2 DEF CacheInv, TableKnown
<1>6. CountsKnown'
  <2>1. \A b : CachedIn(b)' = CachedIn(b)
    BY <1>2 DEF CachedIn
  <2>. QED  BY <1>1, <2>1 DEF CacheInv, CountsKnown
<1>7. NoTornPage'
  BY <1>1 DEF CacheInv, NoTornPage
<1>8. OnePageEach'
  BY <1>1, <1>2 DEF CacheInv, OnePageEach
<1>. QED  BY <1>3, <1>4, <1>5, <1>6, <1>7, <1>8 DEF CacheInv

LEMMA WriteReqStep ==
    ASSUME CacheInv, NEW r \in Req, NEW c \in Content, WriteReq(r, c)
    PROVE  CacheInv'
<1>1. /\ pc = "idle" /\ pc' = "write" /\ req_id' = r /\ content' = c /\ page_old' = page_old
      /\ UNCHANGED <<pmemVars, dramVars, history>>
  BY DEF WriteReq
<1>2. Up /\ Up'
  BY <1>1 DEF Up
<1>3. CallKnown'
  BY <1>1 DEF CallKnown
<1>4. r \in Nat /\ page_old \in 0 .. PageNum
  BY BlocksOfRequests DEF CacheInv, TypeOK
<1>. QED  BY <1>1, <1>2, <1>3, <1>4, QuietStep

LEMMA DeletePageStep ==
    ASSUME CacheInv, NEW r \in Req, DeletePage(r)
    PROVE  CacheInv'
<1>1. /\ pc = "idle" /\ pc' = "delete" /\ req_id' = r /\ content' = content /\ page_old' = page_old
      /\ UNCHANGED <<pmemVars, dramVars, history>>
  BY DEF DeletePage
<1>2. Up /\ Up'
  BY <1>1 DEF Up
<1>3. CallKnown'
  BY <1>1 DEF CallKnown
<1>4. r \in Nat /\ page_old \in 0 .. PageNum /\ content \in Content \cup {None}
  BY BlocksOfRequests DEF CacheInv, TypeOK
<1>. QED  BY <1>1, <1>2, <1>3, <1>4, QuietStep

LEMMA LookupWriteStep ==
    ASSUME CacheInv, LookupWrite
    PROVE  CacheInv'
<1>1. /\ pc = "write" /\ pc' = "copy" /\ page_old' = TheOne(req_id)
      /\ NoPage(req_id) => cached_pages_cnt[BlockOf(req_id)] < MaxCount
      /\ UNCHANGED <<pmemVars, dramVars, req_id, content, history>>
  BY DEF LookupWrite
<1>2. Up /\ Up'
  BY <1>1 DEF Up
<1>3. req_id \in Req /\ content \in Content
  BY <1>1 DEF CacheInv, CallKnown
<1>4. page_id1[req_id] \in 0 .. PageNum /\ page_id2[req_id] \in 0 .. PageNum
  BY <1>3 DEF CacheInv, TypeOK
<1>5. TheOne(req_id) \in 0 .. PageNum /\ (TheOne(req_id) = 0 => NoPage(req_id))
  BY <1>4 DEF TheOne, NoPage
<1>6. TheOne(req_id)' = TheOne(req_id)
  BY <1>1 DEF TheOne, dramVars
<1>7. CallKnown'
  BY <1>1, <1>3, <1>5, <1>6 DEF CallKnown, dramVars
<1>8. req_id \in Nat
  BY <1>3, BlocksOfRequests
<1>. QED  BY <1>1, <1>2, <1>3, <1>5, <1>7, <1>8, QuietStep

LEMMA DeleteNoneStep ==
    ASSUME CacheInv, DeleteNone
    PROVE  CacheInv'
<1>1. /\ pc = "delete" /\ pc' = "idle" /\ req_id' = 0 /\ content' = None /\ page_old' = 0
      /\ UNCHANGED <<pmemVars, dramVars, history>>
  BY DEF DeleteNone, Return
<1>2. Up /\ Up' /\ 0 \in 0 .. PageNum
  BY <1>1, PagesCounted DEF Up
<1>3. CallKnown'
  BY <1>1 DEF CallKnown
<1>. QED  BY <1>1, <1>2, <1>3, QuietStep

\* cbs_init of a new file.
LEMMA FirstInitStep ==
    ASSUME CacheInv, FirstInit
    PROVE  CacheInv'
<1>1. /\ pc = "down" /\ pc' = "memset" /\ ~magic
      /\ UNCHANGED <<magic, page_offset, meta, page, page_id1, page_id2, cached_pages_cnt, free_list,
                     req_id, content, page_old, store, orphaned>>
  BY DEF FirstInit, pmemVars, dramVars, callVars, history
<1>2. TypeOK' /\ HeaderKnown'
  BY <1>1 DEF CacheInv, TypeOK, HeaderKnown, Up
<1>3. CallKnown' /\ CountsKnown' /\ NoTornPage' /\ OnePageEach'
  BY <1>1 DEF CallKnown, CountsKnown, NoTornPage, OnePageEach
<1>4. TableKnown'
  <2>1. \A r : PagesOf(r)' = PagesOf(r) /\ TwoPages(r)' = TwoPages(r)
    BY <1>1 DEF PagesOf, TwoPages
  <2>. QED  BY <1>1, <2>1 DEF CacheInv, TableKnown
<1>. QED  BY <1>2, <1>3, <1>4 DEF CacheInv

LEMMA FreePages == Free \in MetaType /\ ~Free.valid
<1>1. BlockPageNum * DiskBlockNum \in Nat \ {0}
  BY LayoutAssumption
<1>2. 0 \in Req
  BY <1>1 DEF Req
<1>. QED  BY <1>2 DEF Free, MetaType

LEMMA MemsetMetaStep ==
    ASSUME CacheInv, MemsetMeta
    PROVE  CacheInv'
<1>1. /\ pc = "memset" /\ pc' = "offset" /\ meta' = [p \in Page |-> Free]
      /\ UNCHANGED <<magic, page_offset, page, page_id1, page_id2, cached_pages_cnt, free_list,
                     req_id, content, page_old, store, orphaned>>
  BY DEF MemsetMeta, dramVars, callVars, history
<1>2. ~magic /\ page_id1 = NoPages /\ page_id2 = NoPages
  BY <1>1 DEF CacheInv, HeaderKnown, Up
<1>3. TypeOK' /\ HeaderKnown'
  BY <1>1, <1>2, FreePages DEF CacheInv, TypeOK, HeaderKnown, Up
<1>4. CallKnown' /\ CountsKnown' /\ NoTornPage' /\ OnePageEach'
  BY <1>1, <1>2 DEF CallKnown, CountsKnown, NoTornPage, OnePageEach
<1>5. TableKnown'
  <2>1. \A i \in 1 .. Len(free_list) : free_list[i] \in Page
    BY DEF CacheInv, TypeOK
  <2>2. \A i \in 1 .. Len(free_list) : ~meta'[free_list[i]].valid
    BY <1>1, <2>1, FreePages
  <2>3. \A r \in Req : page_id1'[r] = 0 /\ page_id2'[r] = 0
    BY <1>1, <1>2 DEF NoPages
  <2>. QED  BY <1>1, <2>2, <2>3 DEF CacheInv, TableKnown, TwoPages
<1>. QED  BY <1>3, <1>4, <1>5 DEF CacheInv

LEMMA WriteOffsetStep ==
    ASSUME CacheInv, WriteOffset
    PROVE  CacheInv'
<1>1. /\ pc = "offset" /\ pc' = "magic" /\ page_offset' = TRUE
      /\ UNCHANGED <<magic, meta, page, page_id1, page_id2, cached_pages_cnt, free_list,
                     req_id, content, page_old, store, orphaned>>
  BY DEF WriteOffset, dramVars, callVars, history
<1>2. ~magic
  BY <1>1 DEF CacheInv, HeaderKnown
<1>3. TypeOK' /\ HeaderKnown'
  BY <1>1, <1>2 DEF CacheInv, TypeOK, HeaderKnown, Up
<1>4. CallKnown' /\ CountsKnown' /\ NoTornPage' /\ OnePageEach'
  BY <1>1, <1>2 DEF CallKnown, CountsKnown, NoTornPage, OnePageEach
<1>5. TableKnown'
  <2>1. \A r : PagesOf(r)' = PagesOf(r) /\ TwoPages(r)' = TwoPages(r)
    BY <1>1 DEF PagesOf, TwoPages
  <2>. QED  BY <1>1, <2>1 DEF CacheInv, TableKnown
<1>. QED  BY <1>3, <1>4, <1>5 DEF CacheInv

\* All pages are free.
LEMMA WriteMagicStep ==
    ASSUME CacheInv, WriteMagic
    PROVE  CacheInv'
<1>1. /\ pc = "magic" /\ pc' = "idle" /\ magic' = TRUE /\ free_list' = [i \in Page |-> i]
      /\ UNCHANGED <<page_offset, meta, page, page_id1, page_id2, cached_pages_cnt,
                     req_id, content, page_old, store, orphaned>>
  BY DEF WriteMagic, callVars, history
<1>2. /\ ~magic /\ page_offset /\ page_id1 = NoPages /\ page_id2 = NoPages
      /\ \A p \in Page : meta[p] = Free
      /\ store = [r \in Req |-> None]
  BY <1>1 DEF CacheInv, HeaderKnown, Up
<1>3. free_list' \in Seq(Page) /\ Len(free_list') = PageNum
  <2>1. PageNum \in Nat /\ free_list' \in [1 .. PageNum -> Page]
    BY <1>1, PagesCounted DEF Page
  <2>. QED  BY <2>1, SeqDef, LenProperties
<1>4. \A p \in Page : ~meta'[p].valid
  BY <1>1, <1>2, FreePages
<1>5. \A r : PagesOf(r)' = {}
  BY <1>4 DEF PagesOf
<1>6. TypeOK'
  BY <1>1, <1>3, PagesCounted DEF CacheInv, TypeOK
<1>7. HeaderKnown'
  BY <1>1 DEF HeaderKnown, Up
<1>8. CallKnown'
  BY <1>1 DEF CallKnown
<1>9. NoTornPage'
  BY <1>1, <1>2, <1>4 DEF NoTornPage
<1>10. TableKnown'
  <2>1. \A i \in 1 .. Len(free_list') : i \in Page /\ free_list'[i] = i
    BY <1>1, <1>3 DEF Page
  <2>2. \A r \in Req : page_id1'[r] = 0 /\ page_id2'[r] = 0
    BY <1>1, <1>2 DEF NoPages
  <2>3. \A i \in 1 .. Len(free_list') : ~meta'[free_list'[i]].valid
    BY <1>4, <2>1
  <2>4. \A i, j \in 1 .. Len(free_list') : i # j => free_list'[i] # free_list'[j]
    BY <2>1
  <2>. QED  BY <2>2, <2>3, <2>4 DEF TableKnown, TwoPages
<1>11. CountsKnown'
  <2>1. \A b : CachedIn(b)' = Cardinality({})
    BY <1>5 DEF CachedIn
  <2>2. \A b : CachedIn(b)' = 0
    BY <2>1, FS_EmptySet
  <2>3. Up'
    BY <1>1 DEF Up
  <2>4. \A b \in Block : cached_pages_cnt'[b] \in 0 .. MaxCount
    BY <1>1 DEF CacheInv, TypeOK
  <2>5. \A b \in Block : 0 <= cached_pages_cnt'[b]
    BY <2>4
  <2>. QED  BY <2>2, <2>3, <2>5 DEF CountsKnown
<1>12. OnePageEach'
  <2>1. \A r : Found(r)' = None
    <3>1. \A r : Recovered(r)' = 0
      BY <1>5 DEF Recovered
    <3>. QED  BY <3>1 DEF Found
  <2>2. \A r \in Req : store'[r] = None
    BY <1>1, <1>2
  <2>. QED  BY <1>1, <1>5, <2>1, <2>2 DEF OnePageEach
<1>. QED  BY <1>6, <1>7, <1>8, <1>9, <1>10, <1>11, <1>12 DEF CacheInv

\* cbs_init of a file that has the magic number.
LEMMA RecoverStep ==
    ASSUME CacheInv, Recover
    PROVE  CacheInv'
<1>1. /\ pc = "down" /\ magic /\ pc' = "idle" /\ free_list' = ScanFree
      /\ page_id1' = [r \in Req |-> Recovered(r)] /\ page_id2' = NoPages
      /\ cached_pages_cnt' = [b \in Block |-> CachedIn(b)]
      /\ store' = IF content # None /\ Found(req_id) = content
                  THEN [store EXCEPT ![req_id] = content] ELSE store
      /\ req_id' = 0 /\ content' = None /\ page_old' = 0
      /\ UNCHANGED <<magic, page_offset, meta, page, orphaned>>
  BY DEF Recover, pmemVars
<1>2. \A r : PagesOf(r)' = PagesOf(r)
  BY <1>1, SamePages
<1>3. \A r : Found(r)' = Found(r)
  BY <1>1, <1>2, FoundSame
<1>4. ~Up /\ Up'
  BY <1>1 DEF Up
<1>5. \A b \in Block : CachedIn(b) \in 0 .. MaxCount
  <2>1. \A b \in Block : CachedIn(b) <= MaxCount
    BY <1>1, <1>4 DEF CacheInv, CountsKnown
  <2>2. \A b : CachedIn(b) \in Nat
    BY <1>2, CountKept
  <2>. QED  BY <2>1, <2>2, PmemAssumption
<1>6. store' \in [Req -> Content \cup {None}]
  BY <1>1 DEF CacheInv, TypeOK
<1>7. TypeOK'
  <2>1. free_list' \in Seq(Page) /\ Len(free_list') <= PageNum
    BY <1>1, ScanFreeKnown, NoRoomForMore
  <2>2. page_id1' \in [Req -> 0 .. PageNum] /\ page_id2' \in [Req -> 0 .. PageNum]
    BY <1>1, RecoveredKnown, PagesCounted DEF NoPages
  <2>3. cached_pages_cnt' \in [Block -> 0 .. MaxCount]
    BY <1>1, <1>5
  <2>4. 0 \in 0 .. PageNum
    BY PagesCounted
  <2>. QED  BY <1>1, <1>6, <2>1, <2>2, <2>3, <2>4 DEF CacheInv, TypeOK
<1>8. HeaderKnown'
  BY <1>1, <1>4 DEF HeaderKnown
<1>9. CallKnown'
  BY <1>1 DEF CallKnown
<1>10. NoTornPage'
  BY <1>1 DEF CacheInv, NoTornPage
<1>11. TableKnown'
  <2>1. \A r \in Req : page_id1'[r] = Recovered(r) /\ page_id2'[r] = 0
    BY <1>1 DEF NoPages
  <2>2. \A r : Recovered(r) # 0 => Recovered(r) \in PagesOf(r)
    BY RecoveredKnown
  <2>. QED  BY <1>1, <1>2, <2>1, <2>2, ScanFreeKnown DEF TableKnown, TwoPages
<1>12. CountsKnown'
  <2>1. \A b : CachedIn(b)' = CachedIn(b)
    BY <1>2 DEF CachedIn
  <2>2. \A b \in Block : CachedIn(b) <= CachedIn(b)
    BY <1>5
  <2>. QED  BY <1>1, <1>4, <2>1, <2>2 DEF CountsKnown
<1>13. OnePageEach'
  <2>1. SUFFICES ASSUME ~orphaned, NEW r \in Req
                 PROVE  /\ \A p, q \in PagesOf(r) : p = q
                        /\ NoPage(r)' => PagesOf(r) = {}
                        /\ Found(r) = store'[r]
    BY <1>1, <1>2, <1>3 DEF OnePageEach
  <2>2. (\A p, q \in PagesOf(r) : p = q) /\ Found(r) = store[r]
    BY <1>1, <2>1 DEF CacheInv, OnePageEach
  <2>3. NoPage(r)' => PagesOf(r) = {}
    BY <1>1, RecoveredKnown DEF NoPage
  <2>4. store \in [Req -> Content \cup {None}]
    BY DEF CacheInv, TypeOK
  <2>5. Found(r) = store'[r]
    BY <1>1, <2>2, <2>4
  <2>. QED  BY <2>2, <2>3, <2>5
<1>. QED  BY <1>7, <1>8, <1>9, <1>10, <1>11, <1>12, <1>13 DEF CacheInv

\* The page on top of the stack of free pages.
LEMMA TopFree ==
    ASSUME CacheInv, free_list # <<>>
    PROVE  /\ Len(free_list) \in Nat \ {0} /\ Top = free_list[Len(free_list)] /\ Top \in Page
           /\ pc # "clear" => ~meta[Top].valid
           /\ \A i \in 1 .. Len(free_list) : free_list[i] \in Page
<1>1. free_list \in Seq(Page)
  BY DEF CacheInv, TypeOK
<1>2. Len(free_list) \in Nat \ {0}
  BY <1>1, EmptySeq
<1>3. \A i \in 1 .. Len(free_list) : free_list[i] \in Page
  BY <1>1
<1>4. Len(free_list) \in 1 .. Len(free_list)
  BY <1>2
<1>5. pc # "clear" => ~meta[Top].valid
  BY <1>4 DEF CacheInv, TableKnown, Top
<1>. QED  BY <1>2, <1>3, <1>4, <1>5 DEF Top

\* What an 8-byte store to a meta does to the pages of the requests.
LEMMA Marked ==
    ASSUME meta \in [Page -> MetaType], NEW p \in Page, ~meta[p].valid, NEW q, NEW n,
           meta' = [meta EXCEPT ![p] = Used(q, n)]
    PROVE  /\ PagesOf(q)' = PagesOf(q) \cup {p}
           /\ \A r : r # q => PagesOf(r)' = PagesOf(r)
           /\ \A r : p \notin PagesOf(r)
<1>1. Used(q, n).valid /\ Used(q, n).req_id = q
  BY DEF Used
<1>. QED  BY <1>1 DEF PagesOf

LEMMA Unmarked ==
    ASSUME meta \in [Page -> MetaType], NEW q, NEW p \in PagesOf(q),
           meta' = [meta EXCEPT ![p] = Free]
    PROVE  /\ PagesOf(q)' = PagesOf(q) \ {p}
           /\ \A r : r # q => PagesOf(r)' = PagesOf(r) /\ p \notin PagesOf(r)
<1>1. p \in Page /\ meta[p].valid /\ meta[p].req_id = q
  BY DEF PagesOf
<1>2. \A r : PagesOf(r)' = PagesOf(r) \ {p}
  BY <1>1, FreePages DEF PagesOf
<1>3. \A r : r # q => p \notin PagesOf(r)
  BY <1>1 DEF PagesOf
<1>. QED  BY <1>2, <1>3

LEMMA ResetSnStep ==
    ASSUME CacheInv, ResetSn
    PROVE  CacheInv'
<1>1. /\ pc = "copy" /\ page_old # 0 /\ meta' = [meta EXCEPT ![page_old].sn = 0]
      /\ UNCHANGED <<magic, page_offset, page, page_id1, page_id2, cached_pages_cnt, free_list, pc,
                     req_id, content, page_old, store, orphaned>>
  BY DEF ResetSn, StaleSn, dramVars, callVars, history
<1>2. meta \in [Page -> MetaType] /\ page_old \in Page
  BY <1>1, PagesCounted DEF CacheInv, TypeOK, Page
<1>3. /\ meta' \in [Page -> MetaType]
      /\ \A p \in Page : meta'[p].valid = meta[p].valid /\ meta'[p].req_id = meta[p].req_id
  <2>1. meta[page_old] \in MetaType
    BY <1>2
  <2>. DEFINE m == [meta[page_old] EXCEPT !.sn = 0]
  <2>2. m \in MetaType /\ m.valid = meta[page_old].valid /\ m.req_id = meta[page_old].req_id
    BY <2>1 DEF MetaType
  <2>3. meta' = [meta EXCEPT ![page_old] = m]
    BY <1>1
  <2>. HIDE DEF m
  <2>. QED  BY <1>2, <2>2, <2>3
<1>4. \A r : PagesOf(r)' = PagesOf(r)
  BY <1>3, SamePages
<1>5. \A r : /\ Found(r)' = Found(r) /\ NoPage(r)' = NoPage(r) /\ TwoPages(r)' = TwoPages(r)
             /\ TheOne(r)' = TheOne(r)
  BY <1>1, <1>4, FoundSame DEF NoPage, TwoPages, TheOne
<1>6. TypeOK'
  BY <1>1, <1>3 DEF CacheInv, TypeOK
<1>7. HeaderKnown'
  BY <1>1 DEF CacheInv, HeaderKnown, Up
<1>8. CallKnown'
  BY <1>1, <1>5 DEF CacheInv, CallKnown
<1>9. TableKnown'
  <2>1. \A i \in 1 .. Len(free_list) : free_list[i] \in Page
    BY DEF CacheInv, TypeOK
  <2>. QED  BY <1>1, <1>3, <1>4, <1>5, <2>1 DEF CacheInv, TableKnown
<1>10. CountsKnown'
  <2>1. \A b : CachedIn(b)' = CachedIn(b)
    BY <1>4 DEF CachedIn
  <2>. QED  BY <1>1, <2>1 DEF CacheInv, CountsKnown, Up
<1>11. NoTornPage'
  BY <1>1, <1>3 DEF CacheInv, NoTornPage
<1>12. OnePageEach'
  BY <1>1, <1>4, <1>5 DEF CacheInv, OnePageEach, Up
<1>. QED  BY <1>6, <1>7, <1>8, <1>9, <1>10, <1>11, <1>12 DEF CacheInv

\* The page goes where no request has its page.
LEMMA CopyPageStep ==
    ASSUME CacheInv, CopyPage
    PROVE  CacheInv' /\ \A r : Found(r)' = Found(r)
<1>1. /\ pc = "copy" /\ pc' = "meta" /\ free_list # <<>> /\ page' = [page EXCEPT ![Top] = content]
      /\ UNCHANGED <<magic, page_offset, meta, page_id1, page_id2, cached_pages_cnt, free_list,
                     req_id, content, page_old, store, orphaned>>
  BY DEF CopyPage, Target, dramVars, callVars, history
<1>2. /\ Top \in Page /\ ~meta[Top].valid /\ Top' = Top
      /\ content \in Content /\ page \in [Page -> Content \cup {None, Torn}]
  BY <1>1, TopFree DEF CacheInv, CallKnown, TypeOK, Top
<1>3. page' \in [Page -> Content \cup {None, Torn}] /\ page'[Top] = content
  BY <1>1, <1>2
<1>4. \A p \in Page : meta[p].valid => page'[p] = page[p]
  BY <1>1, <1>2
<1>5. \A r : PagesOf(r)' = PagesOf(r)
  BY <1>1, SamePages
<1>6. \A r : Found(r)' = Found(r)
  <2>1. \A r : \A p \in PagesOf(r) : page'[p] = page[p]
    BY <1>4 DEF PagesOf
  <2>. QED  BY <1>1, <1>5, <2>1, FoundSame
<1>7. \A r : NoPage(r)' = NoPage(r) /\ TwoPages(r)' = TwoPages(r) /\ TheOne(r)' = TheOne(r)
  BY <1>1 DEF NoPage, TwoPages, TheOne
<1>8. TypeOK'
  BY <1>1, <1>3 DEF CacheInv, TypeOK
<1>9. HeaderKnown'
  BY <1>1 DEF CacheInv, HeaderKnown, Up
<1>10. CallKnown'
  BY <1>1, <1>2, <1>3, <1>7 DEF CacheInv, CallKnown
<1>11. TableKnown'
  BY <1>1, <1>5, <1>7 DEF CacheInv, TableKnown
<1>12. CountsKnown'
  <2>1. \A b : CachedIn(b)' = CachedIn(b)
    BY <1>5 DEF CachedIn
  <2>. QED  BY <1>1, <2>1 DEF CacheInv, CountsKnown, Up
<1>13. NoTornPage'
  BY <1>1, <1>4 DEF CacheInv, NoTornPage
<1>14. OnePageEach'
  BY <1>1, <1>5, <1>6, <1>7 DEF CacheInv, OnePageEach, Up
<1>. QED  BY <1>6, <1>8, <1>9, <1>10, <1>11, <1>12, <1>13, <1>14 DEF CacheInv

\* The request had no page: the one that was copied becomes its page.
LEMMA AddMetaStep ==
    ASSUME CacheInv, AddMeta
    PROVE  /\ CacheInv'
           /\ ~orphaned => \E q \in Req, c \in Content :
                              q = req_id /\ c = content /\ Found(q)' = c /\ \A r : r # q => Found(r)' = Found(r)
<1>0. PICK q, t, c : q = req_id /\ t = Top /\ c = content
  OBVIOUS
<1>1. /\ pc = "meta" /\ page_old = 0 /\ pc' = "idle" /\ req_id' = 0 /\ content' = None /\ page_old' = 0
      /\ meta' = [meta EXCEPT ![t] = Used(q, 0)]
      /\ free_list' = SubSeq(free_list, 1, Len(free_list) - 1)
      /\ page_id1' = [page_id1 EXCEPT ![q] = t]
      /\ cached_pages_cnt' = [cached_pages_cnt EXCEPT ![BlockOf(q)] = @ + 1]
      /\ store' = [store EXCEPT ![q] = c]
      /\ UNCHANGED <<magic, page_offset, page, page_id2, orphaned>>
  BY <1>0 DEF AddMeta, Target, Pop, Return
<1>2. /\ q \in Req /\ c \in Content /\ free_list # <<>> /\ page[t] = c
      /\ TheOne(q) = 0 /\ cached_pages_cnt[BlockOf(q)] < MaxCount
  BY <1>0, <1>1 DEF CacheInv, CallKnown
<1>3. /\ magic /\ meta \in [Page -> MetaType] /\ page_id1 \in [Req -> 0 .. PageNum]
      /\ page_id2 \in [Req -> 0 .. PageNum] /\ store \in [Req -> Content \cup {None}]
      /\ cached_pages_cnt \in [Block -> 0 .. MaxCount] /\ free_list \in Seq(Page) /\ Len(free_list) <= PageNum
      /\ BlockOf(q) \in Block
  BY <1>1, <1>2, BlocksOfRequests DEF CacheInv, TypeOK, HeaderKnown, Up
<1>4. page_id1[q] = 0 /\ page_id2[q] = 0
  BY <1>2, <1>3 DEF TheOne
<1>5. /\ t \in Page /\ ~meta[t].valid /\ Len(free_list) \in Nat \ {0} /\ t \in 0 .. PageNum /\ t # 0
      /\ t = free_list[Len(free_list)]
  BY <1>0, <1>1, <1>2, TopFree, PagesCounted DEF Page
<1>6. /\ PagesOf(q)' = PagesOf(q) \cup {t}
      /\ \A r : r # q => PagesOf(r)' = PagesOf(r)
      /\ \A r : t \notin PagesOf(r)
  BY <1>1, <1>3, <1>5, Marked
<1>7. \A r : r # q => Found(r)' = Found(r)
  BY <1>1, <1>6, FoundSame
<1>8. \A r \in Req : /\ page_id1'[r] = IF r = q THEN t ELSE page_id1[r]
                     /\ page_id2'[r] = page_id2[r]
                     /\ store'[r] = IF r = q THEN c ELSE store[r]
  BY <1>1, <1>3
<1>9. /\ free_list' \in Seq(Page) /\ Len(free_list') = Len(free_list) - 1
      /\ \A i \in 1 .. Len(free_list) - 1 : free_list'[i] = free_list[i]
  <2>. DEFINE n == Len(free_list) - 1
  <2>1. n \in Nat /\ n \in Int /\ 1 \in Int /\ \A i \in 1 .. n : free_list[i] \in Page
    BY <1>3, <1>5
  <2>. HIDE DEF n
  <2>2. /\ SubSeq(free_list, 1, n) \in Seq(Page)
        /\ Len(SubSeq(free_list, 1, n)) = IF 1 <= n THEN n - 1 + 1 ELSE 0
        /\ \A i \in 1 .. n - 1 + 1 : SubSeq(free_list, 1, n)[i] = free_list[1 + i - 1]
    BY <2>1, SubSeqProperties
  <2>3. free_list' = SubSeq(free_list, 1, n)
    BY <1>1 DEF n
  <2>4. n - 1 + 1 = n /\ (\A i \in 1 .. n : 1 + i - 1 = i) /\ (IF 1 <= n THEN n - 1 + 1 ELSE 0) = n
    BY <2>1
  <2>5. Len(free_list') = n /\ \A i \in 1 .. n : free_list'[i] = free_list[i]
    BY <2>2, <2>3, <2>4
  <2>. QED  BY <2>2, <2>3, <2>5 DEF n
<1>10. TypeOK'
  <2>1. meta' \in [Page -> MetaType]
    <3>1. Used(q, 0) \in MetaType
      BY <1>2 DEF Used, MetaType
    <3>. QED  BY <1>1, <1>3, <3>1
  <2>2. cached_pages_cnt' \in [Block -> 0 .. MaxCount]
    <3>1. cached_pages_cnt[BlockOf(q)] + 1 \in 0 .. MaxCount
      BY <1>2, <1>3, PmemAssumption
    <3>. QED  BY <1>1, <1>3, <3>1
  <2>3. page_id1' \in [Req -> 0 .. PageNum] /\ store' \in [Req -> Content \cup {None}]
    BY <1>1, <1>2, <1>3, <1>5
  <2>4. Len(free_list') <= PageNum /\ 0 \in 0 .. PageNum
    BY <1>3, <1>5, <1>9, PagesCounted
  <2>. QED  BY <1>1, <1>9, <2>1, <2>2, <2>3, <2>4 DEF CacheInv, TypeOK
<1>11. HeaderKnown'
  BY <1>1, <1>3 DEF HeaderKnown, Up
<1>12. CallKnown'
  BY <1>1 DEF CallKnown
<1>13. TableKnown'
  <2>1. \A i \in 1 .. Len(free_list') : /\ i \in 1 .. Len(free_list) /\ i # Len(free_list)
                                        /\ free_list'[i] = free_list[i] /\ free_list[i] \in Page
    BY <1>3, <1>5, <1>9
  <2>2. \A i \in 1 .. Len(free_list') : free_list[i] # t
    BY <1>5, <2>1 DEF CacheInv, TableKnown
  <2>3. \A i \in 1 .. Len(free_list') : ~meta'[free_list'[i]].valid
    BY <1>1, <1>3, <2>1, <2>2 DEF CacheInv, TableKnown
  <2>4. \A i, j \in 1 .. Len(free_list') : i # j => free_list'[i] # free_list'[j]
    BY <2>1 DEF CacheInv, TableKnown
  <2>5. \A r \in Req : /\ page_id1'[r] # 0 => page_id1'[r] \in PagesOf(r)'
                       /\ page_id2'[r] # 0 => page_id2'[r] \in PagesOf(r)'
    BY <1>4, <1>6, <1>8 DEF CacheInv, TableKnown
  <2>6. \A r \in Req : ~TwoPages(r)'
    BY <1>1, <1>4, <1>8 DEF CacheInv, TableKnown, TwoPages
  <2>. QED  BY <2>3, <2>4, <2>5, <2>6 DEF TableKnown
<1>14. CountsKnown'
  <2>1. SUFFICES ASSUME NEW b \in Block
                 PROVE  CachedIn(b)' <= cached_pages_cnt'[b]
    BY <1>1 DEF CountsKnown, Up
  <2>2. /\ CachedIn(b) \in Nat /\ CachedIn(b)' \in Nat
        /\ CachedIn(b)' <= CachedIn(b) + IF b = BlockOf(q) THEN 1 ELSE 0
    BY <1>2, <1>6, CountOneMore
  <2>3. CachedIn(b) <= cached_pages_cnt[b] /\ cached_pages_cnt[b] \in Nat
    BY <1>1, <1>3 DEF CacheInv, CountsKnown, Up
  <2>4. cached_pages_cnt'[b] = cached_pages_cnt[b] + IF b = BlockOf(q) THEN 1 ELSE 0
    BY <1>1, <1>3, <2>3
  <2>. QED  BY <2>2, <2>3, <2>4
<1>15. NoTornPage'
  BY <1>1, <1>2, <1>3, <1>5 DEF CacheInv, NoTornPage
<1>16. ~orphaned => /\ PagesOf(q)' = {t} /\ Found(q)' = c
  <2>1. SUFFICES ASSUME ~orphaned
                 PROVE  PagesOf(q)' = {t} /\ Found(q)' = c
    OBVIOUS
  <2>2. PagesOf(q) = {}
    BY <1>1, <1>2, <1>3, <1>4, <2>1 DEF CacheInv, OnePageEach, Up, NoPage
  <2>3. PagesOf(q)' = {t}
    BY <1>6, <2>2
  <2>4. (Recovered(q) = t)'
    BY <2>3 DEF Recovered
  <2>. QED  BY <1>1, <1>2, <1>3, <1>5, <2>3, <2>4 DEF Found
<1>17. OnePageEach'
  <2>1. SUFFICES ASSUME ~orphaned, NEW r \in Req
                 PROVE  /\ \A p, o \in PagesOf(r)' : p = o
                        /\ NoPage(r)' => PagesOf(r)' = {}
                        /\ Found(r)' = store'[r]
    BY <1>1 DEF OnePageEach
  <2>2. CASE r = q
    BY <1>5, <1>8, <1>16, <2>1, <2>2 DEF NoPage
  <2>3. CASE r # q
    BY <1>1, <1>3, <1>6, <1>7, <1>8, <2>1, <2>3 DEF CacheInv, OnePageEach, Up, NoPage
  <2>. QED  BY <2>2, <2>3
<1>. QED  BY <1>0, <1>2, <1>7, <1>10, <1>11, <1>12, <1>13, <1>14, <1>15, <1>16, <1>17 DEF CacheInv

\* The request has a page: for a while it has two, and a restart would find
\* either.
LEMMA UpdateMetaStep ==
    ASSUME CacheInv, UpdateMeta
    PROVE  /\ CacheInv'
           /\ ~orphaned => \E q \in Req, c \in Content :
                              q = req_id /\ c = content /\ Found(q)' \in {c, Found(q)} /\ \A r : r # q => Found(r)' = Found(r)
<1>0. PICK q, t, c, o : q = req_id /\ t = Top /\ c = content /\ o = page_old
  OBVIOUS
<1>1. /\ pc = "meta" /\ o # 0 /\ pc' = "clear"
      /\ meta' = [meta EXCEPT ![t] = Used(q, 1)] /\ page_id2' = [page_id2 EXCEPT ![q] = t]
      /\ UNCHANGED <<magic, page_offset, page, page_id1, cached_pages_cnt, free_list,
                     req_id, content, page_old, store, orphaned>>
  BY <1>0 DEF UpdateMeta, Target, callVars, history
<1>2. /\ q \in Req /\ c \in Content /\ free_list # <<>> /\ page[t] = c /\ TheOne(q) = o
  BY <1>0, <1>1 DEF CacheInv, CallKnown
<1>3. /\ magic /\ meta \in [Page -> MetaType] /\ page_id1 \in [Req -> 0 .. PageNum]
      /\ page_id2 \in [Req -> 0 .. PageNum] /\ free_list \in Seq(Page)
  BY <1>1 DEF CacheInv, TypeOK, HeaderKnown, Up
<1>4. /\ t \in Page /\ ~meta[t].valid /\ Len(free_list) \in Nat \ {0} /\ t \in 0 .. PageNum /\ t # 0
      /\ t = free_list[Len(free_list)] /\ Top' = t
  BY <1>0, <1>1, <1>2, TopFree, PagesCounted DEF Page, Top
<1>5. page_id1[q] \in {0, o} /\ o \in PagesOf(q)
  BY <1>1, <1>2, <1>3 DEF TheOne, CacheInv, TableKnown
<1>6. /\ PagesOf(q)' = PagesOf(q) \cup {t}
      /\ \A r : r # q => PagesOf(r)' = PagesOf(r)
      /\ \A r : t \notin PagesOf(r)
  BY <1>1, <1>3, <1>4, Marked
<1>7. \A r : r # q => Found(r)' = Found(r)
  BY <1>1, <1>6, FoundSame
<1>8. \A r \in Req : page_id2'[r] = IF r = q THEN t ELSE page_id2[r]
  BY <1>1, <1>3
<1>9. TypeOK'
  <2>1. Used(q, 1) \in MetaType
    BY <1>2 DEF Used, MetaType
  <2>2. meta' \in [Page -> MetaType] /\ page_id2' \in [Req -> 0 .. PageNum]
    BY <1>1, <1>3, <1>4, <2>1
  <2>. QED  BY <1>1, <2>2 DEF CacheInv, TypeOK
<1>10. HeaderKnown'
  BY <1>1, <1>3 DEF HeaderKnown, Up
<1>11. CallKnown'
  <2>1. (page_old # Top /\ page_old \in PagesOf(req_id))'
    <3>1. (o # t /\ o \in PagesOf(q))'
      BY <1>5, <1>6
    <3>. QED  BY <1>0, <1>1, <1>4, <3>1
  <2>2. (page_id2[req_id] = Top /\ page_id1[req_id] \in {0, page_old})'
    BY <1>0, <1>1, <1>2, <1>4, <1>5, <1>8
  <2>. QED  BY <1>0, <1>1, <1>2, <1>4, <2>1, <2>2 DEF CallKnown
<1>12. TableKnown'
  <2>1. \A i \in 1 .. Len(free_list) : free_list[i] \in Page
    BY <1>3
  <2>2. \A i \in 1 .. Len(free_list) : i # Len(free_list) => free_list[i] # t
    BY <1>4 DEF CacheInv, TableKnown
  <2>3. \A i \in 1 .. Len(free_list) : i # Len(free_list) => ~meta'[free_list[i]].valid
    BY <1>1, <1>3, <2>1, <2>2 DEF CacheInv, TableKnown
  <2>4. \A r \in Req : /\ page_id1'[r] # 0 => page_id1'[r] \in PagesOf(r)'
                       /\ page_id2'[r] # 0 => page_id2'[r] \in PagesOf(r)'
    BY <1>1, <1>6, <1>8 DEF CacheInv, TableKnown
  <2>5. \A r \in Req : TwoPages(r)' => r = req_id'
    BY <1>0, <1>1, <1>8 DEF CacheInv, TableKnown, TwoPages
  <2>. QED  BY <1>1, <2>3, <2>4, <2>5 DEF CacheInv, TableKnown
<1>13. CountsKnown'
  <2>1. \A r \in Req : PagesOf(r)' # {} => PagesOf(r) # {}
    BY <1>5, <1>6
  <2>2. SUFFICES ASSUME NEW b \in Block
                 PROVE  CachedIn(b)' <= cached_pages_cnt[b]
    BY <1>1 DEF CountsKnown, Up
  <2>3. CachedIn(b) \in Nat /\ CachedIn(b)' \in Nat /\ CachedIn(b)' <= CachedIn(b)
    BY <2>1, CountKept
  <2>4. CachedIn(b) <= cached_pages_cnt[b] /\ cached_pages_cnt[b] \in 0 .. MaxCount
    BY <1>1, <1>3 DEF CacheInv, CountsKnown, Up, TypeOK
  <2>. QED  BY <2>3, <2>4
<1>14. NoTornPage'
  BY <1>1, <1>2, <1>3, <1>4 DEF CacheInv, NoTornPage
<1>15. ~orphaned => PagesOf(q) = {o}
  BY <1>1, <1>2, <1>3, <1>5 DEF CacheInv, OnePageEach
<1>16. OnePageEach'
  <2>1. SUFFICES ASSUME ~orphaned, NEW r \in Req
                 PROVE  /\ r = q => PagesOf(r)' = {o, t}
                        /\ r # q => /\ \A p, m \in PagesOf(r)' : p = m
                                    /\ NoPage(r)' => PagesOf(r)' = {}
                                    /\ Found(r)' = store'[r]
    BY <1>0, <1>1, <1>4 DEF OnePageEach
  <2>2. r = q => PagesOf(r)' = {o, t}
    BY <1>6, <1>15, <2>1
  <2>3. r # q => NoPage(r)' = NoPage(r)
    BY <1>1, <1>8 DEF NoPage
  <2>. QED  BY <1>1, <1>3, <1>6, <1>7, <2>1, <2>2, <2>3 DEF CacheInv, OnePageEach, Up
<1>17. ~orphaned => Found(q)' \in {c, Found(q)}
  <2>1. SUFFICES ASSUME ~orphaned
                 PROVE  Found(q)' \in {c, Found(q)}
    OBVIOUS
  <2>2. (Recovered(q) \in PagesOf(q) /\ Recovered(q) # 0)'
    <3>1. (PagesOf(q) # {})'
      BY <1>6
    <3>2. (PagesOf(q) \subseteq Page)' /\ 0 \notin Page
      BY DEF PagesOf, Page
    <3>3. (\E p \in PagesOf(q) : \A m \in PagesOf(q) : m <= p)'
      BY <3>1, <3>2, LastPage
    <3>4. (Recovered(q) \in PagesOf(q))'
      BY <3>1, <3>3 DEF Recovered
    <3>. QED  BY <3>2, <3>4
  <2>3. Recovered(q)' \in {o, t}
    BY <1>6, <1>15, <2>1, <2>2
  <2>4. Found(q) = page[o]
    BY <1>3, <1>5, <1>15, <2>1, FoundOne
  <2>5. Found(q)' = page[Recovered(q)']
    BY <1>1, <1>3, <2>2 DEF Found
  <2>. QED  BY <1>2, <2>3, <2>4, <2>5
<1>. QED  BY <1>0, <1>2, <1>7, <1>9, <1>10, <1>11, <1>12, <1>13, <1>14, <1>16, <1>17 DEF CacheInv

\* The meta of the old page is zeroed and it becomes the free page on top.
LEMMA ClearOldStep ==
    ASSUME CacheInv, ClearOld
    PROVE  /\ CacheInv'
           /\ ~orphaned => \E q \in Req, c \in Content :
                              q = req_id /\ c = content /\ Found(q)' = c /\ \A r : r # q => Found(r)' = Found(r)
<1>0. PICK q, t, c, o, n : q = req_id /\ t = Top /\ c = content /\ o = page_old /\ n = Len(free_list)
  OBVIOUS
<1>1. /\ pc = "clear" /\ pc' = "idle" /\ req_id' = 0 /\ content' = None /\ page_old' = 0
      /\ meta' = [meta EXCEPT ![o] = Free] /\ free_list' = [free_list EXCEPT ![n] = o]
      /\ page_id1' = [page_id1 EXCEPT ![q] = 0] /\ store' = [store EXCEPT ![q] = c]
      /\ UNCHANGED <<magic, page_offset, page, page_id2, cached_pages_cnt, orphaned>>
  BY <1>0 DEF ClearOld, Return
<1>2. /\ q \in Req /\ c \in Content /\ free_list # <<>> /\ page[t] = c
      /\ o # t /\ o \in PagesOf(q) /\ page_id2[q] = t
  BY <1>0, <1>1 DEF CacheInv, CallKnown
<1>3. /\ magic /\ meta \in [Page -> MetaType] /\ page_id1 \in [Req -> 0 .. PageNum]
      /\ free_list \in Seq(Page) /\ store \in [Req -> Content \cup {None}]
      /\ o \in Page /\ meta[o].valid
  BY <1>1, <1>2 DEF CacheInv, TypeOK, HeaderKnown, Up, PagesOf
<1>4. /\ t \in Page /\ n \in Nat \ {0} /\ t # 0 /\ t = free_list[n]
  BY <1>0, <1>2, TopFree, PagesCounted DEF Page
<1>5. t \in PagesOf(q)
  BY <1>2, <1>4 DEF CacheInv, TableKnown
<1>6. /\ PagesOf(q)' = PagesOf(q) \ {o}
      /\ \A r : r # q => PagesOf(r)' = PagesOf(r) /\ o \notin PagesOf(r)
  BY <1>1, <1>2, <1>3, Unmarked
<1>7. \A r : r # q => Found(r)' = Found(r)
  BY <1>1, <1>6, FoundSame
<1>8. \A r \in Req : /\ page_id1'[r] = IF r = q THEN 0 ELSE page_id1[r]
                     /\ store'[r] = IF r = q THEN c ELSE store[r]
  BY <1>1, <1>3
<1>9. /\ free_list' \in Seq(Page) /\ Len(free_list') = n
      /\ \A i \in 1 .. n : free_list'[i] = IF i = n THEN o ELSE free_list[i]
  BY <1>0, <1>1, <1>3, <1>4, ExceptSeq
<1>10. TypeOK'
  <2>1. meta' \in [Page -> MetaType] /\ page_id1' \in [Req -> 0 .. PageNum]
    <3>1. 0 \in 0 .. PageNum
      BY PagesCounted
    <3>. QED  BY <1>1, <1>3, <3>1, FreePages
  <2>2. store' \in [Req -> Content \cup {None}] /\ 0 \in 0 .. PageNum
    BY <1>1, <1>2, <1>3, PagesCounted
  <2>. QED  BY <1>0, <1>1, <1>9, <2>1, <2>2 DEF CacheInv, TypeOK
<1>11. HeaderKnown'
  BY <1>1, <1>3 DEF HeaderKnown, Up
<1>12. CallKnown'
  BY <1>1 DEF CallKnown
<1>13. TableKnown'
  <2>1. \A i \in 1 .. n : i # n => ~meta[free_list[i]].valid /\ free_list[i] # o /\ free_list[i] \in Page
    BY <1>0, <1>3 DEF CacheInv, TableKnown
  <2>2. \A i \in 1 .. n : ~meta'[free_list'[i]].valid
    BY <1>1, <1>3, <1>9, <2>1, FreePages
  <2>3. \A i, j \in 1 .. n : i # j => free_list'[i] # free_list'[j]
    BY <1>0, <1>9, <2>1 DEF CacheInv, TableKnown
  <2>4. \A r \in Req : /\ page_id1'[r] # 0 => page_id1'[r] \in PagesOf(r)'
                       /\ page_id2'[r] # 0 => page_id2'[r] \in PagesOf(r)'
    BY <1>1, <1>2, <1>5, <1>6, <1>8 DEF CacheInv, TableKnown
  <2>5. \A r \in Req : ~TwoPages(r)'
    BY <1>0, <1>1, <1>8 DEF CacheInv, TableKnown, TwoPages
  <2>. QED  BY <1>9, <2>2, <2>3, <2>4, <2>5 DEF TableKnown
<1>14. CountsKnown'
  <2>1. \A r \in Req : PagesOf(r)' # {} => PagesOf(r) # {}
    BY <1>6
  <2>2. SUFFICES ASSUME NEW b \in Block
                 PROVE  CachedIn(b)' <= cached_pages_cnt[b]
    BY <1>1 DEF CountsKnown, Up
  <2>3. CachedIn(b) \in Nat /\ CachedIn(b)' \in Nat /\ CachedIn(b)' <= CachedIn(b)
    BY <2>1, CountKept
  <2>4. CachedIn(b) <= cached_pages_cnt[b] /\ cached_pages_cnt[b] \in 0 .. MaxCount
    BY <1>1, <1>3 DEF CacheInv, CountsKnown, Up, TypeOK
  <2>. QED  BY <2>3, <2>4
<1>15. NoTornPage'
  BY <1>1, <1>3, FreePages DEF CacheInv, NoTornPage
<1>16. ~orphaned => PagesOf(q)' = {t} /\ Found(q)' = c
  <2>1. SUFFICES ASSUME ~orphaned
                 PROVE  PagesOf(q)' = {t} /\ Found(q)' = c
    OBVIOUS
  <2>2. PagesOf(q) = {o, t}
    BY <1>0, <1>1, <1>2, <1>3, <2>1 DEF CacheInv, OnePageEach
  <2>3. PagesOf(q)' = {t}
    BY <1>2, <1>6, <2>2
  <2>4. Recovered(q)' = t
    <3>1. t <= t
      BY <1>4, PagesCounted
    <3>. QED  BY <2>3, <3>1 DEF Recovered
  <2>. QED  BY <1>1, <1>2, <1>3, <1>4, <2>3, <2>4 DEF Found
<1>17. OnePageEach'
  <2>1. SUFFICES ASSUME ~orphaned, NEW r \in Req
                 PROVE  /\ \A p, m \in PagesOf(r)' : p = m
                        /\ NoPage(r)' => PagesOf(r)' = {}
                        /\ Found(r)' = store'[r]
    BY <1>1 DEF OnePageEach
  <2>2. CASE r = q
    BY <1>1, <1>2, <1>4, <1>8, <1>16, <2>1, <2>2 DEF NoPage
  <2>3. CASE r # q
    BY <1>0, <1>1, <1>3, <1>6, <1>7, <1>8, <2>1, <2>3 DEF CacheInv, OnePageEach, Up, NoPage
  <2>. QED  BY <2>2, <2>3
<1>. QED  BY <1>0, <1>2, <1>7, <1>10, <1>11, <1>12, <1>13, <1>14, <1>15, <1>16, <1>17 DEF CacheInv

\* delete_page: the meta is zeroed and the page goes back on the stack.
LEMMA DeleteOneStep ==
    ASSUME CacheInv, DeleteOne
    PROVE  /\ CacheInv'
           /\ ~orphaned => \E q \in Req :
                              q = req_id /\ Found(q)' = None /\ \A r : r # q => Found(r)' = Found(r)
<1>0. PICK q, o, n : q = req_id /\ o = TheOne(req_id) /\ n = Len(free_list)
  OBVIOUS
<1>1. /\ pc = "delete" /\ pc' = "idle" /\ req_id' = 0 /\ content' = None /\ page_old' = 0
      /\ meta' = [meta EXCEPT ![o] = Free] /\ free_list' = Append(free_list, o)
      /\ store' = [store EXCEPT ![q] = None] /\ ~NoPage(q) /\ o = TheOne(q)
      /\ IF page_id1[q] # 0
         THEN page_id1' = [page_id1 EXCEPT ![q] = 0] /\ UNCHANGED page_id2
         ELSE page_id2' = [page_id2 EXCEPT ![q] = 0] /\ UNCHANGED page_id1
      /\ UNCHANGED <<magic, page_offset, page, cached_pages_cnt, orphaned>>
  BY <1>0 DEF DeleteOne, Return
<1>2. q \in Req
  BY <1>0, <1>1 DEF CacheInv, CallKnown
<1>3. /\ magic /\ meta \in [Page -> MetaType] /\ page_id1 \in [Req -> 0 .. PageNum]
      /\ page_id2 \in [Req -> 0 .. PageNum]
      /\ free_list \in Seq(Page) /\ store \in [Req -> Content \cup {None}] /\ n \in Nat
  BY <1>0, <1>1 DEF CacheInv, TypeOK, HeaderKnown, Up
<1>4. ~TwoPages(q) /\ o \in PagesOf(q)
  BY <1>1, <1>2 DEF CacheInv, TableKnown, TheOne, NoPage
<1>5. o \in Page /\ meta[o].valid
  BY <1>4 DEF PagesOf
<1>6. /\ PagesOf(q)' = PagesOf(q) \ {o}
      /\ \A r : r # q => PagesOf(r)' = PagesOf(r) /\ o \notin PagesOf(r)
  BY <1>1, <1>3, <1>4, Unmarked
<1>7. \A r : r # q => Found(r)' = Found(r)
  BY <1>1, <1>6, FoundSame
<1>8. \A r \in Req : /\ page_id1'[r] = IF r = q THEN 0 ELSE page_id1[r]
                     /\ page_id2'[r] = IF r = q THEN 0 ELSE page_id2[r]
                     /\ store'[r] = IF r = q THEN None ELSE store[r]
  BY <1>1, <1>2, <1>3, <1>4 DEF TwoPages
<1>9. /\ free_list' \in Seq(Page) /\ Len(free_list') = n + 1
      /\ \A i \in 1 .. n + 1 : free_list'[i] = IF i = n + 1 THEN o ELSE free_list[i]
  BY <1>0, <1>1, <1>3, <1>5, AppendProperties
<1>10. TableKnown'
  <2>1. \A i \in 1 .. n : ~meta[free_list[i]].valid /\ free_list[i] # o /\ free_list[i] \in Page
    BY <1>0, <1>1, <1>3, <1>5 DEF CacheInv, TableKnown
  <2>2. \A i \in 1 .. n + 1 : i # n + 1 => i \in 1 .. n
    BY <1>3
  <2>3. \A i \in 1 .. n + 1 : ~meta'[free_list'[i]].valid
    BY <1>1, <1>3, <1>5, <1>9, <2>1, <2>2, FreePages
  <2>4. \A i, j \in 1 .. n + 1 : i # j => free_list'[i] # free_list'[j]
    BY <1>0, <1>9, <2>1, <2>2 DEF CacheInv, TableKnown
  <2>5. \A r \in Req : /\ page_id1'[r] # 0 => page_id1'[r] \in PagesOf(r)'
                       /\ page_id2'[r] # 0 => page_id2'[r] \in PagesOf(r)'
    BY <1>6, <1>8 DEF CacheInv, TableKnown
  <2>6. \A r \in Req : ~TwoPages(r)'
    BY <1>1, <1>8 DEF CacheInv, TableKnown, TwoPages
  <2>. QED  BY <1>9, <2>3, <2>4, <2>5, <2>6 DEF TableKnown
<1>11. TypeOK'
  <2>1. meta' \in [Page -> MetaType] /\ page_id1' \in [Req -> 0 .. PageNum] /\ page_id2' \in [Req -> 0 .. PageNum]
    <3>1. 0 \in 0 .. PageNum
      BY PagesCounted
    <3>. QED  BY <1>1, <1>3, <3>1, FreePages
  <2>2. store' \in [Req -> Content \cup {None}] /\ 0 \in 0 .. PageNum
    <3>1. 0 \in 0 .. PageNum
      BY PagesCounted
    <3>. QED  BY <1>1, <1>3, <3>1
  <2>3. Len(free_list') <= PageNum
    BY <1>9, <1>10, NoRoomForMore DEF TableKnown
  <2>. QED  BY <1>1, <1>9, <2>1, <2>2, <2>3 DEF CacheInv, TypeOK
<1>12. HeaderKnown'
  BY <1>1, <1>3 DEF HeaderKnown, Up
<1>13. CallKnown'
  BY <1>1 DEF CallKnown
<1>14. CountsKnown'
  <2>1. \A r \in Req : PagesOf(r)' # {} => PagesOf(r) # {}
    BY <1>6
  <2>2. SUFFICES ASSUME NEW b \in Block
                 PROVE  CachedIn(b)' <= cached_pages_cnt[b]
    BY <1>1 DEF CountsKnown, Up
  <2>3. CachedIn(b) \in Nat /\ CachedIn(b)' \in Nat /\ CachedIn(b)' <= CachedIn(b)
    BY <2>1, CountKept
  <2>4. CachedIn(b) <= cached_pages_cnt[b] /\ cached_pages_cnt[b] \in 0 .. MaxCount
    BY <1>1, <1>3 DEF CacheInv, CountsKnown, Up, TypeOK
  <2>. QED  BY <2>3, <2>4
<1>15. NoTornPage'
  BY <1>1, <1>3, FreePages DEF CacheInv, NoTornPage
<1>16. ~orphaned => PagesOf(q)' = {} /\ Found(q)' = None
  <2>1. SUFFICES ASSUME ~orphaned
                 PROVE  PagesOf(q)' = {} /\ Found(q)' = None
    OBVIOUS
  <2>2. PagesOf(q) = {o}
    BY <1>1, <1>2, <1>3, <1>4, <2>1 DEF CacheInv, OnePageEach
  <2>3. PagesOf(q)' = {}
    BY <1>6, <2>2
  <2>. QED  BY <2>3 DEF Found, Recovered
<1>17. OnePageEach'
  <2>1. SUFFICES ASSUME ~orphaned, NEW r \in Req
                 PROVE  /\ \A p, m \in PagesOf(r)' : p = m
                        /\ NoPage(r)' => PagesOf(r)' = {}
                        /\ Found(r)' = store'[r]
    BY <1>1 DEF OnePageEach
  <2>2. CASE r = q
    BY <1>8, <1>16, <2>1, <2>2
  <2>3. CASE r # q
    BY <1>1, <1>3, <1>6, <1>7, <1>8, <2>1, <2>3 DEF CacheInv, OnePageEach, Up, NoPage
  <2>. QED  BY <2>2, <2>3
<1>. QED  BY <1>0, <1>2, <1>7, <1>10, <1>11, <1>12, <1>13, <1>14, <1>15, <1>16, <1>17 DEF CacheInv

\* The process ends: what is in persistent memory is found as before, unless
\* an update was between its two metas.
LEMMA DownStep ==
    ASSUME CacheInv, Down, pc # "down", pc # "memset", meta' = meta,
           page' \in [Page -> Content \cup {None, Torn}],
           \A p \in Page : meta[p].valid => page'[p] = page[p],
           orphaned' \in BOOLEAN, orphaned => orphaned', orphaned' => orphaned \/ pc = "clear",
           pc = "clear" => orphaned'
    PROVE  /\ CacheInv'
           /\ ~orphaned' => \A r : Found(r)' = Found(r)
<1>1. /\ page_id1' = NoPages /\ page_id2' = NoPages /\ cached_pages_cnt' = [b \in Block |-> 0]
      /\ free_list' = <<>> /\ pc' = "down"
      /\ UNCHANGED <<magic, page_offset, req_id, content, page_old, store>>
  BY DEF Down, callVars
<1>2. ~Up' /\ (magic => Up)
  BY <1>1 DEF CacheInv, TypeOK, HeaderKnown, Up
<1>3. \A r : PagesOf(r)' = PagesOf(r)
  BY SamePages
<1>4. \A r : Found(r)' = Found(r)
  <2>1. \A r : \A p \in PagesOf(r) : page'[p] = page[p]
    BY DEF PagesOf
  <2>. QED  BY <1>1, <1>3, <2>1, FoundSame
<1>5. TypeOK'
  <2>1. 0 \in 0 .. PageNum /\ 0 \in 0 .. MaxCount /\ 0 <= PageNum
    BY PagesCounted, PmemAssumption
  <2>2. free_list' \in Seq(Page) /\ Len(free_list') = 0
    BY <1>1, EmptySeq
  <2>3. page_id1' \in [Req -> 0 .. PageNum] /\ page_id2' \in [Req -> 0 .. PageNum]
    BY <1>1, <2>1 DEF NoPages
  <2>4. cached_pages_cnt' \in [Block -> 0 .. MaxCount]
    BY <1>1, <2>1
  <2>. QED  BY <1>1, <2>1, <2>2, <2>3, <2>4 DEF CacheInv, TypeOK
<1>6. HeaderKnown'
  BY <1>1, <1>2 DEF CacheInv, HeaderKnown, Up
<1>7. CallKnown'
  BY <1>1 DEF CallKnown
<1>8. TableKnown'
  <2>1. \A r \in Req : page_id1'[r] = 0 /\ page_id2'[r] = 0
    BY <1>1 DEF NoPages
  <2>2. Len(free_list') = 0 /\ 1 .. 0 = {}
    BY <1>1, EmptySeq
  <2>. QED  BY <2>1, <2>2 DEF TableKnown, TwoPages
<1>9. CountsKnown'
  <2>1. SUFFICES ASSUME magic, NEW b \in Block
                 PROVE  CachedIn(b)' <= MaxCount
    BY <1>1, <1>2 DEF CountsKnown
  <2>2. CachedIn(b) \in Nat /\ CachedIn(b)' \in Nat /\ CachedIn(b)' <= CachedIn(b)
    BY <1>3, CountKept
  <2>3. CachedIn(b) <= cached_pages_cnt[b] /\ cached_pages_cnt[b] \in 0 .. MaxCount
    BY <1>2, <2>1 DEF CacheInv, CountsKnown, TypeOK
  <2>. QED  BY <2>2, <2>3, PmemAssumption
<1>10. NoTornPage'
  BY <1>1 DEF CacheInv, NoTornPage
<1>11. OnePageEach'
  BY <1>1, <1>2, <1>3, <1>4 DEF CacheInv, OnePageEach
<1>. QED  BY <1>4, <1>5, <1>6, <1>7, <1>8, <1>9, <1>10, <1>11 DEF CacheInv

LEMMA CrashStep ==
    ASSUME CacheInv, Crash
    PROVE  /\ CacheInv'
           /\ ~orphaned' => \A r : Found(r)' = Found(r)
<1>1. /\ pc # "down" /\ Down /\ orphaned' = (orphaned \/ pc = "clear")
      /\ pc # "memset" => meta' = meta
      /\ pc = "memset" => \E done \in SUBSET Page :
                             meta' = [p \in Page |-> IF p \in done THEN Free ELSE meta[p]]
      /\ \/ page' = page
         \/ /\ pc = "copy" /\ free_list # <<>>
            /\ page' = [page EXCEPT ![Top] = Torn]
  BY DEF Crash, Target
<1>2. /\ meta \in [Page -> MetaType] /\ page \in [Page -> Content \cup {None, Torn}]
      /\ orphaned \in BOOLEAN
  BY DEF CacheInv, TypeOK
<1>3. CASE pc = "memset"
  <2>1. /\ page_id1' = NoPages /\ page_id2' = NoPages /\ cached_pages_cnt' = [b \in Block |-> 0]
        /\ free_list' = <<>> /\ pc' = "down" /\ page' = page /\ orphaned' = orphaned
        /\ UNCHANGED <<magic, page_offset, req_id, content, page_old, store>>
    BY <1>1, <1>2, <1>3 DEF Down, callVars
  <2>2. ~magic
    BY <1>3 DEF CacheInv, HeaderKnown
  <2>3. meta' \in [Page -> MetaType]
    BY <1>1, <1>2, <1>3, FreePages
  <2>4. TypeOK'
    <3>1. 0 \in 0 .. PageNum /\ 0 \in 0 .. MaxCount /\ 0 <= PageNum
      BY PagesCounted, PmemAssumption
    <3>2. free_list' \in Seq(Page) /\ Len(free_list') = 0
      BY <2>1, EmptySeq
    <3>3. page_id1' \in [Req -> 0 .. PageNum] /\ page_id2' \in [Req -> 0 .. PageNum]
      BY <2>1, <3>1 DEF NoPages
    <3>4. cached_pages_cnt' \in [Block -> 0 .. MaxCount]
      BY <2>1, <3>1
    <3>. QED  BY <2>1, <2>3, <3>1, <3>2, <3>3, <3>4 DEF CacheInv, TypeOK
  <2>5. HeaderKnown'
    BY <2>1, <2>2 DEF CacheInv, HeaderKnown, Up
  <2>6. CallKnown' /\ CountsKnown' /\ NoTornPage' /\ OnePageEach'
    BY <2>1, <2>2 DEF CallKnown, CountsKnown, NoTornPage, OnePageEach
  <2>7. TableKnown'
    <3>1. \A r \in Req : page_id1'[r] = 0 /\ page_id2'[r] = 0
      BY <2>1 DEF NoPages
    <3>2. Len(free_list') = 0 /\ 1 .. 0 = {}
      BY <2>1, EmptySeq
    <3>. QED  BY <3>1, <3>2 DEF TableKnown, TwoPages
  <2>8. \A r : Found(r)' = Found(r)
    BY <2>1, <2>2 DEF Found
  <2>. QED  BY <2>4, <2>5, <2>6, <2>7, <2>8 DEF CacheInv
<1>4. CASE pc # "memset"
  <2>1. /\ page' \in [Page -> Content \cup {None, Torn}]
        /\ \A p \in Page : meta[p].valid => page'[p] = page[p]
    <3>1. CASE page' = page
      BY <1>2, <3>1
    <3>2. CASE pc = "copy" /\ free_list # <<>> /\ page' = [page EXCEPT ![Top] = Torn]
      <4>1. Top \in Page /\ ~meta[Top].valid
        BY <3>2, TopFree
      <4>. QED  BY <1>2, <3>2, <4>1
    <3>. QED  BY <1>1, <3>1, <3>2
  <2>. QED  BY <1>1, <1>2, <1>4, <2>1, DownStep
<1>. QED  BY <1>3, <1>4

LEMMA NoFreePageStep ==
    ASSUME CacheInv, NoFreePage
    PROVE  CacheInv' /\ \A r : Found(r)' = Found(r)
<1>1. pc = "copy" /\ Down /\ UNCHANGED <<meta, page, orphaned>>
  BY DEF NoFreePage
<1>2. page \in [Page -> Content \cup {None, Torn}] /\ orphaned \in BOOLEAN
  BY DEF CacheInv, TypeOK
<1>3. CacheInv'
  BY <1>1, <1>2, DownStep
<1>4. magic' = magic
  BY <1>1 DEF Down
<1>5. \A r : PagesOf(r)' = PagesOf(r)
  BY <1>1, SamePages
<1>. QED  BY <1>1, <1>3, <1>4, <1>5, FoundSame

\* CacheInv is an inductive invariant of cbs_req_pmem, as long as the callers
\* stay on the disk: the range check of write_req and delete_page lets
\* through one block more, whose table is not there.
THEOREM CacheInvariant == ASSUME Requests \subseteq Req PROVE Spec => []CacheInv
<1>1. Init => CacheInv
  <2>1. SUFFICES ASSUME Init
                 PROVE  CacheInv
    OBVIOUS
  <2>2. /\ ~magic /\ ~page_offset /\ page = [p \in Page |-> None]
        /\ page_id1 = NoPages /\ page_id2 = NoPages /\ cached_pages_cnt = [b \in Block |-> 0]
        /\ free_list = <<>> /\ pc = "down" /\ req_id = 0 /\ content = None /\ page_old = 0
        /\ store = [r \in Req |-> None] /\ orphaned = FALSE /\ magic = FALSE /\ page_offset = FALSE
    BY <2>1 DEF Init
  <2>3. meta \in [Page -> MetaType]
    <3>1. PICK m \in {Free} \cup {Used(r, 1) : r \in Req} : meta = [p \in Page |-> m]
      BY <2>1 DEF Init
    <3>2. \A r \in Req : Used(r, 1) \in MetaType
      BY DEF Used, MetaType
    <3>3. m \in MetaType
      BY <3>1, <3>2, FreePages
    <3>. QED  BY <3>1, <3>3
  <2>4. TypeOK
    <3>1. 0 \in 0 .. PageNum /\ 0 \in 0 .. MaxCount /\ 0 <= PageNum
      BY PagesCounted, PmemAssumption
    <3>2. free_list \in Seq(Page) /\ Len(free_list) = 0
      BY <2>2, EmptySeq
    <3>3. page_id1 \in [Req -> 0 .. PageNum] /\ page_id2 \in [Req -> 0 .. PageNum]
      BY <2>2, <3>1 DEF NoPages
    <3>4. cached_pages_cnt \in [Block -> 0 .. MaxCount]
      BY <2>2, <3>1
    <3>. QED  BY <2>2, <2>3, <3>1, <3>2, <3>3, <3>4 DEF TypeOK
  <2>5. HeaderKnown /\ CallKnown /\ CountsKnown /\ NoTornPage /\ OnePageEach
    BY <2>2 DEF HeaderKnown, CallKnown, CountsKnown, NoTornPage, OnePageEach, Up
  <2>6. TableKnown
    <3>1. \A r \in Req : page_id1[r] = 0 /\ page_id2[r] = 0
      BY <2>2 DEF NoPages
    <3>2. Len(free_list) = 0 /\ 1 .. 0 = {}
      BY <2>2, EmptySeq
    <3>. QED  BY <3>1, <3>2 DEF TableKnown, TwoPages
  <2>. QED  BY <2>4, <2>5, <2>6 DEF CacheInv
<1>2. CacheInv /\ [Next]_vars => CacheInv'
  <2>1. SUFFICES ASSUME CacheInv, [Next]_vars
                 PROVE  CacheInv'
    OBVIOUS
  <2>2. CASE UNCHANGED vars
    <3>1. UNCHANGED <<magic, page_offset, meta, page, page_id1, page_id2, cached_pages_cnt, free_list,
                      pc, req_id, content, page_old, store, orphaned>>
      BY <2>2 DEF vars, pmemVars, dramVars, callVars, history
    <3>2. Top' = Top /\ Up' = Up
      BY <3>1 DEF Top, Up
    <3>3. \A r : PagesOf(r)' = PagesOf(r)
      BY <3>1, SamePages
    <3>4. \A r : /\ Found(r)' = Found(r) /\ NoPage(r)' = NoPage(r) /\ TwoPages(r)' = TwoPages(r)
                 /\ TheOne(r)' = TheOne(r)
      BY <3>1, <3>3, FoundSame DEF NoPage, TwoPages, TheOne
    <3>5. \A b : CachedIn(b)' = CachedIn(b)
      BY <3>3 DEF CachedIn
    <3>6. TypeOK' /\ HeaderKnown' /\ NoTornPage'
      BY <2>1, <3>1 DEF CacheInv, TypeOK, HeaderKnown, NoTornPage, Up
    <3>7. CallKnown'
      <4>1. (page_old \in PagesOf(req_id))' <=> page_old \in PagesOf(req_id)
        BY <3>1, <3>3
      <4>2. (page_old = TheOne(req_id))' <=> page_old = TheOne(req_id)
        BY <3>1, <3>4
      <4>. QED  BY <2>1, <3>1, <3>2, <4>1, <4>2 DEF CacheInv, CallKnown
    <3>8. TableKnown' /\ CountsKnown' /\ OnePageEach'
      BY <2>1, <3>1, <3>2, <3>3, <3>4, <3>5 DEF CacheInv, TableKnown, CountsKnown, OnePageEach
    <3>. QED  BY <3>6, <3>7, <3>8 DEF CacheInv
  <2>. QED
    BY <2>1, <2>2, FirstInitStep, MemsetMetaStep, WriteOffsetStep, WriteMagicStep, RecoverStep,
       WriteReqStep, LookupWriteStep, ResetSnStep, CopyPageStep, AddMetaStep, UpdateMetaStep,
       ClearOldStep, DeletePageStep, DeleteOneStep, DeleteNoneStep, CrashStep, NoFreePageStep
       DEF Next
<1>. QED  BY <1>1, <1>2, PTL DEF Spec

-----------------------------------------------------------------------------
(* cbs_req_pmem: what the invariant says of the calls.                     *)

\* Between calls, no page is both free and in use, and no two requests share
\* one, whatever crashes came before (cbs_init, write_req, delete_page).
THEOREM FreeOrInUse == ASSUME Requests \subseteq Req PROVE Spec => []PagesPartitioned
<1>1. CacheInv => PagesPartitioned
  <2>1. SUFFICES ASSUME CacheInv
                 PROVE  PagesPartitioned
    OBVIOUS
  <2>2. TypeOK /\ TableKnown
    BY <2>1 DEF CacheInv
  <2>3. \A r \in Req : ~NoPage(r) => TheOne(r) \in PagesOf(r)
    BY <2>2 DEF TableKnown, NoPage, TheOne
  <2>. QED  BY <2>2, <2>3 DEF PagesPartitioned, TableKnown
<1>. QED  BY <1>1, CacheInvariant, PTL

\* The branches of write_req, read_req and delete_page for a request with two
\* pages are never taken.
THEOREM OnePageInTable == ASSUME Requests \subseteq Req PROVE Spec => []NeverTwoPages
<1>1. CacheInv => NeverTwoPages
  BY DEF CacheInv, TableKnown, NeverTwoPages
<1>. QED  BY <1>1, CacheInvariant, PTL

\* At no moment would cbs_init hand out a page whose copy was interrupted.
THEOREM ValidPagesWhole == ASSUME Requests \subseteq Req PROVE Spec => []NoTornPage
<1>1. CacheInv => NoTornPage
  BY DEF CacheInv
<1>. QED  BY <1>1, CacheInvariant, PTL

\* read_req returns what the last write_req of that request wrote, across any
\* number of restarts, unless a crash fell between the two metas of an update.
THEOREM ReadsLastPage == ASSUME Requests \subseteq Req PROVE Spec => []LastWriteWins
<1>1. CacheInv => LastWriteWins
  <2>1. SUFFICES ASSUME CacheInv, pc = "idle", ~orphaned, NEW r \in Req
                 PROVE  ReadReq(r) = store[r]
    BY DEF LastWriteWins
  <2>2. magic /\ Up
    BY <2>1 DEF CacheInv, HeaderKnown, Up
  <2>3. /\ \A p, q \in PagesOf(r) : p = q
        /\ NoPage(r) => PagesOf(r) = {}
        /\ Found(r) = store[r]
    BY <2>1, <2>2 DEF CacheInv, OnePageEach
  <2>4. CASE NoPage(r)
    BY <2>3, <2>4, FoundNone DEF ReadReq
  <2>5. CASE ~NoPage(r)
    <3>1. TheOne(r) \in PagesOf(r) /\ ~TwoPages(r)
      BY <2>1, <2>5 DEF CacheInv, TableKnown, NoPage, TheOne
    <3>2. Found(r) = page[TheOne(r)]
      BY <2>2, <2>3, <3>1, FoundOne
    <3>. QED  BY <2>3, <2>5, <3>1, <3>2 DEF ReadReq
  <2>. QED  BY <2>4, <2>5
<1>. QED  BY <1>1, CacheInvariant, PTL

\* cached_pages_cnt never misses a page of its block.
THEOREM NoPageUncounted == ASSUME Requests \subseteq Req PROVE Spec => []CountCovers
<1>1. CacheInv => CountCovers
  <2>1. SUFFICES ASSUME CacheInv, pc = "idle", NEW b \in Block
                 PROVE  Cardinality({r \in Req : BlockOf(r) = b /\ ~NoPage(r)})
                          <= cached_pages_cnt[b]
    BY DEF CountCovers
  <2>. DEFINE S == {r \in Req : BlockOf(r) = b /\ PagesOf(r) # {}}
              T == {r \in Req : BlockOf(r) = b /\ ~NoPage(r)}
  <2>2. magic /\ Up
    BY <2>1 DEF CacheInv, HeaderKnown, Up
  <2>3. \A r \in Req : ~NoPage(r) => PagesOf(r) # {}
    BY <2>1 DEF CacheInv, TableKnown, NoPage
  <2>4. T \subseteq S /\ S \subseteq Req
    BY <2>3
  <2>5. Cardinality(S) <= cached_pages_cnt[b] /\ cached_pages_cnt[b] \in 0 .. MaxCount
    BY <2>1, <2>2 DEF CacheInv, CountsKnown, CachedIn, TypeOK
  <2>. HIDE DEF S, T
  <2>6. IsFiniteSet(S)
    BY <2>4, BlocksOfRequests, FS_Subset
  <2>7. IsFiniteSet(T) /\ Cardinality(T) <= Cardinality(S)
    BY <2>4, <2>6, FS_Subset
  <2>8. Cardinality(S) \in Nat /\ Cardinality(T) \in Nat
    BY <2>6, <2>7, FS_CardinalityType
  <2>9. Cardinality(T) <= cached_pages_cnt[b]
    BY <2>5, <2>7, <2>8
  <2>. QED  BY <2>9 DEF T
<1>. QED  BY <1>1, CacheInvariant, PTL

\* The steps of the promise, by what each request finds and by the call that
\* is going on.
LEMMA PromiseStep ==
    ASSUME orphaned \in BOOLEAN, orphaned' \in BOOLEAN, orphaned => orphaned',
           ~orphaned' =>
              \/ /\ \A r \in Req : Found(r)' = Found(r)
                 /\ \/ InProgress' \in {InProgress, {}}
                    \/ /\ InProgress = {}
                       /\ \E q \in Req, c \in Content \cup {None} :
                             InProgress' = {[req |-> q, page |-> c]}
              \/ /\ \E q \in Req, c \in Content \cup {None} :
                       /\ InProgress = {[req |-> q, page |-> c]}
                       /\ Found(q)' = c /\ \A r \in Req : r # q => Found(r)' = Found(r)
                 /\ InProgress' \in {InProgress, {}}
    PROVE  [Promise!Next]_(Promise!vars)
<1>. DEFINE found == [r \in Req |-> Found(r)]
            found2 == [r \in Req |-> Found(r)']
<1>1. found' = found2
  OBVIOUS
<1>2. CASE orphaned'
  BY <1>2 DEF Promise!Next, Promise!Damage
<1>3. CASE ~orphaned' /\ \A r \in Req : Found(r)' = Found(r)
  <2>1. found2 = found
    BY <1>3
  <2>2. (~orphaned)' = (~orphaned)
    BY <1>3
  <2>3. CASE InProgress' = InProgress
    BY <1>1, <2>1, <2>2, <2>3 DEF Promise!vars
  <2>4. CASE InProgress' = {}
    BY <1>1, <2>1, <2>2, <2>4 DEF Promise!Next, Promise!Return
  <2>5. ASSUME InProgress = {}, NEW q \in Req, NEW c \in Content \cup {None},
               InProgress' = {[req |-> q, page |-> c]}
        PROVE  Promise!Next
    BY <1>1, <2>1, <2>2, <2>5 DEF Promise!Next, Promise!Call
  <2>7. ASSUME NEW q \in Req, NEW c \in Content \cup {None}, InProgress = {[req |-> q, page |-> c]},
               Found(q)' = c, InProgress' \in {InProgress, {}}
        PROVE  [Promise!Next]_(Promise!vars)
    BY <2>3, <2>4, <2>7
  <2>. QED  BY <1>3, <2>3, <2>4, <2>5, <2>7
<1>4. CASE /\ ~orphaned' /\ InProgress' \in {InProgress, {}}
           /\ \E q \in Req, c \in Content \cup {None} :
                 /\ InProgress = {[req |-> q, page |-> c]}
                 /\ Found(q)' = c /\ \A r \in Req : r # q => Found(r)' = Found(r)
  <2>1. PICK q \in Req, c \in Content \cup {None} :
               /\ InProgress = {[req |-> q, page |-> c]}
               /\ Found(q)' = c /\ \A r \in Req : r # q => Found(r)' = Found(r)
    BY <1>4
  <2>2. found2 = [found EXCEPT ![q] = c]
    BY <2>1
  <2>3. ~orphaned /\ (~orphaned)' = (~orphaned)
    BY <1>4
  <2>4. PICK k : k = [req |-> q, page |-> c]
    OBVIOUS
  <2>5. k \in InProgress /\ k.req = q /\ k.page = c
    BY <2>1, <2>4
  <2>6. found' = [found EXCEPT ![k.req] = k.page]
    BY <1>1, <2>2, <2>5
  <2>. QED  BY <1>4, <2>3, <2>5, <2>6 DEF Promise!Next, Promise!Effect
<1>. QED  BY <1>2, <1>3, <1>4

\* Steps that leave the pages and their owners alone.
LEMMA FoundKept ==
    ASSUME magic' = magic, page' = page,
           \A p \in Page : meta'[p].valid = meta[p].valid /\ meta'[p].req_id = meta[p].req_id
    PROVE  \A r : Found(r)' = Found(r)
<1>1. \A r : PagesOf(r)' = PagesOf(r)
  BY SamePages
<1>. QED  BY <1>1, FoundSame

\* The persistent memory alone is a store of pages: what a restart would find
\* changes in one step of a write_req or delete_page, for its request and to its
\* page, and neither after it nor in a restart, unless a crash falls between the
\* two metas of an update.
THEOREM IsPageStore == ASSUME Requests \subseteq Req PROVE Spec => ImplementsPageStore
<1>1. Init => Promise!Init
  <2>1. SUFFICES ASSUME Init
                 PROVE  Promise!Init
    OBVIOUS
  <2>2. ~magic /\ orphaned = FALSE
    BY <2>1 DEF Init
  <2>3. \A r : Found(r) = None
    BY <2>2 DEF Found
  <2>4. InProgress = {}
    BY <2>1 DEF Init, InProgress
  <2>. QED  BY <2>2, <2>3, <2>4 DEF Promise!Init
<1>2. CacheInv /\ CacheInv' /\ [Next]_vars => [Promise!Next]_(Promise!vars)
  <2>1. SUFFICES ASSUME CacheInv, CacheInv', [Next]_vars
                 PROVE  [Promise!Next]_(Promise!vars)
    OBVIOUS
  <2>2. orphaned \in BOOLEAN /\ orphaned' \in BOOLEAN
    BY <2>1 DEF CacheInv, TypeOK
  <2>. DEFINE Kept == \A r \in Req : Found(r)' = Found(r)
  <2>3. CASE FirstInit \/ MemsetMeta \/ WriteOffset \/ WriteMagic
    <3>1. ~magic /\ orphaned' = orphaned
      BY <2>1, <2>3 DEF CacheInv, HeaderKnown, FirstInit, MemsetMeta, WriteOffset, WriteMagic, history
    <3>2. \A r : Found(r) = None
      BY <3>1 DEF Found
    <3>3. \A r : Found(r)' = None
      <4>1. CASE WriteMagic
        <5>1. \A p \in Page : ~meta'[p].valid
          BY <2>1, <4>1, FreePages DEF CacheInv, HeaderKnown, WriteMagic
        <5>2. \A r : PagesOf(r)' = {}
          BY <5>1 DEF PagesOf
        <5>3. \A r : Recovered(r)' = 0
          BY <5>2 DEF Recovered
        <5>. QED  BY <5>3 DEF Found
      <4>2. CASE FirstInit \/ MemsetMeta \/ WriteOffset
        <5>1. magic' = magic
          BY <4>2 DEF FirstInit, MemsetMeta, WriteOffset, pmemVars
        <5>. QED  BY <3>1, <5>1 DEF Found
      <4>. QED  BY <2>3, <4>1, <4>2
    <3>4. InProgress = {} /\ InProgress' = {}
      BY <2>3 DEF FirstInit, MemsetMeta, WriteOffset, WriteMagic, InProgress
    <3>. QED  BY <2>2, <3>1, <3>2, <3>3, <3>4, PromiseStep
  <2>4. CASE \/ Recover \/ LookupWrite \/ DeleteNone \/ UNCHANGED vars
             \/ \E r \in Requests, c \in Content : WriteReq(r, c)
             \/ \E r \in Requests : DeletePage(r)
    <3>1. UNCHANGED <<magic, meta, page, orphaned>>
      BY <2>4 DEF Recover, LookupWrite, DeleteNone, WriteReq, DeletePage, vars, pmemVars, history
    <3>2. Kept
      BY <3>1, FoundKept
    <3>3. CASE Recover \/ LookupWrite \/ DeleteNone \/ UNCHANGED vars
      <4>1. InProgress' \in {InProgress, {}}
        BY <3>3 DEF Recover, LookupWrite, DeleteNone, Return, vars, callVars, InProgress
      <4>. QED  BY <2>2, <3>1, <3>2, <4>1, PromiseStep
    <3>4. ASSUME NEW r \in Requests, NEW c \in Content, WriteReq(r, c)
          PROVE  [Promise!Next]_(Promise!vars)
      <4>1. InProgress = {} /\ InProgress' = {[req |-> r, page |-> c]} /\ r \in Req
        BY <3>4 DEF WriteReq, InProgress
      <4>. QED  BY <2>2, <3>1, <3>2, <4>1, PromiseStep
    <3>5. ASSUME NEW r \in Requests, DeletePage(r)
          PROVE  [Promise!Next]_(Promise!vars)
      <4>1. InProgress = {} /\ InProgress' = {[req |-> r, page |-> None]} /\ r \in Req
        BY <3>5 DEF DeletePage, InProgress
      <4>. QED  BY <2>2, <3>1, <3>2, <4>1, PromiseStep
    <3>. QED  BY <2>4, <3>3, <3>4, <3>5
  <2>5. CASE ResetSn
    <3>1. UNCHANGED <<magic, page, orphaned>> /\ meta' = [meta EXCEPT ![page_old].sn = 0]
      BY <2>5 DEF ResetSn, history
    <3>2. \A p \in Page : meta'[p].valid = meta[p].valid /\ meta'[p].req_id = meta[p].req_id
      BY <2>1, <3>1 DEF CacheInv, TypeOK, MetaType
    <3>3. InProgress' = InProgress
      BY <2>5 DEF ResetSn, callVars, InProgress
    <3>. QED  BY <2>2, <3>1, <3>2, <3>3, FoundKept, PromiseStep
  <2>6. CASE CopyPage \/ NoFreePage
    <3>1. orphaned' = orphaned /\ InProgress' \in {InProgress, {}}
      BY <2>6 DEF CopyPage, NoFreePage, Down, history, callVars, InProgress
    <3>2. Kept
      BY <2>1, <2>6, CopyPageStep, NoFreePageStep
    <3>. QED  BY <2>2, <3>1, <3>2, PromiseStep
  <2>7. CASE AddMeta \/ ClearOld
    <3>1. /\ orphaned' = orphaned /\ InProgress' = {}
          /\ InProgress = {[req |-> req_id, page |-> content]}
      BY <2>7 DEF AddMeta, ClearOld, Return, InProgress
    <3>2. ~orphaned => \E q \in Req, c \in Content :
                          q = req_id /\ c = content /\ Found(q)' = c
                          /\ \A r \in Req : r # q => Found(r)' = Found(r)
      BY <2>1, <2>7, AddMetaStep, ClearOldStep
    <3>3. ~orphaned => \E q \in Req, c \in Content \cup {None} :
                          /\ InProgress = {[req |-> q, page |-> c]}
                          /\ Found(q)' = c /\ \A r \in Req : r # q => Found(r)' = Found(r)
      BY <3>1, <3>2
    <3>. QED  BY <2>2, <3>1, <3>3, PromiseStep
  <2>8. CASE UpdateMeta
    <3>1. /\ orphaned' = orphaned /\ InProgress' = InProgress
          /\ InProgress = {[req |-> req_id, page |-> content]}
      BY <2>8 DEF UpdateMeta, history, callVars, InProgress
    <3>2. CASE ~orphaned
      <4>1. PICK q \in Req, c \in Content :
                   q = req_id /\ c = content
                   /\ Found(q)' \in {c, Found(q)} /\ \A r : r # q => Found(r)' = Found(r)
        BY <2>1, <2>8, <3>2, UpdateMetaStep
      <4>2. CASE Found(q)' = c
        <5>1. \E x \in Req, y \in Content \cup {None} :
                 /\ InProgress = {[req |-> x, page |-> y]}
                 /\ Found(x)' = y /\ \A r \in Req : r # x => Found(r)' = Found(r)
          BY <3>1, <4>1, <4>2
        <5>. QED  BY <2>2, <3>1, <5>1, PromiseStep
      <4>3. CASE Found(q)' = Found(q)
        <5>1. Kept
          BY <4>1, <4>3
        <5>. QED  BY <2>2, <3>1, <5>1, PromiseStep
      <4>. QED  BY <4>1, <4>2, <4>3
    <3>. QED  BY <2>2, <3>1, <3>2, PromiseStep
  <2>9. CASE DeleteOne
    <3>1. /\ orphaned' = orphaned /\ InProgress' = {}
          /\ InProgress = {[req |-> req_id, page |-> None]}
      BY <2>9 DEF DeleteOne, Return, InProgress
    <3>2. ~orphaned => \E q \in Req :
                          q = req_id /\ Found(q)' = None
                          /\ \A r \in Req : r # q => Found(r)' = Found(r)
      BY <2>1, <2>9, DeleteOneStep
    <3>3. ~orphaned => \E q \in Req, c \in Content \cup {None} :
                          /\ InProgress = {[req |-> q, page |-> c]}
                          /\ Found(q)' = c /\ \A r \in Req : r # q => Found(r)' = Found(r)
      BY <3>1, <3>2
    <3>. QED  BY <2>2, <3>1, <3>3, PromiseStep
  <2>10. CASE Crash
    <3>1. (orphaned => orphaned') /\ InProgress' = {}
      BY <2>10 DEF Crash, Down, InProgress
    <3>2. ~orphaned' => Kept
      BY <2>1, <2>10, CrashStep
    <3>. QED  BY <2>2, <3>1, <3>2, PromiseStep
  <2>. QED  BY <2>1, <2>3, <2>4, <2>5, <2>6, <2>7, <2>8, <2>9, <2>10 DEF Next
<1>. QED  BY <1>1, <1>2, CacheInvariant, PTL DEF Spec, ImplementsPageStore, Promise!Spec

-----------------------------------------------------------------------------
(* cbs_req_pmemobj: the undo log.                                          *)

\* A range that was added gets its old contents back, the others keep theirs.
LEMMA OldLogged ==
    ASSUME LogKnown, NEW u \in log
    PROVE  \A now : Old(u.at, now) = u.old
BY DEF LogKnown, Old

LEMMA OldNotLogged ==
    ASSUME NEW at, at \notin Logged
    PROVE  \A now : Old(at, now) = now
BY DEF Logged, Old

\* Of a range that was added a restart does not see what is written later.
LEMMA OldHidden ==
    ASSUME NEW at \in Logged, NEW x, NEW y
    PROVE  Old(at, x) = Old(at, y)
BY DEF Logged, Old

LEMMA OldAdd ==
    ASSUME LogKnown, NEW a, NEW o, a \notin Logged, log' = log \cup {[at |-> a, old |-> o]}
    PROVE  /\ LogKnown' /\ Logged' = Logged \cup {a}
           /\ \A now : Old(a, now)' = o
           /\ \A at, now : at # a => Old(at, now)' = Old(at, now)
<1>. DEFINE e == [at |-> a, old |-> o]
<1>1. e.at = a /\ e.old = o /\ log' = log \cup {e}
  OBVIOUS
<1>. HIDE DEF e
<1>2. \A u \in log : u.at # a
  BY DEF Logged
<1>3. LogKnown'
  BY <1>1, <1>2 DEF LogKnown
<1>4. Logged' = Logged \cup {a}
  BY <1>1 DEF Logged
<1>5. \A now : Old(a, now)' = o
  <2>1. \A u \in log' : u.at = a => u = e
    BY <1>1, <1>2
  <2>2. (CHOOSE u \in log' : u.at = a) = e
    BY <1>1, <2>1
  <2>. QED  BY <1>1, <2>2 DEF Old
<1>6. ASSUME NEW at, NEW now, at # a
      PROVE  Old(at, now)' = Old(at, now)
  <2>1. \A u : (u \in log' /\ u.at = at) <=> (u \in log /\ u.at = at)
    BY <1>1, <1>6
  <2>2. (CHOOSE u \in log' : u.at = at) = (CHOOSE u \in log : u.at = at)
    BY <2>1
  <2>3. (\E u \in log' : u.at = at) <=> (\E u \in log : u.at = at)
    BY <2>1
  <2>. QED  BY <2>2, <2>3 DEF Old
<1>. QED  BY <1>3, <1>4, <1>5, <1>6

\* Without an open transaction a restart finds the pool as it is.
LEMMA OldIsNow ==
    ASSUME ObjTypeOK, log = {}
    PROVE  OldBlocks = blocks /\ OldOids = oids /\ OldCount = count /\ OldData = data
<1>1. \A at : at \notin Logged
  BY DEF Logged
<1>2. \A at, now : Old(at, now) = now
  BY <1>1, OldNotLogged
<1>. QED  BY <1>2 DEF OldBlocks, OldOids, OldCount, OldData, ObjTypeOK

LEMMA OldIsNowAfter ==
    ASSUME ObjTypeOK', log' = {}
    PROVE  OldBlocks' = blocks' /\ OldOids' = oids' /\ OldCount' = count' /\ OldData' = data'
<1>1. \A at, now : Old(at, now)' = now
  BY DEF Old
<1>. QED  BY <1>1 DEF OldBlocks, OldOids, OldCount, OldData, ObjTypeOK

\* What a restart finds stays whole if the places it reaches stay.
LEMMA RestartSame ==
    ASSUME RestartKnown, OldBlocks' = OldBlocks, OldOids' = OldOids, OldCount' = OldCount,
           alloc' \ fresh' = alloc \ fresh, deleted' = deleted,
           \A p \in PagePlace : OldData'[p] \in Content \cup {None, Torn},
           ~deleted => \A p \in alloc \ fresh : OldData'[p] = OldData[p]
    PROVE  /\ RestartKnown'
           /\ ~deleted => \A r \in Req : ReadObj(r)' = ReadObj(r)
<1>1. RestartKnown'
  BY DEF RestartKnown, BlockOf
<1>2. ASSUME ~deleted, NEW r \in Req
      PROVE  ReadObj(r)' = ReadObj(r)
  <2>1. OldOids[r] # NoOid => OldOids[r] \in alloc \ fresh
    BY <1>2 DEF RestartKnown
  <2>. QED  BY <1>2, <2>1 DEF ReadObj, BlockOf
<1>. QED  BY <1>1, <1>2

LEMMA SameLog ==
    ASSUME log' = log
    PROVE  \A at, now : Old(at, now)' = Old(at, now)
BY DEF Old

\* Steps that leave the pool alone.
LEMMA PoolSame ==
    ASSUME ObjInv, UNCHANGED <<blocks, oids, count, data, log, deleted>>,
           alloc' \ fresh' = alloc \ fresh
    PROVE  /\ LogKnown' /\ RestartKnown' /\ Logged' = Logged
           /\ OldOids' = OldOids /\ OldCount' = OldCount
           /\ ~deleted => \A r \in Req : ReadObj(r)' = ReadObj(r)
<1>1. LogKnown' /\ Logged' = Logged
  BY DEF ObjInv, LogKnown, Logged
<1>2. OldBlocks' = OldBlocks /\ OldOids' = OldOids /\ OldCount' = OldCount /\ OldData' = OldData
  BY SameLog DEF OldBlocks, OldOids, OldCount, OldData
<1>3. \A p \in PagePlace : OldData[p] \in Content \cup {None, Torn}
  BY DEF ObjInv, RestartKnown
<1>. QED  BY <1>1, <1>2, <1>3, RestartSame DEF ObjInv

LEMMA PlacesDiffer ==
    \A x, y : /\ <<"block", x>> # <<"oid", y>> /\ <<"block", x>> # <<"count", y>>
              /\ <<"block", x>> # <<"page", y>> /\ <<"oid", x>> # <<"count", y>>
              /\ <<"oid", x>> # <<"page", y>> /\ <<"count", x>> # <<"page", y>>
OBVIOUS

-----------------------------------------------------------------------------
(* cbs_req_pmemobj: every step keeps ObjInv, and only a commit changes     *)
(* what a restart would read.                                              *)

LEMMA ZeroRequest == 0 \in Req /\ NoOid \in Oid
<1>1. BlockPageNum * DiskBlockNum >= 1 /\ BlockPageNum * DiskBlockNum \in Nat
  BY LayoutAssumption
<1>. QED  BY <1>1 DEF Req, Oid

LEMMA RollbackStep ==
    ASSUME ObjInv, Rollback, ObjIdle, deleted' = deleted
    PROVE  /\ ObjInv'
           /\ ~deleted => \A r \in Req : ReadObj(r)' = ReadObj(r)
<1>1. /\ blocks' = OldBlocks /\ oids' = OldOids /\ count' = OldCount /\ data' = OldData
      /\ alloc' = alloc \ fresh /\ log' = {} /\ fresh' = {}
      /\ opc' = "idle" /\ oreq' = 0 /\ ocontent' = None /\ onew' = NoOid
  BY DEF Rollback, ObjIdle
<1>2. RestartKnown /\ ObjTypeOK
  BY DEF ObjInv
<1>3. ObjTypeOK'
  <2>1. blocks' \in [Block -> BOOLEAN] /\ count' \in [Block -> Nat]
    BY <1>1, <1>2 DEF RestartKnown, OldBlocks, OldCount
  <2>2. oids' \in [Req -> Oid] /\ data' \in [PagePlace -> Content \cup {None, Torn}]
    BY <1>1, <1>2 DEF RestartKnown, OldOids, OldData
  <2>. QED  BY <1>1, <1>2, <2>1, <2>2, ZeroRequest DEF ObjTypeOK
<1>4. OldBlocks' = OldBlocks /\ OldOids' = OldOids /\ OldCount' = OldCount /\ OldData' = OldData
  BY <1>1, <1>3, OldIsNowAfter
<1>5. LogKnown'
  BY <1>1 DEF LogKnown
<1>6. alloc' \ fresh' = alloc \ fresh
  BY <1>1
<1>7. \A p \in PagePlace : OldData[p] \in Content \cup {None, Torn}
  BY <1>2 DEF RestartKnown
<1>8. RestartKnown' /\ (~deleted => \A r \in Req : ReadObj(r)' = ReadObj(r))
  BY <1>2, <1>4, <1>6, <1>7, RestartSame
<1>9. ~Adding' /\ ~Updating'
  BY <1>1 DEF Adding, Updating
<1>. QED  BY <1>1, <1>3, <1>5, <1>8, <1>9 DEF ObjInv

\* Without a block there is no page of it.
LEMMA NoBlockNoPage ==
    ASSUME ObjInv, log = {}, NEW r \in Req
    PROVE  oids[r] # NoOid => blocks[BlockOf(r)]
<1>1. OldBlocks = blocks /\ OldOids = oids
  BY OldIsNow DEF ObjInv
<1>. QED  BY <1>1 DEF ObjInv, RestartKnown

LEMMA ObjWriteStep ==
    ASSUME ObjInv, NEW r \in Req, NEW c \in Content, ObjWrite(r, c)
    PROVE  /\ ObjInv'
           /\ ~deleted => \A q \in Req : ReadObj(q)' = ReadObj(q)
<1>1. /\ opc = "idle" /\ oreq' = r /\ ocontent' = c
      /\ opc' = IF ~blocks[BlockOf(r)] THEN "block"
                ELSE IF oids[r] = NoOid THEN "page" ELSE "snapshot"
      /\ UNCHANGED <<blocks, oids, count, alloc, data, log, fresh, onew, deleted>>
  BY DEF ObjWrite, poolVars
<1>2. log = {} /\ fresh = {}
  BY <1>1 DEF ObjInv
<1>3. ~blocks[BlockOf(r)] => oids[r] = NoOid
  BY <1>2, NoBlockNoPage
<1>4. LogKnown' /\ RestartKnown' /\ (~deleted => \A q \in Req : ReadObj(q)' = ReadObj(q))
  BY <1>1, PoolSame
<1>5. ObjTypeOK'
  BY <1>1 DEF ObjInv, ObjTypeOK
<1>6. (opc = "block" => ~blocks[BlockOf(oreq)])'
  BY <1>1 DEF BlockOf
<1>7. ~Adding' /\ ~Updating'
  BY <1>1 DEF Adding, Updating
<1>. QED  BY <1>1, <1>2, <1>3, <1>4, <1>5, <1>6, <1>7 DEF ObjInv

LEMMA NewBlockStep ==
    ASSUME ObjInv, NewBlock
    PROVE  /\ ObjInv'
           /\ ~deleted => \A q \in Req : ReadObj(q)' = ReadObj(q)
<1>1. /\ opc = "block" /\ opc' = "page"
      /\ UNCHANGED <<blocks, oids, count, alloc, data, log, fresh, oreq, ocontent, onew, deleted>>
  BY DEF NewBlock, poolVars, objCall
<1>2. LogKnown' /\ RestartKnown' /\ (~deleted => \A q \in Req : ReadObj(q)' = ReadObj(q))
  BY <1>1, PoolSame
<1>3. ObjTypeOK'
  BY <1>1 DEF ObjInv, ObjTypeOK
<1>4. ~Adding' /\ ~Updating'
  BY <1>1 DEF Adding, Updating
<1>. QED  BY <1>1, <1>2, <1>3, <1>4 DEF ObjInv

LEMMA NewPageStep ==
    ASSUME ObjInv, NEW p \in PagePlace, NewPage(p)
    PROVE  /\ ObjInv'
           /\ ~deleted => \A q \in Req : ReadObj(q)' = ReadObj(q)
<1>1. /\ opc = "page" /\ p \notin alloc /\ alloc' = alloc \cup {p}
      /\ data' = [data EXCEPT ![p] = ocontent] /\ fresh' = {p} /\ onew' = p
      /\ opc' = IF blocks[BlockOf(oreq)] THEN "oid" ELSE "root"
      /\ UNCHANGED <<blocks, oids, count, log, oreq, ocontent, deleted>>
  BY DEF NewPage
<1>2. log = {} /\ fresh = {} /\ oids[oreq] = NoOid /\ ocontent \in Content /\ ObjTypeOK
  BY <1>1 DEF ObjInv
<1>3. ObjTypeOK'
  <2>1. data' \in [PagePlace -> Content \cup {None, Torn}]
    BY <1>1, <1>2 DEF ObjTypeOK
  <2>2. alloc' \subseteq PagePlace /\ fresh' \subseteq alloc' /\ onew' \in Oid
    BY <1>1, <1>2 DEF ObjTypeOK, Oid
  <2>3. opc' \in {"oid", "root"}
    BY <1>1
  <2>. QED  BY <1>1, <1>2, <2>1, <2>2, <2>3 DEF ObjTypeOK
<1>4. OldBlocks = blocks /\ OldOids = oids /\ OldCount = count /\ OldData = data
  BY <1>2, OldIsNow
<1>5. OldBlocks' = blocks /\ OldOids' = oids /\ OldCount' = count /\ OldData' = data'
  BY <1>1, <1>2, <1>3, OldIsNowAfter
<1>6. alloc' \ fresh' = alloc \ fresh
  BY <1>1, <1>2
<1>7. \A x \in alloc \ fresh : data'[x] = data[x]
  BY <1>1, <1>2 DEF ObjTypeOK
<1>8. \A x \in PagePlace : data'[x] \in Content \cup {None, Torn}
  BY <1>3 DEF ObjTypeOK
<1>9. RestartKnown' /\ (~deleted => \A q \in Req : ReadObj(q)' = ReadObj(q))
  BY <1>1, <1>4, <1>5, <1>6, <1>7, <1>8, RestartSame DEF ObjInv
<1>10. LogKnown' /\ Logged' = {}
  BY <1>1, <1>2 DEF LogKnown, Logged
<1>11. data'[p] = ocontent
  BY <1>1, <1>2 DEF ObjTypeOK
<1>12. AddingKnown'
  BY <1>1, <1>2, <1>5, <1>10, <1>11 DEF AddingKnown, BlockOf
<1>13. ~Updating'
  BY <1>1 DEF Updating
<1>. QED  BY <1>1, <1>2, <1>3, <1>9, <1>10, <1>12, <1>13 DEF ObjInv

LEMMA SetRootStep ==
    ASSUME ObjInv, SetRoot
    PROVE  /\ ObjInv'
           /\ ~deleted => \A r \in Req : ReadObj(r)' = ReadObj(r)
<1>0. PICK q, b : q = oreq /\ b = BlockOf(oreq)
  OBVIOUS
<1>1. /\ opc = "root" /\ opc' = "oid"
      /\ log' = log \cup {[at |-> <<"block", b>>, old |-> FALSE]}
      /\ blocks' = [blocks EXCEPT ![b] = TRUE]
      /\ UNCHANGED <<oids, count, alloc, data, fresh, oreq, ocontent, onew, deleted>>
  BY <1>0 DEF SetRoot, objCall
<1>2. ObjTypeOK /\ Adding /\ AddingKnown /\ RestartKnown /\ LogKnown
  BY <1>1 DEF ObjInv, Adding
<1>3. q \in Req /\ b \in Block /\ b = BlockOf(q)
  BY <1>0, <1>2, BlocksOfRequests DEF ObjTypeOK
<1>4. log = {} /\ blocks[b] = FALSE /\ Logged = {}
  BY <1>0, <1>1, <1>2, <1>3 DEF AddingKnown, ObjTypeOK, Logged
<1>5. ObjTypeOK'
  BY <1>1, <1>2 DEF ObjTypeOK
<1>6. /\ LogKnown' /\ Logged' = {<<"block", b>>}
      /\ \A now : Old(<<"block", b>>, now)' = FALSE
      /\ \A at, now : at # <<"block", b>> => Old(at, now)' = Old(at, now)
  BY <1>1, <1>2, <1>4, OldAdd
<1>7. OldBlocks' = OldBlocks
  <2>1. \A x \in Block : Old(<<"block", x>>, blocks[x])' = Old(<<"block", x>>, blocks[x])
    <3>1. ASSUME NEW x \in Block, x # b
          PROVE  Old(<<"block", x>>, blocks[x])' = Old(<<"block", x>>, blocks[x])
      <4>1. <<"block", x>> # <<"block", b>> /\ blocks'[x] = blocks[x]
        BY <1>1, <1>2, <3>1 DEF ObjTypeOK
      <4>. QED  BY <1>6, <4>1
    <3>2. Old(<<"block", b>>, blocks[b]) = FALSE
      BY <1>4, OldNotLogged
    <3>. QED  BY <1>6, <3>1, <3>2
  <2>. QED  BY <2>1 DEF OldBlocks
<1>8. OldOids' = OldOids /\ OldCount' = OldCount /\ OldData' = OldData
  BY <1>1, <1>6, PlacesDiffer DEF OldOids, OldCount, OldData
<1>9. \A p \in PagePlace : OldData[p] \in Content \cup {None, Torn}
  BY <1>2 DEF RestartKnown
<1>10. RestartKnown' /\ (~deleted => \A r \in Req : ReadObj(r)' = ReadObj(r))
  BY <1>1, <1>2, <1>7, <1>8, <1>9, RestartSame
<1>11. AddingKnown'
  <2>1. BlockOf(oreq)' = b
    BY <1>0, <1>1 DEF BlockOf
  <2>2. blocks'[b]
    BY <1>1, <1>2, <1>3 DEF ObjTypeOK
  <2>. QED  BY <1>0, <1>1, <1>2, <1>6, <1>8, <2>1, <2>2 DEF AddingKnown
<1>12. ~Updating'
  BY <1>1 DEF Updating
<1>. QED  BY <1>1, <1>5, <1>6, <1>10, <1>11, <1>12 DEF ObjInv

LEMMA SetOidStep ==
    ASSUME ObjInv, SetOid
    PROVE  /\ ObjInv'
           /\ ~deleted => \A r \in Req : ReadObj(r)' = ReadObj(r)
<1>0. PICK q, b, n, o : q = oreq /\ b = BlockOf(oreq) /\ n = onew /\ o = oids[oreq]
  OBVIOUS
<1>1. /\ opc = "oid" /\ opc' = "count"
      /\ log' = log \cup {[at |-> <<"oid", q>>, old |-> o]}
      /\ oids' = [oids EXCEPT ![q] = n]
      /\ UNCHANGED <<blocks, count, alloc, data, fresh, oreq, ocontent, onew, deleted>>
  BY <1>0 DEF SetOid, objCall
<1>2. ObjTypeOK /\ Adding /\ AddingKnown /\ RestartKnown /\ LogKnown
  BY <1>1 DEF ObjInv, Adding
<1>3. q \in Req /\ b \in Block /\ b = BlockOf(q) /\ n \in Oid
  BY <1>0, <1>2, BlocksOfRequests DEF ObjTypeOK
<1>4. Logged \subseteq {<<"block", b>>} /\ <<"oid", q>> \notin Logged
  BY <1>0, <1>1, <1>2, PlacesDiffer DEF AddingKnown
<1>5. ObjTypeOK'
  BY <1>1, <1>2, <1>3 DEF ObjTypeOK
<1>6. /\ LogKnown' /\ Logged' = Logged \cup {<<"oid", q>>}
      /\ \A now : Old(<<"oid", q>>, now)' = o
      /\ \A at, now : at # <<"oid", q>> => Old(at, now)' = Old(at, now)
  BY <1>1, <1>2, <1>4, OldAdd
<1>7. OldOids' = OldOids
  <2>1. \A x \in Req : Old(<<"oid", x>>, oids[x])' = Old(<<"oid", x>>, oids[x])
    <3>1. ASSUME NEW x \in Req, x # q
          PROVE  Old(<<"oid", x>>, oids[x])' = Old(<<"oid", x>>, oids[x])
      <4>1. <<"oid", x>> # <<"oid", q>> /\ oids'[x] = oids[x]
        BY <1>1, <1>2, <3>1 DEF ObjTypeOK
      <4>. QED  BY <1>6, <4>1
    <3>2. Old(<<"oid", q>>, oids[q]) = o
      BY <1>0, <1>4, OldNotLogged
    <3>. QED  BY <1>6, <3>1, <3>2
  <2>. QED  BY <2>1 DEF OldOids
<1>8. OldBlocks' = OldBlocks /\ OldCount' = OldCount /\ OldData' = OldData
  BY <1>1, <1>6, PlacesDiffer DEF OldBlocks, OldCount, OldData
<1>9. \A p \in PagePlace : OldData[p] \in Content \cup {None, Torn}
  BY <1>2 DEF RestartKnown
<1>10. RestartKnown' /\ (~deleted => \A r \in Req : ReadObj(r)' = ReadObj(r))
  BY <1>1, <1>2, <1>7, <1>8, <1>9, RestartSame
<1>11. AddingKnown'
  <2>1. BlockOf(oreq)' = b
    BY <1>0, <1>1 DEF BlockOf
  <2>2. oids'[q] = n
    BY <1>1, <1>2, <1>3 DEF ObjTypeOK
  <2>. QED  BY <1>0, <1>1, <1>2, <1>4, <1>6, <1>7, <2>1, <2>2 DEF AddingKnown
<1>12. ~Updating'
  BY <1>1 DEF Updating
<1>. QED  BY <1>1, <1>2, <1>5, <1>6, <1>10, <1>11, <1>12 DEF ObjInv

LEMMA CountUpStep ==
    ASSUME ObjInv, CountUp
    PROVE  /\ ObjInv'
           /\ ~deleted => \A r \in Req : ReadObj(r)' = ReadObj(r)
<1>0. PICK q, b, k : q = oreq /\ b = BlockOf(oreq) /\ k = count[BlockOf(oreq)]
  OBVIOUS
<1>1. /\ opc = "count" /\ opc' = "commit"
      /\ log' = log \cup {[at |-> <<"count", b>>, old |-> k]}
      /\ count' = [count EXCEPT ![b] = @ + 1]
      /\ UNCHANGED <<blocks, oids, alloc, data, fresh, oreq, ocontent, onew, deleted>>
  BY <1>0 DEF CountUp, objCall
<1>2. ObjTypeOK /\ Adding /\ AddingKnown /\ RestartKnown /\ LogKnown
  BY <1>1 DEF ObjInv, Adding
<1>3. q \in Req /\ b \in Block /\ b = BlockOf(q) /\ k \in Nat /\ k = count[b]
  BY <1>0, <1>2, BlocksOfRequests DEF ObjTypeOK
<1>4. Logged \subseteq {<<"block", b>>, <<"oid", q>>} /\ <<"count", b>> \notin Logged
  BY <1>0, <1>1, <1>2, PlacesDiffer DEF AddingKnown
<1>5. count' \in [Block -> Nat] /\ count'[b] = k + 1 /\ \A x \in Block : x # b => count'[x] = count[x]
  BY <1>1, <1>2, <1>3 DEF ObjTypeOK
<1>6. /\ LogKnown' /\ Logged' = Logged \cup {<<"count", b>>}
      /\ \A now : Old(<<"count", b>>, now)' = k
      /\ \A at, now : at # <<"count", b>> => Old(at, now)' = Old(at, now)
  BY <1>1, <1>2, <1>4, OldAdd
<1>7. OldCount' = OldCount /\ OldCount[b] = k
  <2>1. \A x \in Block : Old(<<"count", x>>, count[x])' = Old(<<"count", x>>, count[x])
    <3>1. ASSUME NEW x \in Block, x # b
          PROVE  Old(<<"count", x>>, count[x])' = Old(<<"count", x>>, count[x])
      <4>1. <<"count", x>> # <<"count", b>> /\ count'[x] = count[x]
        BY <1>5, <3>1
      <4>. QED  BY <1>6, <4>1
    <3>2. Old(<<"count", b>>, count[b]) = k
      BY <1>3, <1>4, OldNotLogged
    <3>. QED  BY <1>6, <3>1, <3>2
  <2>2. Old(<<"count", b>>, count[b]) = k
    BY <1>3, <1>4, OldNotLogged
  <2>. QED  BY <1>3, <2>1, <2>2 DEF OldCount
<1>8. OldBlocks' = OldBlocks /\ OldOids' = OldOids /\ OldData' = OldData
  BY <1>1, <1>6, PlacesDiffer DEF OldBlocks, OldOids, OldData
<1>9. \A p \in PagePlace : OldData[p] \in Content \cup {None, Torn}
  BY <1>2 DEF RestartKnown
<1>10. RestartKnown' /\ (~deleted => \A r \in Req : ReadObj(r)' = ReadObj(r))
  BY <1>1, <1>2, <1>7, <1>8, <1>9, RestartSame
<1>11. AddingKnown' /\ fresh' # {}
  <2>1. BlockOf(oreq)' = b
    BY <1>0, <1>1 DEF BlockOf
  <2>. QED  BY <1>0, <1>1, <1>2, <1>4, <1>5, <1>6, <1>7, <1>8, <2>1 DEF AddingKnown
<1>12. ~Updating'
  BY <1>1, <1>11 DEF Updating
<1>13. ObjTypeOK'
  BY <1>1, <1>2, <1>5 DEF ObjTypeOK
<1>. QED  BY <1>1, <1>2, <1>6, <1>10, <1>11, <1>12, <1>13 DEF ObjInv

LEMMA SnapshotStep ==
    ASSUME ObjInv, Snapshot
    PROVE  /\ ObjInv'
           /\ ~deleted => \A r \in Req : ReadObj(r)' = ReadObj(r)
<1>0. PICK o, d : o = oids[oreq] /\ d = data[oids[oreq]]
  OBVIOUS
<1>1. /\ opc = "snapshot" /\ opc' = "update"
      /\ log' = {[at |-> <<"page", o>>, old |-> d]}
      /\ UNCHANGED <<blocks, oids, count, alloc, data, fresh, oreq, ocontent, onew, deleted>>
  BY <1>0 DEF Snapshot, objCall, poolVars
<1>2. ObjTypeOK /\ RestartKnown /\ LogKnown /\ log = {} /\ fresh = {} /\ o # NoOid
  BY <1>0, <1>1 DEF ObjInv
<1>3. Logged = {}
  BY <1>2 DEF Logged
<1>4. log' = log \cup {[at |-> <<"page", o>>, old |-> d]}
  BY <1>1, <1>2
<1>5. ObjTypeOK'
  BY <1>1, <1>2 DEF ObjTypeOK
<1>6. /\ LogKnown' /\ Logged' = {<<"page", o>>}
      /\ \A now : Old(<<"page", o>>, now)' = d
      /\ \A at, now : at # <<"page", o>> => Old(at, now)' = Old(at, now)
  BY <1>2, <1>3, <1>4, OldAdd
<1>7. OldData' = OldData
  <2>1. \A x \in PagePlace : Old(<<"page", x>>, data[x])' = Old(<<"page", x>>, data[x])
    <3>1. ASSUME NEW x \in PagePlace, x # o
          PROVE  Old(<<"page", x>>, data[x])' = Old(<<"page", x>>, data[x])
      <4>1. <<"page", x>> # <<"page", o>> /\ data'[x] = data[x]
        BY <1>1, <3>1
      <4>. QED  BY <1>6, <4>1
    <3>2. Old(<<"page", o>>, data[o]) = d
      BY <1>0, <1>3, OldNotLogged
    <3>. QED  BY <1>6, <3>1, <3>2
  <2>. QED  BY <2>1 DEF OldData
<1>8. OldBlocks' = OldBlocks /\ OldCount' = OldCount /\ OldOids' = OldOids
  BY <1>1, <1>6, PlacesDiffer DEF OldBlocks, OldCount, OldOids
<1>9. \A p \in PagePlace : OldData[p] \in Content \cup {None, Torn}
  BY <1>2 DEF RestartKnown
<1>10. RestartKnown' /\ (~deleted => \A r \in Req : ReadObj(r)' = ReadObj(r))
  BY <1>1, <1>2, <1>7, <1>8, <1>9, RestartSame
<1>11. UpdatingKnown' /\ ~Adding'
  BY <1>0, <1>1, <1>2, <1>6 DEF UpdatingKnown, Adding
<1>. QED  BY <1>1, <1>2, <1>5, <1>6, <1>10, <1>11 DEF ObjInv

\* Both halves of the copy: the page is in the undo log.
LEMMA OverwriteStep ==
    ASSUME ObjInv, opc \in {"update", "copy"}, opc' \in {"copy", "commit"},
           NEW x \in Content \cup {None, Torn}, data' = [data EXCEPT ![oids[oreq]] = x],
           opc' = "commit" => x = ocontent,
           UNCHANGED <<blocks, oids, count, alloc, log, fresh, oreq, ocontent, onew, deleted>>
    PROVE  /\ ObjInv'
           /\ ~deleted => \A r \in Req : ReadObj(r)' = ReadObj(r)
<1>0. PICK o : o = oids[oreq]
  OBVIOUS
<1>1. ObjTypeOK /\ RestartKnown /\ LogKnown /\ Updating /\ UpdatingKnown
  BY DEF ObjInv, Updating
<1>2. o \in PagePlace /\ Logged = {<<"page", o>>} /\ fresh = {}
  BY <1>0, <1>1 DEF ObjTypeOK, UpdatingKnown, Oid
<1>3. /\ data' \in [PagePlace -> Content \cup {None, Torn}] /\ data'[o] = x
      /\ \A p \in PagePlace : p # o => data'[p] = data[p]
  BY <1>0, <1>1, <1>2 DEF ObjTypeOK
<1>4. OldData' = OldData
  <2>1. \A p \in PagePlace : Old(<<"page", p>>, data[p])' = Old(<<"page", p>>, data[p])
    <3>1. \A p \in PagePlace : Old(<<"page", p>>, data[p])' = Old(<<"page", p>>, data'[p])
      BY SameLog
    <3>2. Old(<<"page", o>>, data'[o]) = Old(<<"page", o>>, data[o])
      BY <1>2, OldHidden
    <3>. QED  BY <1>3, <3>1, <3>2
  <2>. QED  BY <2>1 DEF OldData
<1>5. OldBlocks' = OldBlocks /\ OldCount' = OldCount /\ OldOids' = OldOids
  BY SameLog DEF OldBlocks, OldCount, OldOids
<1>6. \A p \in PagePlace : OldData[p] \in Content \cup {None, Torn}
  BY <1>1 DEF RestartKnown
<1>7. RestartKnown' /\ (~deleted => \A r \in Req : ReadObj(r)' = ReadObj(r))
  BY <1>1, <1>4, <1>5, <1>6, RestartSame
<1>8. LogKnown' /\ Logged' = {<<"page", o>>}
  BY <1>1, <1>2 DEF LogKnown, Logged
<1>9. UpdatingKnown' /\ ~Adding'
  BY <1>0, <1>1, <1>2, <1>3, <1>8 DEF UpdatingKnown, Adding
<1>10. ObjTypeOK'
  BY <1>1, <1>3 DEF ObjTypeOK
<1>. QED  BY <1>1, <1>7, <1>8, <1>9, <1>10 DEF ObjInv

LEMMA UpdateStep ==
    ASSUME ObjInv, UpdateBegins \/ UpdateEnds
    PROVE  /\ ObjInv'
           /\ ~deleted => \A r \in Req : ReadObj(r)' = ReadObj(r)
<1>1. CASE UpdateBegins
  BY <1>1, OverwriteStep DEF UpdateBegins, objCall
<1>2. CASE UpdateEnds
  <2>1. ocontent \in Content
    BY <1>2 DEF UpdateEnds, ObjInv
  <2>. QED  BY <1>2, <2>1, OverwriteStep DEF UpdateEnds, objCall
<1>. QED  BY <1>1, <1>2

LEMMA ObjCrashStep ==
    ASSUME ObjInv, ObjCrash
    PROVE  /\ ObjInv'
           /\ ~deleted => \A r \in Req : ReadObj(r)' = ReadObj(r)
<1>1. /\ opc' = "down"
      /\ UNCHANGED <<blocks, oids, count, alloc, data, log, fresh, oreq, ocontent, onew, deleted>>
  BY DEF ObjCrash, poolVars, objCall
<1>2. LogKnown' /\ RestartKnown' /\ (~deleted => \A q \in Req : ReadObj(q)' = ReadObj(q))
  BY <1>1, PoolSame
<1>3. ObjTypeOK' /\ ~Adding' /\ ~Updating'
  BY <1>1 DEF ObjInv, ObjTypeOK, Adding, Updating
<1>. QED  BY <1>1, <1>2, <1>3 DEF ObjInv

LEMMA DeleteObjStep ==
    ASSUME ObjInv, NEW r \in Req, DeleteObj(r)
    PROVE  ObjInv' /\ deleted'
<1>1. /\ opc = "idle" /\ alloc' = alloc \ {oids[r]} /\ deleted' = TRUE
      /\ UNCHANGED <<blocks, oids, count, data, log, fresh, opc, oreq, ocontent, onew>>
  BY DEF DeleteObj, objCall
<1>2. log = {} /\ fresh = {} /\ ObjTypeOK
  BY <1>1 DEF ObjInv
<1>3. ObjTypeOK'
  BY <1>1, <1>2 DEF ObjTypeOK
<1>4. OldBlocks' = OldBlocks /\ OldOids' = OldOids /\ OldCount' = OldCount /\ OldData' = OldData
  BY <1>1, SameLog DEF OldBlocks, OldOids, OldCount, OldData
<1>5. RestartKnown'
  BY <1>1, <1>4 DEF ObjInv, RestartKnown, BlockOf
<1>6. LogKnown' /\ ~Adding' /\ ~Updating'
  BY <1>1, <1>2 DEF LogKnown, Adding, Updating
<1>. QED  BY <1>1, <1>2, <1>3, <1>5, <1>6 DEF ObjInv

\* Neither the invariant nor the promise depends on where the undo log ends.
LEMMA CommitIsNow ==
    ASSUME ObjInv, Commit
    PROVE  /\ ObjTypeOK' /\ LogKnown' /\ fresh' = {} /\ alloc' = alloc /\ deleted' = deleted
           /\ log' = {} /\ opc' = "idle"
           /\ OldBlocks' = blocks /\ OldOids' = oids /\ OldCount' = count /\ OldData' = data
           /\ ~Adding' /\ ~Updating'
<1>1. /\ opc = "commit" /\ log' = {} /\ fresh' = {} /\ opc' = "idle" /\ oreq' = 0
      /\ ocontent' = None /\ onew' = NoOid
      /\ UNCHANGED <<blocks, oids, count, alloc, data, deleted>>
  BY DEF Commit, ObjIdle, poolVars
<1>2. ObjTypeOK'
  BY <1>1, ZeroRequest DEF ObjInv, ObjTypeOK
<1>3. OldBlocks' = blocks' /\ OldOids' = oids' /\ OldCount' = count' /\ OldData' = data'
  BY <1>1, <1>2, OldIsNowAfter
<1>. QED  BY <1>1, <1>2, <1>3 DEF LogKnown, Adding, Updating

LEMMA CommitOfUpdate ==
    ASSUME ObjInv, Commit, fresh = {}
    PROVE  /\ ObjInv'
           /\ ~deleted => \E q \in Req, c \in Content :
                             q = oreq /\ c = ocontent /\ ReadObj(q)' = c /\ \A r \in Req : r # q => ReadObj(r)' = ReadObj(r)
<1>0. PICK q, o, c : q = oreq /\ o = oids[oreq] /\ c = ocontent
  OBVIOUS
<1>1. ObjTypeOK /\ RestartKnown /\ UpdatingKnown /\ c \in Content /\ opc = "commit"
  BY <1>0 DEF ObjInv, Updating, Commit
<1>2. q \in Req /\ o = oids[q] /\ o \in PagePlace /\ o # NoOid /\ Logged = {<<"page", o>>}
      /\ data[o] = c
  BY <1>0, <1>1 DEF ObjTypeOK, UpdatingKnown, Oid
<1>3. OldBlocks = blocks /\ OldOids = oids /\ OldCount = count
  <2>1. \A x, now : /\ Old(<<"block", x>>, now) = now /\ Old(<<"oid", x>>, now) = now
                    /\ Old(<<"count", x>>, now) = now
    BY <1>2, OldNotLogged, PlacesDiffer
  <2>. QED  BY <1>1, <2>1 DEF OldBlocks, OldOids, OldCount, ObjTypeOK
<1>4. \A p \in PagePlace : p # o => OldData[p] = data[p]
  <2>1. ASSUME NEW p \in PagePlace, p # o
        PROVE  OldData[p] = data[p]
    <3>1. <<"page", p>> # <<"page", o>>
      BY <2>1
    <3>2. Old(<<"page", p>>, data[p]) = data[p]
      BY <1>2, <3>1, OldNotLogged
    <3>. QED  BY <2>1, <3>2 DEF OldData
  <2>. QED  BY <2>1
<1>5. RestartKnown'
  <2>1. \A p \in PagePlace : data[p] \in Content \cup {None, Torn}
    BY <1>1 DEF ObjTypeOK
  <2>. QED  BY <1>1, <1>3, <2>1, CommitIsNow DEF RestartKnown, BlockOf
<1>6. ObjInv'
  BY <1>5, CommitIsNow DEF ObjInv
<1>7. ASSUME ~deleted
      PROVE  ReadObj(q)' = c /\ \A r \in Req : r # q => ReadObj(r)' = ReadObj(r)
  <2>1. blocks[BlockOf(q)]
    BY <1>1, <1>2, <1>3 DEF RestartKnown
  <2>2. ReadObj(q)' = c
    BY <1>2, <2>1, CommitIsNow DEF ReadObj, BlockOf
  <2>3. ASSUME NEW r \in Req, r # q
        PROVE  ReadObj(r)' = ReadObj(r)
    <3>1. oids[r] # NoOid => oids[r] # o /\ oids[r] \in PagePlace
      BY <1>1, <1>2, <1>3, <1>7, <2>3 DEF RestartKnown, ObjTypeOK, Oid
    <3>. QED  BY <1>3, <1>4, <3>1, CommitIsNow DEF ReadObj, BlockOf
  <2>. QED  BY <2>2, <2>3
<1>. QED  BY <1>0, <1>1, <1>2, <1>6, <1>7

LEMMA CommitOfNewPage ==
    ASSUME ObjInv, Commit, fresh # {}
    PROVE  /\ ObjInv'
           /\ ~deleted => \E q \in Req, c \in Content :
                             q = oreq /\ c = ocontent /\ ReadObj(q)' = c /\ \A r \in Req : r # q => ReadObj(r)' = ReadObj(r)
<1>0. PICK q, b, n, c : q = oreq /\ b = BlockOf(oreq) /\ n = onew /\ c = ocontent
  OBVIOUS
<1>1. ObjTypeOK /\ RestartKnown /\ AddingKnown /\ c \in Content /\ opc = "commit"
  BY <1>0 DEF ObjInv, Adding, Commit
<1>2. /\ q \in Req /\ b = BlockOf(q) /\ b \in Block /\ n \in PagePlace /\ fresh = {n} /\ data[n] = c
      /\ OldOids[q] = NoOid /\ oids[q] = n /\ blocks[b] /\ count[b] = OldCount[b] + 1 /\ n # NoOid
      /\ Logged \subseteq {<<"block", b>>, <<"oid", q>>, <<"count", b>>}
  BY <1>0, <1>1, BlocksOfRequests, ObjAssumption DEF AddingKnown, ObjTypeOK
<1>3. OldData = data
  <2>1. \A p, now : Old(<<"page", p>>, now) = now
    BY <1>2, OldNotLogged, PlacesDiffer
  <2>. QED  BY <1>1, <2>1 DEF OldData, ObjTypeOK
<1>4. \A r \in Req : r # q => OldOids[r] = oids[r]
  <2>1. ASSUME NEW r \in Req, r # q
        PROVE  OldOids[r] = oids[r]
    <3>1. <<"oid", r>> # <<"oid", q>>
      BY <2>1
    <3>2. Old(<<"oid", r>>, oids[r]) = oids[r]
      BY <1>2, <3>1, OldNotLogged, PlacesDiffer
    <3>. QED  BY <2>1, <3>2 DEF OldOids
  <2>. QED  BY <2>1
<1>5. \A x \in Block : x # b => OldBlocks[x] = blocks[x] /\ OldCount[x] = count[x]
  <2>1. ASSUME NEW x \in Block, x # b
        PROVE  OldBlocks[x] = blocks[x] /\ OldCount[x] = count[x]
    <3>1. <<"block", x>> # <<"block", b>> /\ <<"count", x>> # <<"count", b>>
      BY <2>1
    <3>2. Old(<<"block", x>>, blocks[x]) = blocks[x] /\ Old(<<"count", x>>, count[x]) = count[x]
      BY <1>2, <3>1, OldNotLogged, PlacesDiffer
    <3>. QED  BY <2>1, <3>2 DEF OldBlocks, OldCount
  <2>. QED  BY <2>1
<1>6. RestartKnown'
  <2>1. /\ \A x \in Block : blocks[x] \in BOOLEAN /\ count[x] \in Nat
        /\ \A r \in Req : oids[r] \in Oid
        /\ \A p \in PagePlace : data[p] \in Content \cup {None, Torn}
    BY <1>1 DEF ObjTypeOK
  <2>2. \A r \in Req : oids[r] # NoOid => blocks[BlockOf(r)]
    BY <1>1, <1>2, <1>4, <1>5, BlocksOfRequests DEF RestartKnown
  <2>3. ASSUME NEW x \in Block
        PROVE  count[x] = Cardinality({r \in Req : oids[r] # NoOid /\ BlockOf(r) = x})
    <3>. DEFINE S == {r \in Req : OldOids[r] # NoOid /\ BlockOf(r) = x}
                T == {r \in Req : oids[r] # NoOid /\ BlockOf(r) = x}
    <3>1. OldCount[x] = Cardinality(S) /\ OldCount[x] \in Nat
      BY <1>1 DEF RestartKnown
    <3>2. IsFiniteSet(S) /\ q \notin S
      <4>1. S \subseteq Req
        OBVIOUS
      <4>. QED  BY <1>2, <4>1, BlocksOfRequests, FS_Subset
    <3>3. CASE x = b
      <4>1. T = S \cup {q}
        BY <1>2, <1>4, <3>3
      <4>. HIDE DEF S, T
      <4>2. Cardinality(T) = Cardinality(S) + 1
        BY <3>2, <4>1, FS_AddElement
      <4>3. count[x] = Cardinality(T)
        BY <1>2, <3>1, <3>3, <4>2
      <4>. QED  BY <4>3 DEF T
    <3>4. CASE x # b
      <4>1. T = S
        BY <1>2, <1>4, <3>4
      <4>2. count[x] = OldCount[x]
        BY <1>5, <3>4
      <4>. QED  BY <3>1, <4>1, <4>2
    <3>. QED  BY <3>3, <3>4
  <2>4. ASSUME ~deleted
        PROVE  /\ {oids[r] : r \in {x \in Req : oids[x] # NoOid}} = alloc
               /\ \A r, s \in Req : oids[r] = oids[s] /\ oids[r] # NoOid => r = s
    <3>1. /\ {OldOids[r] : r \in {x \in Req : OldOids[x] # NoOid}} = alloc \ fresh
          /\ \A r, s \in Req : OldOids[r] = OldOids[s] /\ OldOids[r] # NoOid => r = s
      BY <1>1, <2>4 DEF RestartKnown
    <3>2. n \in alloc /\ n \notin alloc \ fresh /\ alloc = (alloc \ fresh) \cup {n}
      BY <1>1, <1>2 DEF ObjTypeOK
    <3>3. \A r \in Req : r # q /\ oids[r] # NoOid => oids[r] \in alloc \ fresh
      BY <1>4, <3>1
    <3>4. \A r, s \in Req : oids[r] = oids[s] /\ oids[r] # NoOid => r = s
      BY <1>2, <1>4, <3>1, <3>2, <3>3
    <3>5. \A p \in alloc \ fresh : \E r \in Req : r # q /\ oids[r] = p /\ oids[r] # NoOid
      BY <1>2, <1>4, <3>1
    <3>6. {oids[r] : r \in {x \in Req : oids[x] # NoOid}} \subseteq alloc
      BY <1>2, <3>2, <3>3
    <3>7. alloc \subseteq {oids[r] : r \in {x \in Req : oids[x] # NoOid}}
      BY <1>2, <3>2, <3>5
    <3>. QED  BY <3>4, <3>6, <3>7
  <2>5. alloc' \ fresh' = alloc
    BY CommitIsNow
  <2>. QED  BY <2>1, <2>2, <2>3, <2>4, <2>5, CommitIsNow DEF RestartKnown, BlockOf
<1>7. ObjInv'
  BY <1>6, CommitIsNow DEF ObjInv
<1>8. ReadObj(q)' = c
  BY <1>2, CommitIsNow DEF ReadObj, BlockOf
<1>9. ASSUME NEW r \in Req, r # q
      PROVE  ReadObj(r)' = ReadObj(r)
  <2>1. ReadObj(r)' = IF ~blocks[BlockOf(r)] \/ oids[r] = NoOid THEN None ELSE data[oids[r]]
    BY CommitIsNow DEF ReadObj, BlockOf
  <2>2. OldOids[r] = oids[r] /\ (oids[r] # NoOid => OldBlocks[BlockOf(r)])
    BY <1>1, <1>4, <1>9 DEF RestartKnown
  <2>3. oids[r] # NoOid => blocks[BlockOf(r)]
    BY <1>2, <1>5, <1>9, <2>2, BlocksOfRequests
  <2>. QED  BY <1>3, <2>1, <2>2, <2>3 DEF ReadObj
<1>. QED  BY <1>0, <1>1, <1>2, <1>7, <1>8, <1>9

\* ObjInv is an inductive invariant of cbs_req_pmemobj.
THEOREM ObjInvariant == ObjSpec => []ObjInv
<1>1. ObjInit => ObjInv
  <2>1. SUFFICES ASSUME ObjInit
                 PROVE  ObjInv
    OBVIOUS
  <2>2. /\ blocks = [b \in Block |-> FALSE] /\ count = [b \in Block |-> 0]
        /\ oids = [r \in Req |-> NoOid] /\ alloc = {} /\ data = [p \in PagePlace |-> None]
        /\ log = {} /\ fresh = {} /\ opc = "down" /\ oreq = 0 /\ ocontent = None /\ onew = NoOid
        /\ deleted = FALSE
    BY <2>1 DEF ObjInit
  <2>3. ObjTypeOK
    BY <2>2, ZeroRequest DEF ObjTypeOK
  <2>4. OldBlocks = blocks /\ OldOids = oids /\ OldCount = count /\ OldData = data
    BY <2>2, <2>3, OldIsNow
  <2>5. \A b \in Block : {r \in Req : oids[r] # NoOid /\ BlockOf(r) = b} = {}
    BY <2>2
  <2>6. \A r \in Req : oids[r] = NoOid /\ oids[r] \in Oid
    BY <2>2, ZeroRequest
  <2>7. \A b \in Block : count[b] = Cardinality({r \in Req : oids[r] # NoOid /\ BlockOf(r) = b})
    BY <2>2, <2>5, FS_EmptySet
  <2>8. RestartKnown
    BY <2>2, <2>4, <2>6, <2>7 DEF RestartKnown
  <2>9. LogKnown /\ ~Adding /\ ~Updating
    BY <2>2 DEF LogKnown, Adding, Updating
  <2>. QED  BY <2>2, <2>3, <2>8, <2>9 DEF ObjInv
<1>2. ObjInv /\ [ObjNext]_objVars => ObjInv'
  <2>1. SUFFICES ASSUME ObjInv, [ObjNext]_objVars
                 PROVE  ObjInv'
    OBVIOUS
  <2>2. CASE UNCHANGED objVars
    <3>1. UNCHANGED <<blocks, oids, count, alloc, data, log, fresh, opc, oreq, ocontent, onew, deleted>>
      BY <2>2 DEF objVars, poolVars, objCall
    <3>2. /\ LogKnown' /\ RestartKnown' /\ Logged' = Logged
          /\ OldOids' = OldOids /\ OldCount' = OldCount
      BY <2>1, <3>1, PoolSame
    <3>3. ObjTypeOK' /\ Adding' = Adding /\ Updating' = Updating /\ BlockOf(oreq)' = BlockOf(oreq)
      BY <2>1, <3>1 DEF ObjInv, ObjTypeOK, Adding, Updating, BlockOf
    <3>4. (Adding => AddingKnown') /\ (Updating => UpdatingKnown')
      BY <2>1, <3>1, <3>2, <3>3 DEF ObjInv, AddingKnown, UpdatingKnown
    <3>. QED  BY <2>1, <3>1, <3>2, <3>3, <3>4 DEF ObjInv
  <2>3. CASE ObjOpen \/ NoRoom
    BY <2>1, <2>3, RollbackStep DEF ObjOpen, NoRoom
  <2>4. CASE Commit
    BY <2>1, <2>4, CommitOfUpdate, CommitOfNewPage
  <2>. QED
    BY <2>1, <2>2, <2>3, <2>4, ObjWriteStep, NewBlockStep, NewPageStep, SetRootStep, SetOidStep,
       CountUpStep, SnapshotStep, UpdateStep, DeleteObjStep, ObjCrashStep DEF ObjNext
<1>. QED  BY <1>1, <1>2, PTL DEF ObjSpec

\* Wherever a run of cbs_req_pmemobj stops, the counts of the pages are right
\* after a restart, and no page has leaked unless one was deleted.
THEOREM PoolWhole == ObjSpec => []ObjWhole
<1>1. ObjInv => ObjWhole
  <2>1. SUFFICES ASSUME ObjInv
                 PROVE  ObjWhole
    OBVIOUS
  <2>. DEFINE held == {r \in Req : OldOids[r] # NoOid}
  <2>2. RestartKnown /\ ObjTypeOK
    BY <2>1 DEF ObjInv
  <2>3. \A b \in Block : OldCount[b] = Cardinality({r \in held : BlockOf(r) = b})
    <3>1. \A b : {r \in held : BlockOf(r) = b} = {r \in Req : OldOids[r] # NoOid /\ BlockOf(r) = b}
      OBVIOUS
    <3>. QED  BY <2>2, <3>1 DEF RestartKnown
  <2>4. ASSUME ~deleted
        PROVE  {OldOids[r] : r \in held} = alloc \ fresh /\ Cardinality(held) = Cardinality(alloc \ fresh)
    <3>. DEFINE f == [r \in held |-> OldOids[r]]
                used == alloc \ fresh
    <3>1. {OldOids[r] : r \in held} = used
      BY <2>2, <2>4 DEF RestartKnown
    <3>2. \A q, r \in held : OldOids[q] = OldOids[r] => q = r
      BY <2>2, <2>4 DEF RestartKnown
    <3>3. IsFiniteSet(held)
      <4>1. held \subseteq Req
        OBVIOUS
      <4>. QED  BY <4>1, BlocksOfRequests, FS_Subset
    <3>4. f \in Bijection(held, used)
      <4>. HIDE DEF held, used
      <4>1. f \in [held -> used]
        BY <3>1
      <4>2. \A q, r \in held : f[q] = f[r] => q = r
        BY <3>2
      <4>3. \A p \in used : \E r \in held : f[r] = p
        BY <3>1
      <4>. QED  BY <4>1, <4>2, <4>3, Fun_IsBij
    <3>. HIDE DEF held, used, f
    <3>5. Cardinality(held) = Cardinality(used)
      BY <3>3, <3>4, FS_Bijection DEF ExistsBijection
    <3>. QED  BY <3>1, <3>5 DEF used
  <2>. QED  BY <2>3, <2>4 DEF ObjWhole
<1>. QED  BY <1>1, ObjInvariant, PTL

\* The pool of cbs_req_pmemobj is a store of pages until one is deleted: what
\* a restart would read changes in one step of a write, its commit, for its
\* request and to its page, although an update overwrites the page in place.
THEOREM ObjPoolIsPageStore == ObjSpec => ObjIsPageStore
<1>1. ObjInit => ObjPromise!Init
  <2>1. SUFFICES ASSUME ObjInit
                 PROVE  ObjPromise!Init
    OBVIOUS
  <2>2. \A r \in Req : OldOids[r] = NoOid
    BY <2>1 DEF ObjInit, OldOids, Old
  <2>3. \A r \in Req : ReadObj(r) = None
    BY <2>2 DEF ReadObj
  <2>4. ObjInProgress = {}
    BY <2>1 DEF ObjInit, ObjInProgress
  <2>. QED  BY <2>1, <2>3, <2>4 DEF ObjPromise!Init, ObjInit
<1>2. ObjInv /\ [ObjNext]_objVars => [ObjPromise!Next]_(ObjPromise!vars)
  <2>1. SUFFICES ASSUME ObjInv, [ObjNext]_objVars
                 PROVE  [ObjPromise!Next]_(ObjPromise!vars)
    OBVIOUS
  <2>2. deleted \in BOOLEAN
    BY <2>1 DEF ObjInv, ObjTypeOK
  <2>. DEFINE Kept == deleted' = deleted /\ (~deleted => \A r \in Req : ReadObj(r)' = ReadObj(r))
              read == [r \in Req |-> ReadObj(r)]
              read2 == [r \in Req |-> ReadObj(r)']
  <2>3. read' = read2
    OBVIOUS
  <2>4. ASSUME Kept,
               \/ ObjInProgress' \in {ObjInProgress, {}}
               \/ /\ ObjInProgress = {}
                  /\ \E q \in Req, c \in Content : ObjInProgress' = {[req |-> q, page |-> c]}
        PROVE  [ObjPromise!Next]_(ObjPromise!vars)
    <3>1. CASE deleted
      BY <2>4, <3>1 DEF ObjPromise!Next, ObjPromise!Damage
    <3>2. CASE ~deleted
      <4>1. read2 = read /\ (~deleted)' = (~deleted)
        BY <2>4, <3>2
      <4>2. CASE ObjInProgress' = ObjInProgress
        BY <2>3, <4>1, <4>2 DEF ObjPromise!vars
      <4>3. CASE ObjInProgress' = {}
        BY <2>3, <4>1, <4>3 DEF ObjPromise!Next, ObjPromise!Return
      <4>4. ASSUME ObjInProgress = {}, NEW q \in Req, NEW c \in Content,
                   ObjInProgress' = {[req |-> q, page |-> c]}
            PROVE  ObjPromise!Next
        BY <2>3, <4>1, <4>4 DEF ObjPromise!Next, ObjPromise!Call
      <4>. QED  BY <2>4, <4>2, <4>3, <4>4
    <3>. QED  BY <3>1, <3>2
  <2>5. CASE UNCHANGED objVars
    <3>1. UNCHANGED <<blocks, oids, count, alloc, data, log, fresh, deleted>>
      BY <2>5 DEF objVars, poolVars
    <3>2. ObjInProgress' = ObjInProgress
      BY <2>5 DEF objVars, objCall, ObjInProgress
    <3>. QED  BY <2>1, <2>4, <3>1, <3>2, PoolSame
  <2>6. CASE ObjOpen \/ NoRoom
    <3>1. ObjInProgress' = {}
      BY <2>6 DEF ObjOpen, NoRoom, ObjIdle, ObjInProgress
    <3>2. Kept
      BY <2>1, <2>6, RollbackStep DEF ObjOpen, NoRoom
    <3>. QED  BY <2>4, <3>1, <3>2
  <2>7. CASE Commit
    <3>1. /\ deleted' = deleted /\ ObjInProgress' = {}
          /\ ObjInProgress = {[req |-> oreq, page |-> ocontent]}
      BY <2>7 DEF Commit, ObjIdle, ObjInProgress
    <3>2. CASE deleted
      BY <3>1, <3>2 DEF ObjPromise!Next, ObjPromise!Damage
    <3>3. CASE ~deleted
      <4>1. PICK q \in Req, c \in Content :
                   q = oreq /\ c = ocontent
                   /\ ReadObj(q)' = c /\ \A r \in Req : r # q => ReadObj(r)' = ReadObj(r)
        BY <2>1, <2>7, <3>3, CommitOfUpdate, CommitOfNewPage
      <4>2. read2 = [read EXCEPT ![q] = c] /\ (~deleted)' = (~deleted)
        BY <3>1, <3>3, <4>1
      <4>3. PICK k : k = [req |-> q, page |-> c]
        OBVIOUS
      <4>4. k \in ObjInProgress /\ k.req = q /\ k.page = c
        BY <3>1, <4>1, <4>3
      <4>5. read' = [read EXCEPT ![k.req] = k.page]
        BY <2>3, <4>2, <4>4
      <4>. QED  BY <3>1, <3>3, <4>2, <4>4, <4>5 DEF ObjPromise!Next, ObjPromise!Effect
    <3>. QED  BY <3>2, <3>3
  <2>8. CASE \E r \in Req : DeleteObj(r)
    <3>1. deleted'
      BY <2>1, <2>8, DeleteObjStep
    <3>. QED  BY <3>1 DEF ObjPromise!Next, ObjPromise!Damage
  <2>9. ASSUME NEW r \in Req, NEW c \in Content, ObjWrite(r, c)
        PROVE  [ObjPromise!Next]_(ObjPromise!vars)
    <3>1. ObjInProgress = {} /\ ObjInProgress' = {[req |-> r, page |-> c]}
      BY <2>9 DEF ObjWrite, ObjInProgress
    <3>2. Kept
      BY <2>1, <2>9, ObjWriteStep DEF ObjWrite
    <3>. QED  BY <2>4, <3>1, <3>2
  <2>10. CASE NewBlock \/ (\E p \in PagePlace : NewPage(p))
    <3>1. ObjInProgress' = ObjInProgress
      BY <2>10 DEF NewBlock, NewPage, objCall, ObjInProgress
    <3>2. Kept
      BY <2>1, <2>10, NewBlockStep, NewPageStep DEF NewBlock, NewPage
    <3>. QED  BY <2>4, <3>1, <3>2
  <2>11. CASE SetRoot \/ SetOid \/ CountUp
    <3>1. ObjInProgress' = ObjInProgress
      BY <2>11 DEF SetRoot, SetOid, CountUp, objCall, ObjInProgress
    <3>2. Kept
      BY <2>1, <2>11, SetRootStep, SetOidStep, CountUpStep DEF SetRoot, SetOid, CountUp
    <3>. QED  BY <2>4, <3>1, <3>2
  <2>12. CASE Snapshot \/ UpdateBegins \/ UpdateEnds \/ ObjCrash
    <3>1. ObjInProgress' \in {ObjInProgress, {}}
      BY <2>12 DEF Snapshot, UpdateBegins, UpdateEnds, ObjCrash, objCall, ObjInProgress
    <3>2. Kept
      BY <2>1, <2>12, SnapshotStep, UpdateStep, ObjCrashStep
         DEF Snapshot, UpdateBegins, UpdateEnds, ObjCrash
    <3>. QED  BY <2>4, <3>1, <3>2
  <2>. QED  BY <2>1, <2>5, <2>6, <2>7, <2>8, <2>9, <2>10, <2>11, <2>12 DEF ObjNext
<1>. QED  BY <1>1, <1>2, ObjInvariant, PTL DEF ObjSpec, ObjIsPageStore, ObjPromise!Spec

-----------------------------------------------------------------------------
(* The caches without metadata of their own, and their mains.              *)

LEMMA CountsOfMain ==
    /\ WriteCount \in Nat /\ OverwriteCount \in Nat /\ 0 < OverwriteCount
    /\ OverwriteCount < WriteCount
    /\ \A r : r \in Req <=> r \in Nat /\ r < WriteCount
    /\ Ab \in Content /\ Cd \in Content /\ Ab # None /\ Cd # None /\ Ab # Torn /\ Cd # Torn /\ Ab # Cd
<1>1. WriteCount \in Nat
  BY LayoutAssumption DEF WriteCount
<1>2. \A r : r \in Req <=> r \in Nat /\ r < WriteCount
  <2>1. Req = 0 .. WriteCount - 1
    BY DEF Req, WriteCount
  <2>. QED  BY <1>1, <2>1
<1>. QED  BY <1>1, <1>2, DriverAssumption, LayoutAssumption

\* The loops of each main.
LEMMA LoopsOfMain ==
    ASSUME kind \in Kind
    PROVE  /\ Len(Loops) \in Nat /\ Base \in {0, 2} /\ Base + 4 <= Len(Loops)
           /\ Loops[Base + 1] = Loop("write", 0, WriteCount, Ab)
           /\ Loops[Base + 2] = Loop("write", 0, OverwriteCount, Cd)
           /\ Loops[Base + 3] = Loop("read", 0, OverwriteCount, Cd)
           /\ Loops[Base + 4] = Loop("read", OverwriteCount, WriteCount, Ab)
           /\ kind = "ssd" => /\ Len(Loops) = 6
                              /\ Loops[1] = Loop("read", 0, OverwriteCount, None)
                              /\ Loops[2] = Loop("read", OverwriteCount, WriteCount, None)
           /\ kind = "memkind" => /\ Len(Loops) = 7
                                  /\ Loops[5] = Loop("delete", 0, WriteCount, None)
                                  /\ Loops[6] = Loop("write", 0, WriteCount, None)
                                  /\ Loops[7] = Loop("write", 0, OverwriteCount, Cd)
           /\ kind \in {"pmemblk", "pmemkv"} => Len(Loops) = 4
<1>. DEFINE w1 == Loop("write", 0, WriteCount, Ab)
            w2 == Loop("write", 0, OverwriteCount, Cd)
            r1 == Loop("read", 0, OverwriteCount, Cd)
            r2 == Loop("read", OverwriteCount, WriteCount, Ab)
            s1 == Loop("read", 0, OverwriteCount, None)
            s2 == Loop("read", OverwriteCount, WriteCount, None)
            m1 == Loop("delete", 0, WriteCount, None)
            m2 == Loop("write", 0, WriteCount, None)
            m3 == Loop("write", 0, OverwriteCount, Cd)
<1>1. Common = <<w1, w2, r1, r2>>
  BY DEF Common
<1>2. /\ kind = "ssd" => Loops = <<s1, s2>> \o Common
      /\ kind = "memkind" => Loops = Common \o <<m1, m2, m3>>
      /\ kind \in {"pmemblk", "pmemkv"} => Loops = Common
  BY DEF Loops
<1>. HIDE DEF w1, w2, r1, r2, s1, s2, m1, m2, m3
<1>3. CASE kind = "ssd"
  <2>1. Loops = <<s1, s2, w1, w2, r1, r2>>
    BY <1>1, <1>2, <1>3
  <2>. QED  BY <1>3, <2>1 DEF Base, w1, w2, r1, r2, s1, s2
<1>4. CASE kind = "memkind"
  <2>1. Loops = <<w1, w2, r1, r2, m1, m2, m3>>
    BY <1>1, <1>2, <1>4
  <2>. QED  BY <1>4, <2>1 DEF Base, w1, w2, r1, r2, m1, m2, m3
<1>5. CASE kind \in {"pmemblk", "pmemkv"}
  <2>1. Loops = <<w1, w2, r1, r2>>
    BY <1>1, <1>2, <1>5
  <2>. QED  BY <1>5, <2>1 DEF Base, w1, w2, r1, r2
<1>. QED  BY <1>3, <1>4, <1>5 DEF Kind

LEMMA LoopFields ==
    \A op, x, y, c : /\ Loop(op, x, y, c).op = op /\ Loop(op, x, y, c).from = x
                     /\ Loop(op, x, y, c).to = y /\ Loop(op, x, y, c).with = c
BY DEF Loop

\* What follows for a loop by its number.
LEMMA LoopKnown ==
    ASSUME kind \in Kind, NEW p \in 1 .. Len(Loops)
    PROVE  /\ Loops[p].from \in Nat /\ Loops[p].to \in Nat
           /\ Loops[p].from < Loops[p].to /\ Loops[p].to <= WriteCount
           /\ Loops[p].with \in Content \cup {None}
           /\ Loops[p].op = "delete" => kind = "memkind"
           /\ Loops[p].op = "write" /\ kind # "memkind" => Loops[p].with \in {Ab, Cd}
           /\ Loops[p].op = "read" /\ Loops[p].with # None => p \in {Base + 3, Base + 4}
           /\ p \in {Base + 3, Base + 4} => Loops[p].op = "read"
<1>1. CASE kind = "ssd"
  <2>1. Len(Loops) = 6
    BY <1>1, LoopsOfMain
  <2>2. p \in {1, 2, 3, 4, 5, 6}
    BY <2>1
  <2>3. Base = 2
    BY <1>1 DEF Base
  <2>. QED  BY <1>1, <2>2, <2>3, LoopsOfMain, LoopFields, CountsOfMain
<1>2. CASE kind = "memkind"
  <2>1. Len(Loops) = 7
    BY <1>2, LoopsOfMain
  <2>2. p \in {1, 2, 3, 4, 5, 6, 7}
    BY <2>1
  <2>3. Base = 0
    BY <1>2 DEF Base
  <2>. QED  BY <1>2, <2>2, <2>3, LoopsOfMain, LoopFields, CountsOfMain
<1>3. CASE kind \in {"pmemblk", "pmemkv"}
  <2>1. Len(Loops) = 4
    BY <1>3, LoopsOfMain
  <2>2. p \in {1, 2, 3, 4}
    BY <2>1
  <2>3. Base = 0
    BY <1>3 DEF Base
  <2>. QED  BY <1>3, <2>2, <2>3, LoopsOfMain, LoopFields, CountsOfMain
<1>. QED  BY <1>1, <1>2, <1>3 DEF Kind

\* The next request of a loop, or the next loop.
LEMMA AdvanceKnown ==
    ASSUME DirectTypeOK, Advance, kind' = kind
    PROVE  /\ Loops' = Loops /\ Base' = Base /\ Now' = Loops[phase']
           /\ phase' \in 1 .. Len(Loops) /\ cpc' \in {"loop", "down"}
           /\ index' \in Nat /\ Loops[phase'].from <= index' /\ index' < Loops[phase'].to
           /\ page_content' \in PageValue
           /\ cpc' = "loop" =>
                \/ phase' = phase /\ index' = index + 1 /\ page_content' = page_content
                \/ /\ phase' = phase + 1 /\ index' = Loops[phase + 1].from /\ index + 1 = Now.to
                   /\ page_content' = Prepared(phase + 1, page_content)
<1>1. Loops' = Loops /\ Base' = Base
  BY DEF Loops, Base
<1>2. Now' = Loops[phase'] /\ Now = Loops[phase]
  BY <1>1 DEF Now
<1>3. /\ kind \in Kind /\ phase \in 1 .. Len(Loops) /\ index \in Nat /\ Now.from <= index /\ index < Now.to
      /\ page_content \in PageValue
  BY DEF DirectTypeOK
<1>4. Len(Loops) \in Nat
  BY <1>3, LoopsOfMain
<1>5. Now.to \in Nat
  BY <1>2, <1>3, LoopKnown
<1>6. CASE index + 1 < Now.to
  <2>1. index' = index + 1 /\ cpc' = "loop" /\ phase' = phase /\ page_content' = page_content
    BY <1>6 DEF Advance
  <2>. QED  BY <1>1, <1>2, <1>3, <1>4, <1>5, <1>6, <2>1, LoopKnown
<1>7. CASE ~(index + 1 < Now.to) /\ phase < Len(Loops)
  <2>1. /\ phase' = phase + 1 /\ index' = Loops[phase + 1].from /\ cpc' = "loop"
        /\ page_content' = Prepared(phase + 1, page_content)
    BY <1>7 DEF Advance
  <2>2. phase + 1 \in 1 .. Len(Loops)
    BY <1>3, <1>4, <1>7
  <2>3. index + 1 = Now.to
    BY <1>3, <1>5, <1>7
  <2>4. Prepared(phase + 1, page_content) \in PageValue
    BY <1>3, <2>2, LoopKnown DEF Prepared, PageValue
  <2>5. /\ Loops[phase + 1].from \in Nat /\ Loops[phase + 1].to \in Nat
        /\ Loops[phase + 1].from < Loops[phase + 1].to
    BY <1>3, <2>2, LoopKnown
  <2>. QED  BY <1>1, <1>2, <2>1, <2>2, <2>3, <2>4, <2>5
<1>8. CASE ~(index + 1 < Now.to) /\ ~(phase < Len(Loops))
  <2>1. cpc' = "down" /\ phase' = phase /\ index' = index /\ page_content' = page_content
    BY <1>8 DEF Advance, mainVars
  <2>. QED  BY <1>1, <1>2, <1>3, <2>1
<1>. QED  BY <1>6, <1>7, <1>8

LEMMA MainAdvance ==
    ASSUME DirectTypeOK, MainKnown, Advance, kind' = kind, cpc = "return" \/ Now.op # "write"
    PROVE  MainKnown'
<1>1. CASE cpc' = "down"
  BY <1>1 DEF MainKnown
<1>2. CASE cpc' = "loop"
  <2>1. Now' = Loops[phase'] /\ Now = Loops[phase] /\ phase' \in 1 .. Len(Loops)
    BY AdvanceKnown DEF Now
  <2>2. ASSUME Now'.op = "write", Now'.with # None
        PROVE  page_content' = Now'.with
    <3>1. CASE phase' = phase /\ page_content' = page_content
      BY <2>1, <2>2, <3>1 DEF MainKnown
    <3>2. CASE phase' = phase + 1 /\ page_content' = Prepared(phase + 1, page_content)
      <4>1. phase + 1 <= Len(Loops)
        <5>1. Len(Loops) \in Nat
          BY LoopsOfMain DEF DirectTypeOK
        <5>. QED  BY <2>1, <3>2, <5>1
      <4>. QED  BY <2>1, <2>2, <3>2, <4>1 DEF Prepared
    <3>. QED  BY <1>2, <3>1, <3>2, AdvanceKnown
  <2>. QED  BY <1>2, <2>2 DEF MainKnown
<1>. QED  BY <1>1, <1>2, AdvanceKnown

LEMMA PatternAdvance ==
    ASSUME DirectTypeOK, MainKnown, PatternKnown, Advance, kind' = kind, view' = view,
           cpc = "return" \/ cpc = "read"
    PROVE  PatternKnown'
<1>1. CASE cpc' = "down"
  BY <1>1 DEF PatternKnown
<1>2. CASE cpc' = "loop"
  <2>1. \A r, c : Holds(r, c)' <=> Holds(r, c)
    BY DEF Holds
  <2>2. /\ kind \in Kind /\ index \in Nat /\ phase \in 1 .. Len(Loops) /\ Now = Loops[phase]
        /\ Base' = Base /\ Base \in {0, 2} /\ Len(Loops) \in Nat
    BY AdvanceKnown, LoopsOfMain DEF DirectTypeOK, Now
  <2>3. phase \in Nat /\ Base \in Nat
    BY <2>2
  <2>4. /\ phase = Base + 1 => Now.op = "write" /\ Now.with = Ab /\ Now.to = WriteCount
        /\ phase = Base + 2 => Now.op = "write" /\ Now.with = Cd /\ Now.to = OverwriteCount
        /\ Loops[Base + 1].from = 0 /\ Loops[Base + 2].from = 0
    BY <2>2, LoopsOfMain, LoopFields
  <2>5. phase \in {Base + 1, Base + 2} => cpc = "return" /\ Holds(index, page_content)
    BY <2>4 DEF MainKnown, PatternKnown
  <2>6. page_content = IF phase = Base + 1 THEN Ab ELSE IF phase = Base + 2 THEN Cd ELSE page_content
    BY <2>3, <2>4, <2>5, CountsOfMain DEF MainKnown
  <2>7. phase = Base + 1 => \A r \in Req : r <= index => Holds(r, Ab)
    BY <2>2, <2>3, <2>5, <2>6, CountsOfMain DEF PatternKnown
  <2>8. phase = Base + 2 => \A r \in Req : (r <= index => Holds(r, Cd)) /\ (r > index => Holds(r, Ab))
    BY <2>2, <2>3, <2>5, <2>6, CountsOfMain DEF PatternKnown
  <2>9. phase \in {Base + 3, Base + 4} =>
           \A r \in Req : Holds(r, IF r < OverwriteCount THEN Cd ELSE Ab)
    BY DEF PatternKnown
  <2>10. CASE phase' = phase /\ index' = index + 1
    <3>1. \A r \in Req : /\ r < index + 1 <=> r <= index
                         /\ r > index + 1 => r > index
                         /\ r = index + 1 => r > index
      BY <2>2, CountsOfMain
    <3>2. phase' = Base + 1 => \A r \in Req : r < index' => Holds(r, Ab)
      BY <2>7, <2>10, <3>1
    <3>3. phase' = Base + 2 => \A r \in Req : /\ r < index' => Holds(r, Cd)
                                              /\ r > index' \/ r = index' => Holds(r, Ab)
      BY <2>8, <2>10, <3>1
    <3>. QED  BY <1>2, <2>1, <2>2, <2>9, <2>10, <3>2, <3>3 DEF PatternKnown
  <2>11. CASE phase' = phase + 1 /\ index' = Loops[phase + 1].from /\ index + 1 = Now.to
    <3>1. phase' = Base + 1 => index' = 0
      BY <2>2, <2>3, <2>4, <2>11
    <3>2. phase' = Base + 2 => index' = 0 /\ \A r \in Req : Holds(r, Ab)
      <4>1. phase' = Base + 2 => phase = Base + 1
        BY <2>3, <2>11
      <4>2. phase' = Base + 2 => index' = 0 /\ index + 1 = WriteCount
        BY <2>3, <2>4, <2>11, <4>1
      <4>. QED  BY <2>2, <2>7, <4>1, <4>2, CountsOfMain
    <3>3. phase' = Base + 3 => \A r \in Req : Holds(r, IF r < OverwriteCount THEN Cd ELSE Ab)
      <4>1. phase' = Base + 3 => phase = Base + 2
        BY <2>3, <2>11
      <4>2. phase' = Base + 3 => index + 1 = OverwriteCount
        BY <2>4, <2>11, <4>1
      <4>. QED  BY <2>2, <2>8, <4>1, <4>2, CountsOfMain
    <3>4. phase' = Base + 4 => phase = Base + 3
      BY <2>3, <2>11
    <3>5. \A r \in Req : ~(r < 0)
      BY CountsOfMain
    <3>. QED  BY <1>2, <2>1, <2>2, <2>9, <3>1, <3>2, <3>3, <3>4, <3>5 DEF PatternKnown
  <2>. QED  BY <1>2, <2>10, <2>11, AdvanceKnown
<1>. QED  BY <1>1, <1>2, AdvanceKnown

LEMMA WhereMainIs ==
    ASSUME DirectTypeOK
    PROVE  /\ index \in Req /\ phase \in 1 .. Len(Loops) /\ kind \in Kind /\ Now = Loops[phase]
           /\ Now.op = "delete" => kind = "memkind"
           /\ Now.op = "write" /\ kind # "memkind" => Now.with \in {Ab, Cd}
<1>1. /\ kind \in Kind /\ phase \in 1 .. Len(Loops) /\ Now = Loops[phase]
      /\ index \in Nat /\ index < Now.to
  BY DEF DirectTypeOK, Now
<1>2. Now.to \in Nat /\ Now.to <= WriteCount
  BY <1>1, LoopKnown
<1>3. index \in Req
  BY <1>1, <1>2, CountsOfMain
<1>. QED  BY <1>1, <1>3, LoopKnown

\* Steps inside a call, which leave the loop where it is.
LEMMA InCall ==
    ASSUME DirectTypeOK, UNCHANGED <<kind, phase, index>>
    PROVE  Loops' = Loops /\ Now' = Now /\ Base' = Base
BY DEF Loops, Now, Base

LEMMA SsdCopyBeginsStep ==
    ASSUME DirectInv, SsdCopyBegins
    PROVE  DirectInv'
<1>0. PICK i : i = index
  OBVIOUS
<1>1. /\ cpc = "loop" /\ Now.op = "write" /\ kind = "ssd" /\ view' = [view EXCEPT ![i] = Torn]
      /\ cpc' = "copy" /\ broken' = broken \cup {i}
      /\ UNCHANGED <<kind, disk, phase, index, page_content, acked>>
  BY <1>0 DEF SsdCopyBegins, Doing, Slot, mainVars
<1>2. DirectTypeOK /\ MainKnown /\ PatternKnown /\ DurableKnown /\ OthersUndamaged /\ i \in Req
  BY <1>0, WhereMainIs DEF DirectInv
<1>3. Loops' = Loops /\ Now' = Now /\ Base' = Base
  BY <1>1, <1>2, InCall
<1>4. view' \in [Req -> PageValue] /\ \A r \in Req : r # i => view'[r] = view[r]
  BY <1>1, <1>2 DEF DirectTypeOK, PageValue
<1>5. DirectTypeOK'
  BY <1>0, <1>1, <1>2, <1>3, <1>4 DEF DirectTypeOK
<1>6. MainKnown' /\ PatternsRead'
  BY <1>1, <1>2, <1>3 DEF MainKnown, PatternsRead
<1>7. PatternKnown'
  <2>1. \A r \in Req : \A c : r # i => (Holds(r, c)' <=> Holds(r, c))
    BY <1>1, <1>4 DEF Holds
  <2>2. phase \notin {Base + 3, Base + 4}
    BY <1>1, <1>2, WhereMainIs, LoopKnown
  <2>3. \A r \in Req : (r < index => r # i) /\ (r > index => r # i)
    BY <1>0, <1>2, CountsOfMain
  <2>. QED  BY <1>0, <1>1, <1>2, <1>3, <2>1, <2>2, <2>3 DEF PatternKnown
<1>8. DurableKnown' /\ OthersUndamaged'
  BY <1>0, <1>1, <1>2, <1>4 DEF DurableKnown, OthersUndamaged
<1>. QED  BY <1>5, <1>6, <1>7, <1>8 DEF DirectInv

LEMMA SsdCopyEndsStep ==
    ASSUME DirectInv, SsdCopyEnds
    PROVE  DirectInv'
<1>0. PICK i : i = index
  OBVIOUS
<1>1. /\ cpc = "copy" /\ view' = [view EXCEPT ![i] = page_content] /\ cpc' = "msync"
      /\ UNCHANGED <<kind, disk, phase, index, page_content, acked, broken>>
  BY <1>0 DEF SsdCopyEnds, Slot, mainVars, cacheHist
<1>2. DirectTypeOK /\ MainKnown /\ PatternKnown /\ DurableKnown /\ OthersUndamaged /\ i \in Req
  BY <1>0, WhereMainIs DEF DirectInv
<1>3. Loops' = Loops /\ Now' = Now /\ Base' = Base
  BY <1>1, <1>2, InCall
<1>4. /\ view' \in [Req -> PageValue] /\ view'[i] = page_content
      /\ \A r \in Req : r # i => view'[r] = view[r]
  BY <1>1, <1>2 DEF DirectTypeOK
<1>5. DirectTypeOK'
  BY <1>0, <1>1, <1>2, <1>3, <1>4 DEF DirectTypeOK
<1>6. MainKnown' /\ PatternsRead'
  BY <1>1, <1>2, <1>3 DEF MainKnown, PatternsRead
<1>7. PatternKnown'
  <2>1. \A r \in Req : \A c : r # i => (Holds(r, c)' <=> Holds(r, c))
    BY <1>1, <1>4 DEF Holds
  <2>2. phase \notin {Base + 3, Base + 4}
    BY <1>1, <1>2, WhereMainIs, LoopKnown DEF MainKnown
  <2>3. \A r \in Req : (r < index => r # i) /\ (r > index => r # i)
    BY <1>0, <1>2, CountsOfMain
  <2>4. Holds(index, page_content)'
    BY <1>0, <1>1, <1>4 DEF Holds
  <2>. QED  BY <1>0, <1>1, <1>2, <1>3, <2>1, <2>2, <2>3, <2>4 DEF PatternKnown
<1>8. DurableKnown' /\ OthersUndamaged'
  BY <1>0, <1>1, <1>2, <1>4 DEF DurableKnown, OthersUndamaged, MainKnown
<1>. QED  BY <1>5, <1>6, <1>7, <1>8 DEF DirectInv

\* Steps that make pages durable without touching what main sees.
LEMMA OnlyDisk ==
    ASSUME DirectInv, UNCHANGED <<kind, view, phase, index, page_content, acked, broken>>,
           disk' \in [Req -> PageValue], cpc' \in {"down", cpc} \/ (cpc = "msync" /\ cpc' = "return")
    PROVE  DirectTypeOK' /\ MainKnown' /\ PatternKnown' /\ PatternsRead'
<1>1. DirectTypeOK /\ MainKnown /\ PatternKnown /\ PatternsRead
  BY DEF DirectInv
<1>2. Loops' = Loops /\ Now' = Now /\ Base' = Base
  BY <1>1, InCall
<1>3. \A r, c : Holds(r, c)' <=> Holds(r, c)
  BY DEF Holds
<1>4. Holds(index, page_content)' <=> Holds(index, page_content)
  BY <1>3
<1>. QED  BY <1>1, <1>2, <1>3, <1>4 DEF DirectTypeOK, MainKnown, PatternKnown, PatternsRead

LEMMA SsdMsyncStep ==
    ASSUME DirectInv, SsdMsync
    PROVE  DirectInv'
<1>0. PICK i : i = index
  OBVIOUS
<1>1. /\ cpc = "msync" /\ disk' = [disk EXCEPT ![i] = view[i]] /\ cpc' = "return"
      /\ UNCHANGED <<kind, view, phase, index, page_content, acked, broken>>
  BY <1>0 DEF SsdMsync, Slot, mainVars, cacheHist
<1>2. DirectTypeOK /\ MainKnown /\ PatternKnown /\ DurableKnown /\ OthersUndamaged /\ i \in Req
  BY <1>0, WhereMainIs DEF DirectInv
<1>3. /\ disk' \in [Req -> PageValue] /\ disk'[i] = view[i]
      /\ \A r \in Req : r # i => disk'[r] = disk[r]
  BY <1>1, <1>2 DEF DirectTypeOK
<1>4. view[i] = page_content /\ kind = "ssd" /\ i \in broken
  BY <1>0, <1>1, <1>2 DEF PatternKnown, MainKnown, Holds, DurableKnown
<1>5. DurableKnown' /\ OthersUndamaged'
  BY <1>0, <1>1, <1>2, <1>3, <1>4 DEF DurableKnown, OthersUndamaged
<1>. QED  BY <1>1, <1>3, <1>5, OnlyDisk DEF DirectInv

LEMMA WriteBackStep ==
    ASSUME DirectInv, NEW r \in Req, WriteBack(r)
    PROVE  DirectInv'
<1>1. /\ kind = "ssd" /\ disk[r] # view[r] /\ disk' = [disk EXCEPT ![r] = view[r]]
      /\ UNCHANGED <<kind, view, cpc, phase, index, page_content, acked, broken>>
  BY DEF WriteBack, mainVars, cacheHist
<1>2. DirectTypeOK /\ PatternKnown /\ DurableKnown /\ OthersUndamaged
  BY DEF DirectInv
<1>3. /\ disk' \in [Req -> PageValue] /\ disk'[r] = view[r]
      /\ \A q \in Req : q # r => disk'[q] = disk[q]
  BY <1>1, <1>2 DEF DirectTypeOK
<1>4. r \in broken
  BY <1>1, <1>2 DEF OthersUndamaged
<1>5. cpc = "return" => view[index] = page_content /\ index \in Req
  BY <1>1, <1>2, WhereMainIs DEF PatternKnown, Holds
<1>6. DurableKnown'
  BY <1>1, <1>2, <1>3, <1>5 DEF DurableKnown
<1>7. OthersUndamaged'
  BY <1>1, <1>2, <1>3, <1>4 DEF OthersUndamaged
<1>. QED  BY <1>1, <1>3, <1>6, <1>7, OnlyDisk DEF DirectInv

LEMMA StopStep ==
    ASSUME DirectInv, ReadDies \/ Killed
    PROVE  DirectInv'
<1>1. cpc' = "down" /\ UNCHANGED <<kind, view, disk, phase, index, page_content, acked, broken>>
  BY DEF ReadDies, Killed, dataVars, mainVars, cacheHist
<1>2. DirectTypeOK /\ DurableKnown /\ OthersUndamaged
  BY DEF DirectInv
<1>3. disk' \in [Req -> PageValue]
  BY <1>1, <1>2 DEF DirectTypeOK
<1>4. DurableKnown' /\ OthersUndamaged'
  BY <1>1, <1>2 DEF DurableKnown, OthersUndamaged
<1>. QED  BY <1>1, <1>3, <1>4, OnlyDisk DEF DirectInv

LEMMA PowerFailsStep ==
    ASSUME DirectInv, PowerFails
    PROVE  DirectInv'
<1>1. /\ cpc' = "down" /\ view' = disk' /\ disk' \in [Req -> PageValue]
      /\ \A r \in Req : disk'[r] \in IF view[r] = disk[r] \/ kind = "memkind"
                                     THEN {disk[r]} ELSE {disk[r], view[r], Torn}
      /\ UNCHANGED <<kind, phase, index, page_content, acked, broken>>
  BY DEF PowerFails, mainVars, cacheHist, PageValue
<1>2. DirectTypeOK /\ DurableKnown /\ OthersUndamaged
  BY DEF DirectInv
<1>3. Loops' = Loops /\ Now' = Now
  BY <1>1, <1>2, InCall
<1>4. DirectTypeOK'
  BY <1>1, <1>2, <1>3 DEF DirectTypeOK
<1>5. MainKnown' /\ PatternKnown' /\ PatternsRead'
  BY <1>1 DEF MainKnown, PatternKnown, PatternsRead
<1>6. DurableKnown'
  BY <1>1 DEF DurableKnown
<1>7. OthersUndamaged'
  <2>1. \A r \in Req : view[r] = disk[r] => disk'[r] = disk[r]
    BY <1>1
  <2>2. kind \in {"pmemblk", "pmemkv"} => \A r \in Req : disk'[r] = view[r]
    BY <1>2, <2>1 DEF DurableKnown
  <2>3. kind # "memkind" /\ kind # "ssd" => kind \in {"pmemblk", "pmemkv"}
    BY <1>2 DEF DirectTypeOK, Kind
  <2>. QED  BY <1>1, <1>2, <2>1, <2>2, <2>3 DEF OthersUndamaged
<1>. QED  BY <1>4, <1>5, <1>6, <1>7 DEF DirectInv

\* The writes of one step: pmemblk and pmemkv write, memkind may skip it.
LEMMA OneStepWrite ==
    ASSUME DirectInv, cpc = "loop", Now.op = "write", cpc' = "return",
           view' = [view EXCEPT ![index] = page_content] \/ (kind = "memkind" /\ view[index] = None /\ view' = view),
           disk' \in [Req -> PageValue], broken' = broken \cup {index},
           UNCHANGED <<kind, phase, index, page_content, acked>>
    PROVE  DirectTypeOK' /\ MainKnown' /\ PatternKnown' /\ PatternsRead'
<1>0. PICK i : i = index
  OBVIOUS
<1>1. DirectTypeOK /\ MainKnown /\ PatternKnown /\ i \in Req
  BY <1>0, WhereMainIs DEF DirectInv
<1>2. Loops' = Loops /\ Now' = Now /\ Base' = Base
  BY <1>1, InCall
<1>3. /\ view' \in [Req -> PageValue] /\ \A r \in Req : r # i => view'[r] = view[r]
      /\ view'[i] = page_content \/ (kind = "memkind" /\ view'[i] = None)
  <2>1. CASE view' = [view EXCEPT ![index] = page_content]
    BY <1>0, <1>1, <2>1 DEF DirectTypeOK
  <2>2. CASE kind = "memkind" /\ view[index] = None /\ view' = view
    BY <1>0, <1>1, <2>2 DEF DirectTypeOK
  <2>. QED  BY <2>1, <2>2
<1>4. DirectTypeOK'
  BY <1>0, <1>1, <1>2, <1>3 DEF DirectTypeOK
<1>5. MainKnown' /\ PatternsRead'
  BY <1>1, <1>2 DEF MainKnown, PatternsRead
<1>6. PatternKnown'
  <2>1. \A r \in Req : \A c : r # i => (Holds(r, c)' <=> Holds(r, c))
    BY <1>3 DEF Holds
  <2>2. phase \notin {Base + 3, Base + 4}
    BY <1>1, WhereMainIs, LoopKnown
  <2>3. \A r \in Req : (r < index => r # i) /\ (r > index => r # i)
    BY <1>0, <1>1, CountsOfMain
  <2>4. Holds(index, page_content)'
    BY <1>0, <1>3 DEF Holds
  <2>. QED  BY <1>0, <1>1, <1>2, <2>1, <2>2, <2>3, <2>4 DEF PatternKnown
<1>. QED  BY <1>4, <1>5, <1>6

LEMMA PutPageStep ==
    ASSUME DirectInv, PutPage
    PROVE  DirectInv'
<1>1. /\ cpc = "loop" /\ Now.op = "write" /\ kind \in {"pmemblk", "pmemkv"} /\ cpc' = "return"
      /\ view' = [view EXCEPT ![index] = page_content] /\ disk' = [disk EXCEPT ![index] = page_content]
      /\ broken' = broken \cup {index} /\ UNCHANGED <<kind, phase, index, page_content, acked>>
  BY DEF PutPage, Doing, Slot, mainVars
<1>2. DirectTypeOK /\ MainKnown /\ DurableKnown /\ OthersUndamaged /\ index \in Req
  BY WhereMainIs DEF DirectInv
<1>3. /\ disk' \in [Req -> PageValue] /\ view' = disk' /\ view'[index] = page_content
      /\ \A r \in Req : r # index => view'[r] = view[r] /\ disk'[r] = disk[r]
  BY <1>1, <1>2 DEF DirectTypeOK, DurableKnown
<1>4. page_content # Torn
  <2>1. Now.with \in {Ab, Cd}
    BY <1>1, <1>2, WhereMainIs
  <2>2. page_content = Now.with
    BY <1>1, <1>2, <2>1, CountsOfMain DEF MainKnown
  <2>. QED  BY <2>1, <2>2, CountsOfMain
<1>5. DurableKnown'
  BY <1>1, <1>2, <1>3 DEF DurableKnown
<1>6. OthersUndamaged'
  BY <1>1, <1>2, <1>3, <1>4 DEF OthersUndamaged
<1>. QED  BY <1>1, <1>3, <1>5, <1>6, OneStepWrite DEF DirectInv

LEMMA MemkindWriteStep ==
    ASSUME DirectInv, MemkindWrite
    PROVE  DirectInv'
<1>1. /\ cpc = "loop" /\ Now.op = "write" /\ kind = "memkind" /\ cpc' = "return"
      /\ \/ view' = [view EXCEPT ![index] = page_content]
         \/ kind = "memkind" /\ view[index] = None /\ view' = view
      /\ broken' = broken \cup {index} /\ UNCHANGED <<kind, disk, phase, index, page_content, acked>>
  BY DEF MemkindWrite, Doing, Slot, mainVars
<1>2. DirectTypeOK
  BY DEF DirectInv
<1>3. disk' \in [Req -> PageValue]
  BY <1>1, <1>2 DEF DirectTypeOK
<1>4. DurableKnown' /\ OthersUndamaged'
  BY <1>1, <1>2 DEF DurableKnown, OthersUndamaged
<1>. QED  BY <1>1, <1>3, <1>4, OneStepWrite DEF DirectInv

LEMMA WriteReturnsStep ==
    ASSUME DirectInv, WriteReturns
    PROVE  DirectInv'
<1>0. PICK i : i = index
  OBVIOUS
<1>1. /\ cpc = "return" /\ acked' = [acked EXCEPT ![i] = page_content]
      /\ broken' = broken \ {i} /\ Advance /\ UNCHANGED <<kind, view, disk>>
  BY <1>0 DEF WriteReturns, dataVars
<1>2. DirectTypeOK /\ MainKnown /\ PatternKnown /\ DurableKnown /\ OthersUndamaged /\ i \in Req
  BY <1>0, WhereMainIs DEF DirectInv
<1>3. DirectTypeOK'
  <2>1. acked' \in [Req -> PageValue] /\ broken' \subseteq Req
    BY <1>1, <1>2 DEF DirectTypeOK
  <2>. QED  BY <1>1, <1>2, <2>1, AdvanceKnown DEF DirectTypeOK
<1>4. MainKnown' /\ PatternKnown'
  BY <1>1, <1>2, MainAdvance, PatternAdvance
<1>5. cpc' \in {"loop", "down"}
  BY <1>1, <1>2, AdvanceKnown
<1>6. PatternsRead'
  BY <1>5 DEF PatternsRead
<1>7. DurableKnown'
  BY <1>1, <1>2, <1>5 DEF DurableKnown
<1>8. kind # "memkind" => view[i] = page_content /\ disk[i] = page_content
  BY <1>0, <1>1, <1>2 DEF PatternKnown, DurableKnown, Holds
<1>9. OthersUndamaged'
  BY <1>1, <1>2, <1>8 DEF OthersUndamaged, DirectTypeOK
<1>. QED  BY <1>3, <1>4, <1>6, <1>7, <1>9 DEF DirectInv

LEMMA ReadPageStep ==
    ASSUME DirectInv, ReadPage
    PROVE  DirectInv'
<1>1. /\ cpc = "loop" /\ Now.op = "read" /\ page_content' = view[index] /\ cpc' = "read"
      /\ ~(view[index] = None /\ kind \in {"pmemkv", "memkind"})
      /\ UNCHANGED <<kind, view, disk, phase, index, acked, broken>>
  BY DEF ReadPage, Doing, Missing, Slot, dataVars, cacheHist
<1>2. DirectTypeOK /\ MainKnown /\ PatternKnown /\ DurableKnown /\ OthersUndamaged /\ index \in Req
  BY WhereMainIs DEF DirectInv
<1>3. Loops' = Loops /\ Now' = Now /\ Base' = Base
  BY <1>1, <1>2, InCall
<1>4. DirectTypeOK'
  BY <1>1, <1>2, <1>3 DEF DirectTypeOK
<1>5. MainKnown' /\ DurableKnown' /\ OthersUndamaged'
  BY <1>1, <1>2, <1>3 DEF MainKnown, DurableKnown, OthersUndamaged
<1>6. PatternKnown'
  <2>1. \A r, c : Holds(r, c)' <=> Holds(r, c)
    BY <1>1 DEF Holds
  <2>2. phase \notin {Base + 1, Base + 2}
    <3>1. Loops[Base + 1].op = "write" /\ Loops[Base + 2].op = "write"
      BY <1>2, WhereMainIs, LoopsOfMain, LoopFields
    <3>. QED  BY <1>1, <1>2, <3>1, WhereMainIs
  <2>. QED  BY <1>1, <1>2, <1>3, <2>1, <2>2 DEF PatternKnown
<1>7. PatternsRead'
  <2>0. kind # "memkind" /\ index \notin broken => view[index] = acked[index]
    BY <1>2 DEF OthersUndamaged
  <2>1. SUFFICES ASSUME Now.with # None
                 PROVE  view[index] = Now.with
    BY <1>1, <1>3, <2>0 DEF PatternsRead
  <2>2. phase \in {Base + 3, Base + 4}
    BY <1>1, <1>2, <2>1, WhereMainIs, LoopKnown
  <2>3. Now.with = IF index < OverwriteCount THEN Cd ELSE Ab
    <3>1. /\ phase = Base + 3 => Now.with = Cd /\ Now.to = OverwriteCount
          /\ phase = Base + 4 => Now.with = Ab /\ Now.from = OverwriteCount
      BY <1>2, WhereMainIs, LoopsOfMain, LoopFields
    <3>2. index \in Nat /\ Now.from <= index /\ index < Now.to
      BY <1>2 DEF DirectTypeOK
    <3>. QED  BY <2>2, <3>1, <3>2, CountsOfMain
  <2>4. Holds(index, Now.with)
    BY <1>1, <1>2, <2>2, <2>3 DEF PatternKnown
  <2>. QED  BY <1>1, <2>4 DEF Holds
<1>. QED  BY <1>4, <1>5, <1>6, <1>7 DEF DirectInv

LEMMA ReadReturnsStep ==
    ASSUME DirectInv, ReadReturns
    PROVE  DirectInv'
<1>1. cpc = "read" /\ Advance /\ UNCHANGED <<kind, view, disk, acked, broken>>
  BY DEF ReadReturns, dataVars, cacheHist
<1>2. /\ DirectTypeOK /\ MainKnown /\ PatternKnown /\ DurableKnown /\ OthersUndamaged
      /\ Now.op = "read"
  BY <1>1 DEF DirectInv, MainKnown
<1>3. DirectTypeOK'
  BY <1>1, <1>2, AdvanceKnown DEF DirectTypeOK
<1>4. MainKnown' /\ PatternKnown'
  BY <1>1, <1>2, MainAdvance, PatternAdvance
<1>5. cpc' \in {"loop", "down"}
  BY <1>1, <1>2, AdvanceKnown
<1>6. PatternsRead' /\ DurableKnown' /\ OthersUndamaged'
  BY <1>1, <1>2, <1>5 DEF PatternsRead, DurableKnown, OthersUndamaged
<1>. QED  BY <1>3, <1>4, <1>6 DEF DirectInv

LEMMA MemkindDeleteStep ==
    ASSUME DirectInv, MemkindDelete
    PROVE  DirectInv'
<1>1. /\ cpc = "loop" /\ Now.op = "delete" /\ view' = [view EXCEPT ![index] = None]
      /\ acked' = [acked EXCEPT ![index] = None] /\ Advance /\ UNCHANGED <<kind, disk, broken>>
  BY DEF MemkindDelete, Doing, Slot
<1>2. DirectTypeOK /\ MainKnown /\ kind = "memkind" /\ index \in Req /\ phase \in 1 .. Len(Loops)
  BY <1>1, WhereMainIs DEF DirectInv
<1>3. DirectTypeOK'
  <2>1. view' \in [Req -> PageValue] /\ acked' \in [Req -> PageValue]
    BY <1>1, <1>2 DEF DirectTypeOK, PageValue
  <2>. QED  BY <1>1, <1>2, <2>1, AdvanceKnown DEF DirectTypeOK
<1>4. MainKnown'
  BY <1>1, <1>2, MainAdvance
<1>5. cpc' \in {"loop", "down"} /\ Base' = Base
  BY <1>1, <1>2, AdvanceKnown
<1>6. phase \notin {Base + 1, Base + 2, Base + 3, Base + 4} /\ Base = 0
  <2>1. Base = 0
    BY <1>2 DEF Base
  <2>2. Loops[phase].op = "delete"
    BY <1>1 DEF Now
  <2>3. \A p \in {Base + 1, Base + 2, Base + 3, Base + 4} : Loops[p].op \in {"write", "read"}
    BY <1>2, WhereMainIs, LoopsOfMain, LoopFields
  <2>. QED  BY <2>1, <2>2, <2>3
<1>7. phase' \notin {Base + 1, Base + 2, Base + 3, Base + 4} \/ cpc' = "down"
  <2>1. Len(Loops) = 7
    BY <1>2, WhereMainIs, LoopsOfMain
  <2>2. phase \in 1 .. 7 /\ phase \notin {1, 2, 3, 4}
    BY <1>2, <1>6, <2>1
  <2>3. cpc' = "loop" => phase' = phase \/ phase' = phase + 1
    BY <1>1, <1>2, AdvanceKnown
  <2>. QED  BY <1>5, <1>6, <2>2, <2>3
<1>8. PatternKnown'
  BY <1>5, <1>7 DEF PatternKnown
<1>9. PatternsRead' /\ DurableKnown' /\ OthersUndamaged'
  BY <1>1, <1>2, <1>5 DEF PatternsRead, DurableKnown, OthersUndamaged
<1>. QED  BY <1>3, <1>4, <1>8, <1>9 DEF DirectInv

LEMMA FirstLoop ==
    ASSUME kind \in Kind
    PROVE  /\ 1 \in 1 .. Len(Loops) /\ Loops[1].from = 0 /\ Loops[1].to \in Nat /\ 0 < Loops[1].to
           /\ Prepared(1, None) \in PageValue
           /\ Loops[1].op = "write" /\ Loops[1].with # None => Prepared(1, None) = Loops[1].with
           /\ 1 \notin {Base + 2, Base + 3, Base + 4}
<1>1. 1 \in 1 .. Len(Loops)
  BY LoopsOfMain
<1>2. Loops[1].from = 0
  <2>1. CASE kind = "ssd"
    BY <2>1, LoopsOfMain, LoopFields
  <2>2. CASE kind # "ssd"
    <3>1. Base + 1 = 1
      BY <2>2 DEF Base
    <3>2. Loops[Base + 1].from = 0
      BY LoopsOfMain, LoopFields
    <3>. QED  BY <3>1, <3>2
  <2>. QED  BY <2>1, <2>2
<1>3. Loops[1].to \in Nat /\ 0 < Loops[1].to /\ Loops[1].with \in Content \cup {None}
  BY <1>1, <1>2, LoopKnown
<1>4. 1 <= Len(Loops)
  BY LoopsOfMain
<1>5. /\ Prepared(1, None) \in PageValue
      /\ Loops[1].op = "write" /\ Loops[1].with # None => Prepared(1, None) = Loops[1].with
  BY <1>3, <1>4 DEF Prepared, PageValue
<1>6. 1 \notin {Base + 2, Base + 3, Base + 4}
  BY DEF Base
<1>. QED  BY <1>1, <1>2, <1>3, <1>5, <1>6

LEMMA DirectStartStep ==
    ASSUME DirectInv, DirectStart
    PROVE  DirectInv'
<1>1. /\ cpc = "down" /\ cpc' = "loop" /\ phase' = 1 /\ index' = 0 /\ page_content' = Prepared(1, None)
      /\ kind = "memkind" => view' = [r \in Req |-> None] /\ acked' = view' /\ broken' = {}
      /\ kind # "memkind" => UNCHANGED <<view, acked, broken>>
      /\ UNCHANGED <<kind, disk>>
  BY DEF DirectStart, cacheHist
<1>2. DirectTypeOK /\ DurableKnown /\ OthersUndamaged /\ kind \in Kind
  BY DEF DirectInv, DirectTypeOK
<1>3. Loops' = Loops /\ Base' = Base
  BY <1>1 DEF Loops, Base
<1>4. Now' = Loops[1]
  BY <1>1, <1>3 DEF Now
<1>5. DirectTypeOK'
  <2>1. view' \in [Req -> PageValue] /\ acked' \in [Req -> PageValue] /\ broken' \subseteq Req
    BY <1>1, <1>2 DEF DirectTypeOK, PageValue
  <2>. QED  BY <1>1, <1>2, <1>3, <1>4, <2>1, FirstLoop DEF DirectTypeOK
<1>6. MainKnown' /\ PatternsRead'
  BY <1>1, <1>2, <1>4, FirstLoop DEF MainKnown, PatternsRead
<1>7. PatternKnown'
  <2>1. \A r \in Req : ~(r < 0)
    BY CountsOfMain
  <2>. QED  BY <1>1, <1>2, <1>3, <2>1, FirstLoop DEF PatternKnown
<1>8. DurableKnown' /\ OthersUndamaged'
  BY <1>1, <1>2 DEF DurableKnown, OthersUndamaged
<1>. QED  BY <1>5, <1>6, <1>7, <1>8 DEF DirectInv

\* DirectInv is an inductive invariant of the mains over all four caches.
THEOREM DirectInvariant == DirectSpec => []DirectInv
<1>1. DirectInit => DirectInv
  <2>1. SUFFICES ASSUME DirectInit
                 PROVE  DirectInv
    OBVIOUS
  <2>2. /\ kind \in Kind /\ view = [r \in Req |-> None] /\ disk = view /\ acked = view /\ broken = {}
        /\ cpc = "down" /\ phase = 1 /\ index = 0 /\ page_content = None
    BY <2>1 DEF DirectInit
  <2>3. DirectTypeOK
    BY <2>2, FirstLoop DEF DirectTypeOK, Now, PageValue
  <2>4. MainKnown /\ PatternKnown /\ DurableKnown /\ PatternsRead
    BY <2>2 DEF MainKnown, PatternKnown, DurableKnown, PatternsRead
  <2>5. OthersUndamaged
    BY <2>2, LayoutAssumption DEF OthersUndamaged
  <2>. QED  BY <2>3, <2>4, <2>5 DEF DirectInv
<1>2. DirectInv /\ [DirectNext]_directVars => DirectInv'
  <2>1. SUFFICES ASSUME DirectInv, [DirectNext]_directVars
                 PROVE  DirectInv'
    OBVIOUS
  <2>2. CASE UNCHANGED directVars
    <3>1. UNCHANGED <<kind, view, disk, cpc, phase, index, page_content, acked, broken>>
      BY <2>2 DEF directVars, dataVars, mainVars, cacheHist
    <3>2. disk' \in [Req -> PageValue]
      BY <2>1, <3>1 DEF DirectInv, DirectTypeOK
    <3>3. DurableKnown' /\ OthersUndamaged'
      BY <2>1, <3>1 DEF DirectInv, DurableKnown, OthersUndamaged
    <3>. QED  BY <2>1, <3>1, <3>2, <3>3, OnlyDisk DEF DirectInv
  <2>. QED
    BY <2>1, <2>2, DirectStartStep, SsdCopyBeginsStep, SsdCopyEndsStep, SsdMsyncStep, WriteBackStep,
       PutPageStep, MemkindWriteStep, WriteReturnsStep, ReadPageStep, ReadReturnsStep,
       MemkindDeleteStep, StopStep, PowerFailsStep DEF DirectNext
<1>. QED  BY <1>1, <1>2, PTL DEF DirectSpec

\* The mains of cbs_req_ssd, _pmemblk, _pmemkv and _memkind read back the
\* pattern they say they read, whatever an earlier run had left; what was not
\* written in this run is what the last write of an earlier one left.
THEOREM MainsReadPatterns == DirectSpec => []PatternsRead
<1>1. DirectInv => PatternsRead
  BY DEF DirectInv
<1>. QED  BY <1>1, DirectInvariant, PTL

\* A crash damages only the page that was being written, and pmemblk and
\* pmemkv never show a page that is half written.
THEOREM CrashDamagesOnePage == DirectSpec => []OthersUndamaged
<1>1. DirectInv => OthersUndamaged
  BY DEF DirectInv
<1>. QED  BY <1>1, DirectInvariant, PTL
=============================================================================
