------------------------------ MODULE CbsPmem -------------------------------
(***************************************************************************)
(* The page cache of cbs_req/cbs_req_pmem.cpp: a disk of DISK_BLOCK_NUM    *)
(* blocks of BLOCK_PAGE_NUM pages, of which the pages in use are cached in *)
(* persistent memory.                                                      *)
(*                                                                         *)
(* Persistent: the magic number, page_offset, one 8-byte page_meta and one *)
(* 4K page per page id.  An 8-byte store is atomic; a 4K copy may be torn. *)
(* Volatile: the table disk (page_id1 and page_id2 of each request, 0 for  *)
(* none), the counts of cached pages and the stack of free pages.          *)
(* store and orphaned are history variables: the pages of the last writes  *)
(* that returned, and whether a crash ever hit the window in which two     *)
(* valid pages belong to one request.                                      *)
(***************************************************************************)
EXTENDS CbsPages, Sequences, FiniteSets

CONSTANTS
    PageNum,        \* PMEM_PAGE_NUMBERS
    Requests,       \* req_ids the callers use
    MaxCount        \* bound: cached_pages_cnt of a block

ASSUME PmemAssumption ==
    PageNum \in Nat /\ Requests \subseteq Nat /\ MaxCount \in Nat

Page == 1 .. PageNum

VARIABLES
    magic, page_offset,     \* whether the header's two words were written
    meta, page,             \* the page_metas and the 4K pages
    page_id1, page_id2, cached_pages_cnt, free_list,
    pc, req_id, content, page_old,
    store, orphaned

pmemVars == <<magic, page_offset, meta, page>>
dramVars == <<page_id1, page_id2, cached_pages_cnt, free_list>>
callVars == <<req_id, content, page_old>>
history == <<store, orphaned>>
vars == <<pmemVars, dramVars, pc, callVars, history>>

MetaType == [valid : BOOLEAN, sn : {0, 1}, req_id : Req]

\* atomic_value = 0.
Free == [valid |-> FALSE, sn |-> 0, req_id |-> 0]

Used(r, n) == [valid |-> TRUE, sn |-> n, req_id |-> r]

NoPages == [r \in Req |-> 0]

-----------------------------------------------------------------------------
(* What cbs_init finds.                                                    *)

PagesOf(r) == {p \in Page : meta[p].valid /\ meta[p].req_id = r}

\* Of several valid pages of a request the one with the largest id remains in
\* page_id1: each overwrites the one before.
Recovered(r) ==
    IF PagesOf(r) = {} THEN 0
    ELSE CHOOSE p \in PagesOf(r) : \A q \in PagesOf(r) : q <= p

SlipCachedIn(b) == 0                    \* the count is not rebuilt
CachedIn(b) == Cardinality({r \in Req : BlockOf(r) = b /\ PagesOf(r) # {}})

\* The free pages, in the order of their ids.
ScanFree ==
    LET free == {p \in Page : ~meta[p].valid}
    IN  CHOOSE s \in [1 .. Cardinality(free) -> free] :
            \A i, j \in DOMAIN s : i < j => s[i] < s[j]

\* The page a restart would give a request.
Found(r) == IF ~magic \/ Recovered(r) = 0 THEN None ELSE page[Recovered(r)]

-----------------------------------------------------------------------------
(* The table of requests.                                                  *)

NoPage(r) == page_id1[r] = 0 /\ page_id2[r] = 0
TwoPages(r) == page_id1[r] # 0 /\ page_id2[r] # 0
TheOne(r) == IF page_id1[r] # 0 THEN page_id1[r] ELSE page_id2[r]

ReadReq(r) ==
    IF NoPage(r) THEN None
    ELSE IF ~TwoPages(r) THEN page[TheOne(r)]
    ELSE IF meta[page_id1[r]].sn < meta[page_id2[r]].sn
         THEN page[page_id2[r]] ELSE page[page_id1[r]]

Top == free_list[Len(free_list)]
Pop == SubSeq(free_list, 1, Len(free_list) - 1)

\* The page a write is copied to: never the one in use.
SlipTarget == IF page_old # 0 THEN page_old ELSE Top    \* updates in place
Target == Top

-----------------------------------------------------------------------------
\* A file without the magic number may hold anything: here nothing, or metas
\* that look valid.
Init ==
    /\ magic = FALSE /\ page_offset = FALSE
    /\ \E m \in {Free} \cup {Used(r, 1) : r \in Req} : meta = [p \in Page |-> m]
    /\ page = [p \in Page |-> None]
    /\ page_id1 = NoPages /\ page_id2 = NoPages
    /\ cached_pages_cnt = [b \in Block |-> 0]
    /\ free_list = <<>>
    /\ pc = "down" /\ req_id = 0 /\ content = None /\ page_old = 0
    /\ store = [r \in Req |-> None] /\ orphaned = FALSE

-----------------------------------------------------------------------------
(* cbs_init.                                                               *)

FirstInit ==
    /\ pc = "down" /\ ~magic
    /\ pc' = "memset"
    /\ UNCHANGED <<pmemVars, dramVars, callVars, history>>

SlipMemsetMeta ==                       \* only the header is written
    /\ pc = "memset"
    /\ pc' = "offset"
    /\ UNCHANGED <<pmemVars, dramVars, callVars, history>>

MemsetMeta ==
    /\ pc = "memset"
    /\ meta' = [p \in Page |-> Free]
    /\ pc' = "offset"
    /\ UNCHANGED <<magic, page_offset, page, dramVars, callVars, history>>

WriteOffset ==
    /\ pc = "offset"
    /\ page_offset' = TRUE
    /\ pc' = "magic"
    /\ UNCHANGED <<magic, meta, page, dramVars, callVars, history>>

WriteMagic ==
    /\ pc = "magic"
    /\ magic' = TRUE
    /\ free_list' = [i \in Page |-> i]
    /\ pc' = "idle"
    /\ UNCHANGED <<page_offset, meta, page, page_id1, page_id2,
                   cached_pages_cnt, callVars, history>>

\* The table, the counts and the free pages are rebuilt from the metas.  A
\* write that a crash interrupted may have taken effect or not.
Recover ==
    /\ pc = "down" /\ magic
    /\ page_id1' = [r \in Req |-> Recovered(r)]
    /\ page_id2' = NoPages
    /\ cached_pages_cnt' = [b \in Block |-> CachedIn(b)]
    /\ free_list' = ScanFree
    /\ pc' = "idle"
    /\ store' = IF content # None /\ Found(req_id) = content
                THEN [store EXCEPT ![req_id] = content] ELSE store
    /\ req_id' = 0 /\ content' = None /\ page_old' = 0
    /\ UNCHANGED <<pmemVars, orphaned>>

-----------------------------------------------------------------------------
(* write_req.                                                              *)

\* The range check passes for block_id = DISK_BLOCK_NUM too.
InRange(r) == ~(BlockOf(r) > DiskBlockNum)

WriteReq(r, c) ==
    /\ pc = "idle" /\ InRange(r)
    /\ req_id' = r /\ content' = c
    /\ pc' = "write"
    /\ UNCHANGED <<pmemVars, dramVars, page_old, history>>

\* One page at most (NeverTwoPages); page_old is 0 if there is none.
LookupWrite ==
    /\ pc = "write"
    /\ NoPage(req_id) => cached_pages_cnt[BlockOf(req_id)] < MaxCount
    /\ page_old' = TheOne(req_id)
    /\ pc' = "copy"
    /\ UNCHANGED <<pmemVars, dramVars, req_id, content, history>>

StaleSn == page_old # 0 /\ meta[page_old].sn # 0

ResetSn ==
    /\ pc = "copy" /\ StaleSn
    /\ meta' = [meta EXCEPT ![page_old].sn = 0]
    /\ UNCHANGED <<magic, page_offset, page, dramVars, pc, callVars, history>>

CopyPage ==
    /\ pc = "copy" /\ ~StaleSn /\ free_list # <<>>
    /\ page' = [page EXCEPT ![Target] = content]
    /\ pc' = "meta"
    /\ UNCHANGED <<magic, page_offset, meta, dramVars, callVars, history>>

Return == pc' = "idle" /\ req_id' = 0 /\ content' = None /\ page_old' = 0

\* The request had no page: the 8-byte store makes the new one valid.
AddMeta ==
    /\ pc = "meta" /\ page_old = 0
    /\ meta' = [meta EXCEPT ![Target] = Used(req_id, 0)]
    /\ free_list' = Pop
    /\ page_id1' = [page_id1 EXCEPT ![req_id] = Target]
    /\ cached_pages_cnt' = [cached_pages_cnt EXCEPT ![BlockOf(req_id)] = @ + 1]
    /\ store' = [store EXCEPT ![req_id] = content]
    /\ Return
    /\ UNCHANGED <<magic, page_offset, page, page_id2, orphaned>>

\* The request has a page: from here on it has two valid ones...
UpdateMeta ==
    /\ pc = "meta" /\ page_old # 0
    /\ meta' = [meta EXCEPT ![Target] = Used(req_id, 1)]
    /\ page_id2' = [page_id2 EXCEPT ![req_id] = Target]
    /\ pc' = "clear"
    /\ UNCHANGED <<magic, page_offset, page, page_id1, cached_pages_cnt,
                   free_list, callVars, history>>

SlipClearOld ==                         \* page_id1 keeps the old page
    /\ pc = "clear"
    /\ meta' = [meta EXCEPT ![page_old] = Free]
    /\ free_list' = [free_list EXCEPT ![Len(free_list)] = page_old]
    /\ store' = [store EXCEPT ![req_id] = content]
    /\ Return
    /\ UNCHANGED <<magic, page_offset, page, page_id1, page_id2,
                   cached_pages_cnt, orphaned>>

SlipClearOldMeta ==                     \* the old meta stays valid
    /\ pc = "clear"
    /\ free_list' = [free_list EXCEPT ![Len(free_list)] = page_old]
    /\ page_id1' = [page_id1 EXCEPT ![req_id] = 0]
    /\ store' = [store EXCEPT ![req_id] = content]
    /\ Return
    /\ UNCHANGED <<pmemVars, page_id2, cached_pages_cnt, orphaned>>

\* ... until the meta of the old one is zeroed and it takes the place of the
\* new one among the free pages.
ClearOld ==
    /\ pc = "clear"
    /\ meta' = [meta EXCEPT ![page_old] = Free]
    /\ free_list' = [free_list EXCEPT ![Len(free_list)] = page_old]
    /\ page_id1' = [page_id1 EXCEPT ![req_id] = 0]
    /\ store' = [store EXCEPT ![req_id] = content]
    /\ Return
    /\ UNCHANGED <<magic, page_offset, page, page_id2, cached_pages_cnt,
                   orphaned>>

-----------------------------------------------------------------------------
(* delete_page.                                                            *)

DeletePage(r) ==
    /\ pc = "idle" /\ InRange(r)
    /\ req_id' = r
    /\ pc' = "delete"
    /\ UNCHANGED <<pmemVars, dramVars, content, page_old, history>>

\* cached_pages_cnt keeps counting the page.
DeleteOne ==
    /\ pc = "delete" /\ ~NoPage(req_id)
    /\ IF page_id1[req_id] # 0
       THEN page_id1' = [page_id1 EXCEPT ![req_id] = 0] /\ UNCHANGED page_id2
       ELSE page_id2' = [page_id2 EXCEPT ![req_id] = 0] /\ UNCHANGED page_id1
    /\ meta' = [meta EXCEPT ![TheOne(req_id)] = Free]
    /\ free_list' = Append(free_list, TheOne(req_id))
    /\ store' = [store EXCEPT ![req_id] = None]
    /\ Return
    /\ UNCHANGED <<magic, page_offset, page, cached_pages_cnt, orphaned>>

\* "cache is not exist"
DeleteNone ==
    /\ pc = "delete" /\ NoPage(req_id)
    /\ Return
    /\ UNCHANGED <<pmemVars, dramVars, history>>

-----------------------------------------------------------------------------
(* The end of the process.                                                 *)

\* The table is gone.  content stays if a write was going on.
Down ==
    /\ page_id1' = NoPages /\ page_id2' = NoPages
    /\ cached_pages_cnt' = [b \in Block |-> 0]
    /\ free_list' = <<>>
    /\ pc' = "down"
    /\ UNCHANGED <<magic, page_offset, callVars, store>>

\* A memset or a copy that was going on may have done any part of its work.
Crash ==
    /\ pc # "down"
    /\ Down
    /\ IF pc = "memset"
       THEN \E done \in SUBSET Page :
               meta' = [p \in Page |-> IF p \in done THEN Free ELSE meta[p]]
       ELSE UNCHANGED meta
    /\ \/ UNCHANGED page
       \/ /\ pc = "copy" /\ ~StaleSn /\ free_list # <<>>
          /\ page' = [page EXCEPT ![Target] = Torn]
    /\ orphaned' = (orphaned \/ pc = "clear")

\* "thre is no free pages in the pmem": the code goes on to free_list[-1] and
\* copies the page to an address made from it, which is not mapped.
NoFreePage ==
    /\ pc = "copy" /\ ~StaleSn /\ free_list = <<>>
    /\ Down
    /\ UNCHANGED <<meta, page, orphaned>>

-----------------------------------------------------------------------------
Next ==
    \/ FirstInit \/ MemsetMeta \/ WriteOffset \/ WriteMagic \/ Recover
    \/ \E r \in Requests, c \in Content : WriteReq(r, c)
    \/ LookupWrite \/ ResetSn \/ CopyPage \/ AddMeta \/ UpdateMeta \/ ClearOld
    \/ \E r \in Requests : DeletePage(r)
    \/ DeleteOne \/ DeleteNone
    \/ Crash \/ NoFreePage

Spec == Init /\ [][Next]_vars

-----------------------------------------------------------------------------
(* Properties.                                                             *)

\* Every variable has its type: the stack of free pages fits its array.
TypeOK ==
    /\ magic \in BOOLEAN /\ page_offset \in BOOLEAN
    /\ meta \in [Page -> MetaType]
    /\ page \in [Page -> Content \cup {None, Torn}]
    /\ page_id1 \in [Req -> 0 .. PageNum] /\ page_id2 \in [Req -> 0 .. PageNum]
    /\ cached_pages_cnt \in [Block -> 0 .. MaxCount]
    /\ free_list \in Seq(Page) /\ Len(free_list) <= PageNum
    /\ pc \in {"down", "memset", "offset", "magic", "idle", "write", "copy",
               "meta", "clear", "delete"}
    /\ req_id \in Nat /\ content \in Content \cup {None}
    /\ page_old \in 0 .. PageNum
    /\ store \in [Req -> Content \cup {None}] /\ orphaned \in BOOLEAN

\* No page is both free and in use: between calls the free list has no page
\* twice, none of them is marked valid on the medium, and the page of a
\* request is marked as that request's (so no two requests share one) -
\* whatever crashes came before, orphans or not (cbs_init, write_req,
\* delete_page).
PagesPartitioned ==
    /\ TypeOK
    /\ pc = "idle" =>
        /\ \A i, j \in 1 .. Len(free_list) :
              i # j => free_list[i] # free_list[j]
        /\ \A i \in 1 .. Len(free_list) : ~meta[free_list[i]].valid
        /\ \A r \in Req : ~NoPage(r) => TheOne(r) \in PagesOf(r)

\* Between calls no request has two pages in the table: the branches of
\* write_req, read_req and delete_page for that case are never taken.
NeverTwoPages == pc = "idle" => \A r \in Req : ~TwoPages(r)

\* A page marked valid was copied completely before, and the magic number is
\* written last: at no moment would a restart hand out a torn page or look for
\* the pages at the wrong address ("page_meta is not updated, so recovery makes
\* no mistake", write_req).
NoTornPage ==
    magic => /\ page_offset
             /\ \A p \in Page : meta[p].valid => page[p] \in Content

\* read_req returns the last page written, across any number of restarts,
\* if no crash ever fell between the two metas of an update.
LastWriteWins == pc = "idle" /\ ~orphaned => \A r \in Req : ReadReq(r) = store[r]

\* The count that is to trigger the write-back never misses a page.
CountCovers ==
    pc = "idle" =>
        \A b \in Block :
            Cardinality({r \in Req : BlockOf(r) = b /\ ~NoPage(r)})
              <= cached_pages_cnt[b]

\* The write_req or delete_page that has not returned.
InProgress ==
    IF pc \in {"write", "copy", "meta", "clear"} THEN {[req |-> req_id, page |-> content]}
    ELSE IF pc = "delete" THEN {[req |-> req_id, page |-> None]} ELSE {}

Promise == INSTANCE PageStore WITH store <- [r \in Req |-> Found(r)],
                                   calls <- InProgress, intact <- ~orphaned

\* The persistent memory alone is a store of pages: what a restart would find
\* changes in one single step of a write or delete, to what that call asks for,
\* and at no other time - not in a call that is over, nor in a restart.
ImplementsPageStore == Promise!Spec

\* What the comments on sn say: if two pages of a request are valid, the one
\* with the larger sn is the newer, and it is the one the table must lead to.
\* (cbs_init goes by the page id instead.)
SnDecides ==
    pc = "idle" =>
        \A r \in Req : \A p, q \in PagesOf(r) :
            meta[p].sn < meta[q].sn => TheOne(r) # p

-----------------------------------------------------------------------------
(* Why these properties hold: the inductive invariant of their proofs.     *)

Up == pc \in {"idle", "write", "copy", "meta", "clear", "delete"}

\* The header is written in order, and before it there is nothing.
HeaderKnown ==
    /\ Up => magic
    /\ pc \in {"memset", "offset", "magic"} => ~magic
    /\ pc \in {"offset", "magic"} => \A p \in Page : meta[p] = Free
    /\ pc = "magic" => page_offset
    /\ ~magic => ~orphaned /\ content = None /\ store = [r \in Req |-> None]
    /\ ~Up => page_id1 = NoPages /\ page_id2 = NoPages

\* What a call has established where it is.
CallKnown ==
    /\ pc \in {"write", "copy", "meta", "clear"} => req_id \in Req /\ content \in Content
    /\ pc = "delete" => req_id \in Req
    /\ pc \in {"copy", "meta"} => page_old = TheOne(req_id)
    /\ pc \in {"copy", "meta"} /\ page_old = 0 =>
          cached_pages_cnt[BlockOf(req_id)] < MaxCount
    /\ pc \in {"meta", "clear"} => free_list # <<>> /\ page[Top] = content
    /\ pc = "clear" => /\ page_old # Top /\ page_old \in PagesOf(req_id)
                       /\ page_id2[req_id] = Top /\ page_id1[req_id] \in {0, page_old}

\* Pages are free or in the table, but for the new page of an update.
TableKnown ==
    /\ \A i, j \in 1 .. Len(free_list) : i # j => free_list[i] # free_list[j]
    /\ \A i \in 1 .. Len(free_list) :
          meta[free_list[i]].valid => pc = "clear" /\ i = Len(free_list)
    /\ \A r \in Req : /\ page_id1[r] # 0 => page_id1[r] \in PagesOf(r)
                      /\ page_id2[r] # 0 => page_id2[r] \in PagesOf(r)
                      /\ TwoPages(r) => pc = "clear" /\ r = req_id

\* The counts are at least those that a restart would make, orphans included.
CountsKnown ==
    magic => \A b \in Block : CachedIn(b) <= IF Up THEN cached_pages_cnt[b] ELSE MaxCount

\* Without an orphan a restart finds for each request the page of the table
\* and none else, but for the two pages of an update.
OnePageEach ==
    magic /\ ~orphaned =>
        \A r \in Req :
            IF pc = "clear" /\ r = req_id THEN PagesOf(r) = {page_old, Top}
            ELSE /\ \A p, q \in PagesOf(r) : p = q
                 /\ Up /\ NoPage(r) => PagesOf(r) = {}
                 /\ Found(r) = store[r]

CacheInv ==
    /\ TypeOK /\ HeaderKnown /\ CallKnown /\ TableKnown /\ CountsKnown
    /\ NoTornPage /\ OnePageEach
=============================================================================
