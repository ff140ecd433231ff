----------------------------- MODULE CbsPmemobj -----------------------------
(***************************************************************************)
(* cbs_req/cbs_req_pmemobj.cpp: the page cache as objects of a libpmemobj  *)
(* pool.  The root has an oid for each block of the disk, a block object   *)
(* an oid for each of its pages and their count; write_req changes them in *)
(* one transaction.                                                        *)
(*                                                                         *)
(* Of libpmemobj the model has what the code relies on: ranges added to a  *)
(* transaction get their old contents back, and objects allocated in it    *)
(* are freed, if it does not commit; a free takes effect at the commit.    *)
(***************************************************************************)
EXTENDS CbsPages, FiniteSets

CONSTANTS
    PagePlace,      \* places for a struct page in the pool
    NoOid           \* OID_NULL

ASSUME ObjAssumption == IsFiniteSet(PagePlace) /\ NoOid \notin PagePlace

VARIABLES
    blocks,         \* blocks[b]: whether rootp->blocks[b] is an oid
    oids, count,    \* oids[r] and count[b]: the fields of the block objects
    alloc, data,    \* the places in use, and what every place holds
    log,            \* the undo log: [at, old] of every range added
    fresh,          \* pages allocated by the open transaction
    opc, oreq, ocontent, onew,      \* the call: req_id, content, page_oid
    deleted         \* history: delete_page has freed a page
poolVars == <<blocks, oids, count, alloc, data>>
objCall == <<oreq, ocontent, onew>>
objVars == <<poolVars, log, fresh, opc, objCall, deleted>>

Oid == PagePlace \cup {NoOid}

\* The pool as pmemobj_open would restore it.
Old(at, now) == IF \E u \in log : u.at = at THEN (CHOOSE u \in log : u.at = at).old ELSE now

OldBlocks == [b \in Block |-> Old(<<"block", b>>, blocks[b])]
OldOids == [r \in Req |-> Old(<<"oid", r>>, oids[r])]
OldCount == [b \in Block |-> Old(<<"count", b>>, count[b])]
OldData == [p \in PagePlace |-> Old(<<"page", p>>, data[p])]

\* read_req after a restart: NULL without a block or a page.
ReadObj(r) ==
    IF ~OldBlocks[BlockOf(r)] \/ OldOids[r] = NoOid THEN None ELSE OldData[OldOids[r]]

-----------------------------------------------------------------------------
\* pmemobj_create makes a root object of zeros.
ObjInit ==
    /\ blocks = [b \in Block |-> FALSE] /\ count = [b \in Block |-> 0]
    /\ oids = [r \in Req |-> NoOid]
    /\ alloc = {} /\ data = [p \in PagePlace |-> None]
    /\ log = {} /\ fresh = {}
    /\ opc = "down" /\ oreq = 0 /\ ocontent = None /\ onew = NoOid
    /\ deleted = FALSE

ObjIdle == opc' = "idle" /\ oreq' = 0 /\ ocontent' = None /\ onew' = NoOid

\* The transaction is rolled back.
Rollback ==
    /\ blocks' = OldBlocks /\ oids' = OldOids /\ count' = OldCount
    /\ alloc' = alloc \ fresh /\ data' = OldData
    /\ log' = {} /\ fresh' = {}

\* cbs_init: pmemobj_create or pmemobj_open, which recovers.
ObjOpen ==
    /\ opc = "down"
    /\ Rollback
    /\ ObjIdle
    /\ UNCHANGED deleted

-----------------------------------------------------------------------------
(* write_req.                                                              *)

ObjWrite(r, c) ==
    /\ opc = "idle"
    /\ oreq' = r /\ ocontent' = c
    /\ opc' = IF ~blocks[BlockOf(r)] THEN "block"
              ELSE IF oids[r] = NoOid THEN "page" ELSE "snapshot"
    /\ UNCHANGED <<poolVars, log, fresh, onew, deleted>>

\* A new struct block, set to zeros; it is reached once the root has its oid.
NewBlock ==
    /\ opc = "block"
    /\ opc' = "page"
    /\ UNCHANGED <<poolVars, log, fresh, objCall, deleted>>

\* A new struct page and the copy of the content.
NewPage(p) ==
    /\ opc = "page" /\ p \notin alloc
    /\ alloc' = alloc \cup {p} /\ data' = [data EXCEPT ![p] = ocontent]
    /\ fresh' = {p} /\ onew' = p
    /\ opc' = IF blocks[BlockOf(oreq)] THEN "oid" ELSE "root"
    /\ UNCHANGED <<blocks, oids, count, log, oreq, ocontent, deleted>>

\* pmemobj_tx_alloc finds no room (for the block or the page) and aborts the
\* transaction; write_req returns 0 all the same.
NoRoom ==
    /\ opc \in {"block", "page"} /\ alloc = PagePlace
    /\ Rollback
    /\ ObjIdle
    /\ UNCHANGED deleted

SetRoot ==
    /\ opc = "root"
    /\ log' = log \cup {[at |-> <<"block", BlockOf(oreq)>>, old |-> FALSE]}
    /\ blocks' = [blocks EXCEPT ![BlockOf(oreq)] = TRUE]
    /\ opc' = "oid"
    /\ UNCHANGED <<oids, count, alloc, data, fresh, objCall, deleted>>

SetOid ==
    /\ opc = "oid"
    /\ log' = log \cup {[at |-> <<"oid", oreq>>, old |-> oids[oreq]]}
    /\ oids' = [oids EXCEPT ![oreq] = onew]
    /\ opc' = "count"
    /\ UNCHANGED <<blocks, count, alloc, data, fresh, objCall, deleted>>

SlipCountUp ==                          \* "8 bytes, no need to snapshot"
    /\ opc = "count"
    /\ count' = [count EXCEPT ![BlockOf(oreq)] = @ + 1]
    /\ opc' = "commit"
    /\ UNCHANGED <<blocks, oids, alloc, data, log, fresh, objCall, deleted>>

CountUp ==
    /\ opc = "count"
    /\ log' = log \cup {[at |-> <<"count", BlockOf(oreq)>>, old |-> count[BlockOf(oreq)]]}
    /\ count' = [count EXCEPT ![BlockOf(oreq)] = @ + 1]
    /\ opc' = "commit"
    /\ UNCHANGED <<blocks, oids, alloc, data, fresh, objCall, deleted>>

SlipSnapshot ==                         \* the page is not added to the transaction
    /\ opc = "snapshot"
    /\ opc' = "update"
    /\ UNCHANGED <<poolVars, log, fresh, objCall, deleted>>

\* The page is there: its old contents go to the undo log ...
Snapshot ==
    /\ opc = "snapshot"
    /\ log' = {[at |-> <<"page", oids[oreq]>>, old |-> data[oids[oreq]]]}
    /\ opc' = "update"
    /\ UNCHANGED <<poolVars, fresh, objCall, deleted>>

\* ... before it is overwritten.
UpdateBegins ==
    /\ opc = "update"
    /\ data' = [data EXCEPT ![oids[oreq]] = Torn]
    /\ opc' = "copy"
    /\ UNCHANGED <<blocks, oids, count, alloc, log, fresh, objCall, deleted>>

UpdateEnds ==
    /\ opc = "copy"
    /\ data' = [data EXCEPT ![oids[oreq]] = ocontent]
    /\ opc' = "commit"
    /\ UNCHANGED <<blocks, oids, count, alloc, log, fresh, objCall, deleted>>

\* TX_END.
Commit ==
    /\ opc = "commit"
    /\ log' = {} /\ fresh' = {}
    /\ ObjIdle
    /\ UNCHANGED <<poolVars, deleted>>

-----------------------------------------------------------------------------
\* delete_page: the page is freed, and the block keeps its oid and its count.
\* (Of a page that is free already libpmemobj rejects the call.)
DeleteObj(r) ==
    /\ opc = "idle" /\ blocks[BlockOf(r)] /\ oids[r] # NoOid
    /\ alloc' = alloc \ {oids[r]}
    /\ deleted' = TRUE
    /\ UNCHANGED <<blocks, oids, count, data, log, fresh, opc, objCall>>

ObjCrash ==
    /\ opc # "down"
    /\ opc' = "down"
    /\ UNCHANGED <<poolVars, log, fresh, objCall, deleted>>

ObjNext ==
    \/ ObjOpen \/ (\E r \in Req, c \in Content : ObjWrite(r, c))
    \/ NewBlock \/ (\E p \in PagePlace : NewPage(p)) \/ NoRoom
    \/ SetRoot \/ SetOid \/ CountUp \/ Snapshot \/ UpdateBegins \/ UpdateEnds
    \/ Commit \/ (\E r \in Req : DeleteObj(r)) \/ ObjCrash

ObjSpec == ObjInit /\ [][ObjNext]_objVars

-----------------------------------------------------------------------------
\* The write_req that has not returned.
ObjInProgress ==
    IF opc \in {"down", "idle"} THEN {} ELSE {[req |-> oreq, page |-> ocontent]}

ObjPromise == INSTANCE PageStore WITH store <- [r \in Req |-> ReadObj(r)],
                                      calls <- ObjInProgress, intact <- ~deleted

\* As long as nothing is deleted the pool is a store of pages: what a restart
\* would find changes in one step of a write, for its request and to its page,
\* although an update overwrites the page in place; a write that was aborted or
\* cut short has no effect later.
ObjIsPageStore == ObjPromise!Spec

\* Wherever a run stops, the counts that the next one adds up are the numbers
\* of pages with an oid; and while nothing was deleted every allocated page
\* belongs to exactly one request, so that an aborted write leaks nothing.
ObjWhole ==
    LET held == {r \in Req : OldOids[r] # NoOid} IN
    /\ \A b \in Block : OldCount[b] = Cardinality({r \in held : BlockOf(r) = b})
    /\ ~deleted => /\ {OldOids[r] : r \in held} = alloc \ fresh
                   /\ Cardinality(held) = Cardinality(alloc \ fresh)

-----------------------------------------------------------------------------
(* Why these properties hold: the inductive invariant of their proofs.     *)

ObjTypeOK ==
    /\ blocks \in [Block -> BOOLEAN] /\ oids \in [Req -> Oid] /\ count \in [Block -> Nat]
    /\ alloc \subseteq PagePlace /\ fresh \subseteq alloc
    /\ data \in [PagePlace -> Content \cup {None, Torn}]
    /\ opc \in {"down", "idle", "block", "page", "root", "oid", "count", "snapshot",
                "update", "copy", "commit"}
    /\ oreq \in Req /\ ocontent \in Content \cup {None} /\ onew \in Oid
    /\ deleted \in BOOLEAN

Logged == {u.at : u \in log}

\* No range is added to a transaction twice.
LogKnown == \A u, v \in log : u.at = v.at => u.old = v.old

\* What a restart finds is whole, wherever the transaction is.
RestartKnown ==
    /\ \A b \in Block : OldBlocks[b] \in BOOLEAN /\ OldCount[b] \in Nat
    /\ \A r \in Req : OldOids[r] \in Oid
    /\ \A p \in PagePlace : OldData[p] \in Content \cup {None, Torn}
    /\ \A r \in Req : OldOids[r] # NoOid => OldBlocks[BlockOf(r)]
    /\ \A b \in Block :
          OldCount[b] = Cardinality({r \in Req : OldOids[r] # NoOid /\ BlockOf(r) = b})
    /\ ~deleted => /\ {OldOids[r] : r \in {q \in Req : OldOids[q] # NoOid}} = alloc \ fresh
                   /\ \A q, r \in Req : OldOids[q] = OldOids[r] /\ OldOids[q] # NoOid => q = r

\* A write that adds a page: what it has done, and what of that is logged.
Adding == opc \in {"root", "oid", "count"} \/ (opc = "commit" /\ fresh # {})

AddingKnown ==
    LET b == BlockOf(oreq) IN
    /\ fresh = {onew} /\ onew \in PagePlace /\ data[onew] = ocontent /\ OldOids[oreq] = NoOid
    /\ Logged \subseteq {<<"block", b>>, <<"oid", oreq>>, <<"count", b>>}
    /\ opc = "root" => log = {} /\ ~blocks[b]
    /\ opc # "root" => blocks[b]
    /\ opc = "oid" => Logged \subseteq {<<"block", b>>}
    /\ opc \in {"count", "commit"} => oids[oreq] = onew
    /\ opc = "count" => Logged \subseteq {<<"block", b>>, <<"oid", oreq>>}
    /\ opc = "commit" => count[b] = OldCount[b] + 1

\* A write that overwrites a page.
Updating == opc \in {"update", "copy"} \/ (opc = "commit" /\ fresh = {})

UpdatingKnown ==
    /\ fresh = {} /\ oids[oreq] # NoOid
    /\ Logged = {<<"page", oids[oreq]>>}
    /\ opc = "commit" => data[oids[oreq]] = ocontent

ObjInv ==
    /\ ObjTypeOK /\ LogKnown /\ RestartKnown
    /\ opc \in {"idle", "block", "page", "snapshot"} => log = {} /\ fresh = {}
    /\ opc \notin {"down", "idle"} => ocontent \in Content
    /\ opc = "block" => ~blocks[BlockOf(oreq)]
    /\ opc \in {"block", "page"} => oids[oreq] = NoOid
    /\ opc = "snapshot" => oids[oreq] # NoOid
    /\ Adding => AddingKnown
    /\ Updating => UpdatingKnown
=============================================================================
