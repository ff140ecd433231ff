----------------------------- MODULE CbsDirect ------------------------------
(***************************************************************************)
(* The page caches of cbs_req/ that leave the order of their writes to     *)
(* what is below them, each with the main that drives it:                  *)
(*   "ssd"      cbs_req_ssd.cpp: a mapped file, memcpy and msync in place  *)
(*   "pmemblk"  cbs_req_pmemblk.cpp: blocks that are written atomically    *)
(*   "pmemkv"   cbs_req_pmemkv.cpp: a key for every request                *)
(*   "memkind"  cbs_req_memkind.cpp: a table of pages in volatile memory   *)
(* The main of a cache writes a pattern to all requests, another one to    *)
(* some of them, and reads both back.                                      *)
(***************************************************************************)
EXTENDS CbsPages, Sequences

CONSTANTS
    Ab, Cd,             \* the patterns 0xab and 0xcd
    OverwriteCount      \* OVERWRITE_COUNT; WRITE_COUNT is all of Req

ASSUME DriverAssumption ==
    /\ Ab \in Content /\ Cd \in Content /\ Ab # Cd
    /\ OverwriteCount \in Req \ {0}

Kind == {"ssd", "pmemblk", "pmemkv", "memkind"}

VARIABLES
    kind,
    view, disk,         \* pages as a read returns them, and as they are durable
    cpc, phase, index,  \* main: the loop it is in, and i
    page_content,
    acked,              \* history: the last write of a request that returned,
    broken              \*   and requests whose last write did not
dataVars == <<view, disk>>
mainVars == <<phase, index, page_content>>
cacheHist == <<acked, broken>>
directVars == <<kind, dataVars, cpc, mainVars, cacheHist>>

WriteCount == BlockPageNum * DiskBlockNum

\* A loop of main: what page_content is set to before it (None: nothing), or
\* what the text after it says was read (None if it was not written in this
\* run: what is then in the store is up to earlier runs).
Loop(op, from, to, with) == [op |-> op, from |-> from, to |-> to, with |-> with]

Common ==
    << Loop("write", 0, WriteCount, Ab), Loop("write", 0, OverwriteCount, Cd),
       Loop("read", 0, OverwriteCount, Cd), Loop("read", OverwriteCount, WriteCount, Ab) >>

Loops ==
    CASE kind = "ssd" ->
            << Loop("read", 0, OverwriteCount, None),
               Loop("read", OverwriteCount, WriteCount, None) >> \o Common
      [] kind = "memkind" ->
            Common \o << Loop("delete", 0, WriteCount, None),
                         Loop("write", 0, WriteCount, None),
                         Loop("write", 0, OverwriteCount, Cd) >>
      [] OTHER -> Common

Now == Loops[phase]

\* memset(page_content, ...) in front of a loop that writes.
Prepared(p, c) ==
    IF p <= Len(Loops) /\ Loops[p].op = "write" /\ Loops[p].with # None
    THEN Loops[p].with ELSE c

-----------------------------------------------------------------------------
DirectInit ==
    /\ kind \in Kind
    /\ view = [r \in Req |-> None] /\ disk = [r \in Req |-> None]
    /\ cpc = "down" /\ phase = 1 /\ index = 0 /\ page_content = None
    /\ acked = [r \in Req |-> None] /\ broken = {}

\* cbs_init: the pool or file is opened as it is; memkind starts a new one.
DirectStart ==
    /\ cpc = "down"
    /\ cpc' = "loop" /\ phase' = 1 /\ index' = 0
    /\ page_content' = Prepared(1, None)
    /\ IF kind = "memkind"
       THEN view' = [r \in Req |-> None] /\ acked' = view' /\ broken' = {}
       ELSE UNCHANGED <<view, cacheHist>>
    /\ UNCHANGED <<kind, disk>>

\* The next request of the loop, or the next loop, or the end of main.
Advance ==
    IF index + 1 < Now.to
    THEN index' = index + 1 /\ cpc' = "loop" /\ UNCHANGED <<phase, page_content>>
    ELSE IF phase < Len(Loops)
    THEN /\ phase' = phase + 1 /\ index' = Loops[phase + 1].from
         /\ page_content' = Prepared(phase + 1, page_content) /\ cpc' = "loop"
    ELSE cpc' = "down" /\ UNCHANGED mainVars

\* Where a request is kept: req_id<<12, the block or the key of that number.
SlipSlot(r) == 0                        \* the number is lost
Slot(r) == r

Doing(op) == cpc = "loop" /\ Now.op = op

-----------------------------------------------------------------------------
(* write_req.                                                              *)

\* memcpy to the mapping, which is not atomic ...
SsdCopyBegins ==
    /\ Doing("write") /\ kind = "ssd"
    /\ view' = [view EXCEPT ![Slot(index)] = Torn]
    /\ cpc' = "copy" /\ broken' = broken \cup {index}
    /\ UNCHANGED <<kind, disk, mainVars, acked>>

SsdCopyEnds ==
    /\ cpc = "copy"
    /\ view' = [view EXCEPT ![Slot(index)] = page_content]
    /\ cpc' = "msync"
    /\ UNCHANGED <<kind, disk, mainVars, cacheHist>>

\* ... then pmem_msync.
SlipSsdMsync ==                         \* it is left to the kernel
    /\ cpc = "msync"
    /\ cpc' = "return"
    /\ UNCHANGED <<kind, dataVars, mainVars, cacheHist>>

SsdMsync ==
    /\ cpc = "msync"
    /\ disk' = [disk EXCEPT ![Slot(index)] = view[Slot(index)]]
    /\ cpc' = "return"
    /\ UNCHANGED <<kind, view, mainVars, cacheHist>>

\* The kernel may write a page of the mapping back at any time.
WriteBack(r) ==
    /\ kind = "ssd" /\ disk[r] # view[r]
    /\ disk' = [disk EXCEPT ![r] = view[r]]
    /\ UNCHANGED <<kind, view, cpc, mainVars, cacheHist>>

\* pmemblk_write and pmemkv_put: atomic and durable.
PutPage ==
    /\ Doing("write") /\ kind \in {"pmemblk", "pmemkv"}
    /\ view' = [view EXCEPT ![Slot(index)] = page_content]
    /\ disk' = [disk EXCEPT ![Slot(index)] = page_content]
    /\ cpc' = "return" /\ broken' = broken \cup {index}
    /\ UNCHANGED <<kind, mainVars, acked>>

\* memkind: a page is allocated if there is none.  If that fails the write is
\* skipped, and 0 is returned all the same.
MemkindWrite ==
    /\ Doing("write") /\ kind = "memkind"
    /\ \/ view' = [view EXCEPT ![Slot(index)] = page_content]
       \/ view[Slot(index)] = None /\ view' = view
    /\ cpc' = "return" /\ broken' = broken \cup {index}
    /\ UNCHANGED <<kind, disk, mainVars, acked>>

WriteReturns ==
    /\ cpc = "return"
    /\ acked' = [acked EXCEPT ![index] = page_content]
    /\ broken' = broken \ {index}
    /\ Advance
    /\ UNCHANGED <<kind, dataVars>>

-----------------------------------------------------------------------------
\* read_req and the memcpy of main.  A key that is not there fails an assert,
\* and a page that is not there is a NULL pointer; the others read zeros.
Missing == view[Slot(index)] = None /\ kind \in {"pmemkv", "memkind"}

ReadPage ==
    /\ Doing("read") /\ ~Missing
    /\ page_content' = view[Slot(index)]
    /\ cpc' = "read"
    /\ UNCHANGED <<kind, dataVars, phase, index, cacheHist>>

ReadReturns ==
    /\ cpc = "read"
    /\ Advance
    /\ UNCHANGED <<kind, dataVars, cacheHist>>

ReadDies ==
    /\ Doing("read") /\ Missing
    /\ cpc' = "down"
    /\ UNCHANGED <<kind, dataVars, mainVars, cacheHist>>

\* delete_page of memkind: the page is freed and forgotten.
MemkindDelete ==
    /\ Doing("delete")
    /\ view' = [view EXCEPT ![Slot(index)] = None]
    /\ acked' = [acked EXCEPT ![index] = None]
    /\ Advance
    /\ UNCHANGED <<kind, disk, broken>>

\* The process is killed.  The pages the kernel has in memory stay.
Killed ==
    /\ cpc # "down"
    /\ cpc' = "down"
    /\ UNCHANGED <<kind, dataVars, mainVars, cacheHist>>

\* A power failure: of a page of the mapping that was not written back the
\* disk has the old or the new contents, or a mixture.
PowerFails ==
    /\ cpc' = "down"
    /\ disk' \in {d \in [Req -> Content \cup {None, Torn}] :
                    \A r \in Req : d[r] \in IF view[r] = disk[r] \/ kind = "memkind"
                                            THEN {disk[r]} ELSE {disk[r], view[r], Torn}}
    /\ view' = disk'
    /\ UNCHANGED <<kind, mainVars, cacheHist>>

DirectNext ==
    \/ DirectStart \/ SsdCopyBegins \/ SsdCopyEnds \/ SsdMsync
    \/ (\E r \in Req : WriteBack(r)) \/ PutPage \/ MemkindWrite \/ WriteReturns
    \/ ReadPage \/ ReadReturns \/ ReadDies \/ MemkindDelete \/ Killed \/ PowerFails

DirectSpec == DirectInit /\ [][DirectNext]_directVars

-----------------------------------------------------------------------------
\* What main says it reads, and asserts in cbs_req_ssd.cpp: after its own
\* writes the requests that were overwritten hold the second pattern and the
\* others the first, whatever an earlier run that was killed had left in the
\* store.  The two loops of cbs_req_ssd.cpp that read before anything is
\* written announce the same patterns, with their asserts commented out; they
\* and all others read what the last write of a request left, in this run or
\* an earlier one (nothing, on a new store), unless that write did not return.
PatternsRead ==
    cpc = "read" =>
        /\ Now.with # None => page_content = Now.with
        /\ kind # "memkind" /\ index \notin broken => page_content = acked[index]

\* A crash damages only the page that was being written: of every other
\* request both a read and the medium have what its last write left, and the
\* atomic stores never show a page that is half written.
OthersUndamaged ==
    kind # "memkind" =>
        /\ \A r \in Req \ broken : view[r] = acked[r] /\ disk[r] = acked[r]
        /\ kind # "ssd" => \A r \in Req : view[r] # Torn

-----------------------------------------------------------------------------
(* Why these properties hold: the inductive invariant of their proofs.     *)

PageValue == Content \cup {None, Torn}

DirectTypeOK ==
    /\ kind \in Kind
    /\ view \in [Req -> PageValue] /\ disk \in [Req -> PageValue]
    /\ cpc \in {"down", "loop", "copy", "msync", "return", "read"}
    /\ phase \in 1 .. Len(Loops)
    /\ index \in Nat /\ Now.from <= index /\ index < Now.to
    /\ page_content \in PageValue
    /\ acked \in [Req -> PageValue] /\ broken \subseteq Req

\* Where main is in a call, and the pattern it has prepared.
MainKnown ==
    /\ cpc \in {"copy", "msync"} => kind = "ssd"
    /\ cpc \in {"copy", "msync", "return"} => Now.op = "write"
    /\ cpc = "read" => Now.op = "read"
    /\ cpc # "down" /\ Now.op = "write" /\ Now.with # None => page_content = Now.with

\* memkind may have skipped the write.
Holds(r, c) == view[r] = c \/ (kind = "memkind" /\ view[r] = None)

Base == IF kind = "ssd" THEN 2 ELSE 0

\* How far the patterns have got.
PatternKnown ==
    /\ cpc # "down" /\ phase = Base + 1 => \A r \in Req : r < index => Holds(r, Ab)
    /\ cpc # "down" /\ phase = Base + 2 =>
          \A r \in Req : /\ r < index => Holds(r, Cd)
                         /\ r > index \/ (r = index /\ cpc = "loop") => Holds(r, Ab)
    /\ cpc # "down" /\ phase \in {Base + 3, Base + 4} =>
          \A r \in Req : Holds(r, IF r < OverwriteCount THEN Cd ELSE Ab)
    /\ cpc \in {"msync", "return"} => Holds(index, page_content)

\* What is durable of the call that is going on.
DurableKnown ==
    /\ cpc \in {"copy", "msync", "return"} => index \in broken
    /\ cpc = "return" /\ kind # "memkind" => disk[index] = page_content
    /\ kind \in {"pmemblk", "pmemkv"} => view = disk

DirectInv ==
    /\ DirectTypeOK /\ MainKnown /\ PatternKnown /\ DurableKnown
    /\ PatternsRead /\ OthersUndamaged
=============================================================================
