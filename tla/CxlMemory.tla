----------------------------- MODULE CxlMemory ------------------------------
(***************************************************************************)
(* Memory that several hosts map over CXL without hardware coherence: each *)
(* host has a write-back cache, and only cflush and cflushopt of           *)
(* cxl_memory_sharing/rw_info.c (HW_CACHE_COH undefined) keep the copies   *)
(* together.  A cache may write back, drop or prefetch a line at any time. *)
(***************************************************************************)
CONSTANTS
    Host,
    Line,       \* cache lines
    Value,      \* contents of a line
    NoCopy

ASSUME NoCopyAssumption == NoCopy \notin Value

VARIABLES
    mem,        \* the shared memory
    copy,       \* copy[h][l]: line l in the cache of host h, or NoCopy
    dirty       \* dirty[h]: the lines of h that are newer than the memory

memVars == <<mem, copy, dirty>>

MemTypeOK ==
    /\ mem \in [Line -> Value]
    /\ copy \in [Host -> [Line -> Value \cup {NoCopy}]]
    /\ dirty \in [Host -> SUBSET Line]

\* A line that is newer than the memory is in the cache.
DirtyHasCopy == \A h \in Host : \A l \in dirty[h] : copy[h][l] # NoCopy

EmptyCaches ==
    /\ copy = [h \in Host |-> [l \in Line |-> NoCopy]]
    /\ dirty = [h \in Host |-> {}]

\* What a load of the line returns.
Sees(h, l) == IF copy[h][l] # NoCopy THEN copy[h][l] ELSE mem[l]

Load(h, l) ==
    /\ copy' = [copy EXCEPT ![h][l] = Sees(h, l)]
    /\ UNCHANGED <<mem, dirty>>

Store(h, l, v) ==
    /\ copy' = [copy EXCEPT ![h][l] = v]
    /\ dirty' = [dirty EXCEPT ![h] = @ \cup {l}]
    /\ UNCHANGED mem

\* The accelerator of a host stores a line past the caches of that host.
DirectStore(h, l, v) ==
    /\ mem' = [mem EXCEPT ![l] = v]
    /\ copy' = [copy EXCEPT ![h][l] = NoCopy]
    /\ dirty' = [dirty EXCEPT ![h] = @ \ {l}]

\* clflushopt of the lines in ls: dirty ones are written back, all dropped.
\* (That the lines go one by one adds nothing: Evict can go first.)
Flush(h, ls) ==
    /\ mem' = [l \in Line |-> IF l \in ls \cap dirty[h] THEN copy[h][l] ELSE mem[l]]
    /\ copy' = [copy EXCEPT ![h] = [l \in Line |-> IF l \in ls THEN NoCopy ELSE @[l]]]
    /\ dirty' = [dirty EXCEPT ![h] = @ \ ls]

\* The cache replaces a line.
Evict(h, l) ==
    /\ copy[h][l] # NoCopy
    /\ Flush(h, {l})

\* The hardware prefetcher fetches a line.
Prefetch(h, l) ==
    /\ copy[h][l] = NoCopy
    /\ Load(h, l)
=============================================================================
