--------------------------- MODULE RandNamespace ----------------------------
(***************************************************************************)
(* rand_namespace/rand_namespace.cpp: files are created in a namespace     *)
(* until no more can be mapped, and each is overwritten with a random page *)
(* by two threads, write_4k_num giving each of them a base and a number of *)
(* pages; three passes over the same files.  Addresses are in bytes.       *)
(***************************************************************************)
EXTENDS Integers, FiniteSets

CONSTANTS
    PageBytes,      \* 4096
    MaxPages,       \* bound: pages of a mapping
    MaxFiles        \* bound: files that fit in the namespace

ASSUME RandAssumption ==
    PageBytes \in Nat \ {0} /\ MaxPages \in Nat \ {0} /\ MaxFiles \in Nat

Threads == 2
Passes == 3

VARIABLES
    npc,            \* where main is
    pages, fits,    \* mapped_len/4096, and how many files fit
    pass, file,     \* j and i of main
    writers,        \* the threads: [id, pass, file, base, left]
    trouble,        \* a thread could not be created
    runs            \* runs[f][k]: how often byte k of file f was written
randVars == <<npc, pages, fits, pass, file, writers, trouble, runs>>

RandInit ==
    /\ npc = "start" /\ pages = 0 /\ fits = 0 /\ pass = 0 /\ file = 0
    /\ writers = {} /\ trouble = FALSE /\ runs = <<>>

RandStart(n, f) ==
    /\ npc = "start"
    /\ pages' = n /\ fits' = f
    /\ runs' = [g \in 0 .. f - 1 |-> [k \in 0 .. n * PageBytes - 1 |-> 0]]
    /\ npc' = "map"
    /\ UNCHANGED <<pass, file, writers, trouble>>

\* pmem_map_file of tmpfile<i>; when it fails the pass is over, and at the end
\* of main the threads that nobody joined end too.
MapFile ==
    /\ npc = "map"
    /\ IF file < fits
       THEN npc' = "fill" /\ UNCHANGED <<pass, file, writers>>
       ELSE /\ file' = 0 /\ pass' = pass + 1
            /\ npc' = IF pass' = Passes THEN "done" ELSE "map"
            /\ writers' = IF pass' = Passes THEN {} ELSE writers
    /\ UNCHANGED <<pages, fits, trouble, runs>>

\* thread_gen_rand, generate_rand: one thread fills the page and is joined; if
\* it cannot be created the page stays as malloc returned it.
GenRand ==
    /\ npc = "fill"
    /\ trouble' \in {trouble, TRUE}
    /\ npc' = "create"
    /\ UNCHANGED <<pages, fits, pass, file, writers, runs>>

Mine == {w \in writers : w.file = file /\ w.pass = pass}

\* The pages of thread i.
ShareOf(i) == IF i = Threads - 1 THEN pages - (i * pages) \div Threads
                                 ELSE pages \div Threads

\* base+i*(size_of_4k/threads): a number of pages added to a char pointer.
BaseOf(i) == i * (pages \div Threads)

CreateWriter ==
    LET i == Cardinality(Mine) IN
    /\ npc = "create"
    /\ writers' = writers \cup {[id |-> i, pass |-> pass, file |-> file,
                                 base |-> BaseOf(i), left |-> ShareOf(i)]}
    /\ npc' = IF i + 1 = Threads THEN "join" ELSE "create"
    /\ UNCHANGED <<pages, fits, pass, file, trouble, runs>>

\* pthread_create fails: write_4k_num returns and leaves the first thread alone.
CreateFails ==
    /\ npc = "create"
    /\ trouble' = TRUE
    /\ file' = file + 1 /\ npc' = "map"
    /\ UNCHANGED <<pages, fits, pass, writers, runs>>

\* thread_write_buffer: pmem_memcpy of a page.
WritePage(w) ==
    /\ w.left > 0
    /\ runs' = [runs EXCEPT ![w.file] = [k \in DOMAIN @ |->
                  @[k] + IF k \in w.base .. w.base + PageBytes - 1 THEN 1 ELSE 0]]
    /\ writers' = (writers \ {w})
          \cup {[w EXCEPT !.base = @ + PageBytes, !.left = @ - 1]}
    /\ UNCHANGED <<npc, pages, fits, pass, file, trouble>>

SlipJoin ==                             \* only the last thread is joined
    /\ npc = "join" /\ \A w \in Mine : w.id = Threads - 1 => w.left = 0
    /\ writers' = {w \in writers : w \in Mine => w.left > 0}
    /\ file' = file + 1 /\ npc' = "map"
    /\ UNCHANGED <<pages, fits, pass, trouble, runs>>

Join ==
    /\ npc = "join" /\ \A w \in Mine : w.left = 0
    /\ writers' = writers \ Mine
    /\ file' = file + 1 /\ npc' = "map"
    /\ UNCHANGED <<pages, fits, pass, trouble, runs>>

RandNext ==
    \/ \E n \in 1 .. MaxPages, f \in 0 .. MaxFiles : RandStart(n, f)
    \/ MapFile \/ GenRand \/ CreateWriter \/ CreateFails \/ Join
    \/ \E w \in writers : WritePage(w)

RandSpec == RandInit /\ [][RandNext]_randVars

-----------------------------------------------------------------------------
\* What main announces: when it ends, and every thread could be created, each
\* byte of each file has been overwritten in every pass.  (It has not: base is
\* a char pointer, and the second slice begins size_of_4k/2 bytes, not pages,
\* behind the first.)
AllOverwritten ==
    npc = "done" /\ ~trouble =>
        \A f \in DOMAIN runs : \A k \in DOMAIN runs[f] : runs[f][k] >= Passes

HalfEnd == (pages \div 2) * PageBytes

\* What holds all the same.  No thread ever writes behind its mapping, not even
\* one that main has left alone; if every thread could be created none outlives
\* the call of write_4k_num that made it, so that no write to a file is missing
\* when main goes on; and at the end at least the first half of every file has
\* been overwritten in every pass.
HalfOverwritten ==
    /\ \A w \in writers : w.base + w.left * PageBytes <= pages * PageBytes
    /\ ~trouble => \A w \in writers : /\ npc \in {"create", "join"}
                                      /\ w.file = file /\ w.pass = pass
    /\ npc = "done" /\ ~trouble =>
          \A f \in DOMAIN runs : \A k \in 0 .. HalfEnd - 1 : runs[f][k] >= Passes

-----------------------------------------------------------------------------
(* Why this holds: the inductive invariant of its proof.                   *)

RandTypeOK ==
    /\ npc \in {"start", "map", "fill", "create", "join", "done"}
    /\ pages \in Nat /\ fits \in Nat /\ pass \in Nat /\ file \in Nat
    /\ npc = "start" => writers = {} /\ pages = 0 /\ pass = 0 /\ file = 0
    /\ npc \in {"fill", "create", "join"} => file < fits
    /\ npc = "done" => pass = Passes /\ file = 0
    /\ file <= fits
    /\ writers \subseteq [id : {0, 1}, pass : Nat, file : Nat, base : Nat, left : Nat]
    /\ npc # "start" => runs \in [0 .. fits - 1 -> [0 .. pages * PageBytes - 1 -> Nat]]

\* A thread is somewhere in its slice.
InSlice(w) ==
    /\ w.left <= ShareOf(w.id)
    /\ w.base = BaseOf(w.id) + (ShareOf(w.id) - w.left) * PageBytes

\* Threads that nobody joined are those of an earlier file or pass; there are
\* none without trouble.
ThreadsKnown ==
    /\ \A w \in writers : InSlice(w) /\ w.file < fits
    /\ \A v, w \in writers : v.id = w.id /\ v.pass = w.pass /\ v.file = w.file => v = w
    /\ \A w \in writers : \/ w.pass < pass
                          \/ w.pass = pass /\ w.file < file
                          \/ w \in Mine /\ npc \in {"create", "join"}
    /\ ~trouble => \A w \in writers : w \in Mine
    /\ npc = "create" => \A w \in Mine : w.id = 0
    /\ npc = "join" => \A i \in {0, 1} : \E w \in Mine : w.id = i

\* Bytes of the first half have been written in every pass so far, those of
\* this file also in this pass once a thread has gone past them.
BytesWritten ==
    npc # "start" /\ ~trouble => \A f \in 0 .. fits - 1, k \in 0 .. HalfEnd - 1 :
        /\ runs[f][k] >= pass
        /\ f < file => runs[f][k] >= pass + 1
        /\ f = file /\ (\E w \in Mine : BaseOf(w.id) <= k /\ k < w.base) =>
              runs[f][k] >= pass + 1

RandInv == RandTypeOK /\ ThreadsKnown /\ BytesWritten
=============================================================================
