------------------------------ MODULE DsaMove -------------------------------
(***************************************************************************)
(* cxl_memory_sharing/dsa_move.c: init_dsa sets up a pool of jobs of the   *)
(* accelerator, dsa_move_data cuts a copy into blocks, gives each to a job *)
(* and waits: whole batches while more than a batch is left, then the      *)
(* tail.  The accelerator works on the jobs in any order, and may refuse   *)
(* or fail any of them.                                                    *)
(***************************************************************************)
EXTENDS Integers, FiniteSets

CONSTANTS
    MaxJobs, MaxBlock, MaxSize  \* bounds: DSA_JOB_NUM, DSA_MOVE_BLOCK, src_size

ASSUME DsaAssumption ==
    MaxJobs \in Nat \ {0} /\ MaxBlock \in Nat \ {0} /\ MaxSize \in Nat

VARIABLES
    dpc,                            \* where the caller is
    job_num, block_size, total,     \* the arguments; total is src_size at the call
    jobs,                           \* jobs that are set up and not finalized
    source,                         \* how far source and dest have moved on
    job, used_job_num,              \* i and used_job_num
    flight,                         \* blocks under way: [job, from, to]
    bad,                            \* jobs that ended with an error
    moved                           \* how often each byte has been copied
dsaArgs == <<job_num, block_size, total>>
dsaVars == <<dpc, dsaArgs, jobs, source, job, used_job_num, flight, bad, moved>>

src_size == total - source
max_move == block_size * job_num

DsaInit ==
    /\ dpc = "start" /\ job_num = 0 /\ block_size = 0 /\ total = 0 /\ jobs = {}
    /\ source = 0 /\ job = 0 /\ used_job_num = 0
    /\ flight = {} /\ bad = {} /\ moved = <<>>

\* The arguments of init_dsa and of the dsa_move_data that follows it.
DsaCall(n, b, s) ==
    /\ dpc = "start"
    /\ job_num' = n /\ block_size' = b /\ total' = s
    /\ moved' = [k \in 0 .. s - 1 |-> 0]
    /\ dpc' = "init"
    /\ UNCHANGED <<jobs, source, job, used_job_num, flight, bad>>

\* init_dsa, a job at a time; a failure finalizes those that were set up.
InitJob ==
    /\ dpc = "init"
    /\ \/ /\ jobs' = jobs \cup {Cardinality(jobs)}
          /\ dpc' = IF Cardinality(jobs') = job_num THEN "while" ELSE "init"
       \/ jobs' = {} /\ dpc' = "null"
    /\ UNCHANGED <<dsaArgs, source, job, used_job_num, flight, bad, moved>>

SlipWhile ==                            \* while (src_size > 0)
    /\ dpc = "while"
    /\ dpc' = IF src_size > 0 THEN "batch" ELSE "tail"
    /\ job' = 0
    /\ UNCHANGED <<dsaArgs, jobs, source, used_job_num, flight, bad, moved>>

While ==
    /\ dpc = "while"
    /\ dpc' = IF src_size > max_move THEN "batch" ELSE "tail"
    /\ job' = 0
    /\ UNCHANGED <<dsaArgs, jobs, source, used_job_num, flight, bad, moved>>

\* dml_submit_job of the next n bytes with job i.
Submit(n) ==
    /\ flight' = flight \cup {[job |-> job, from |-> source, to |-> source + n - 1]}
    /\ source' = source + n
    /\ UNCHANGED <<dsaArgs, jobs, bad, moved>>

BatchSubmit ==
    /\ dpc = "batch"
    /\ Submit(block_size)
    /\ IF job + 1 < job_num THEN job' = job + 1 /\ dpc' = dpc
                            ELSE job' = 0 /\ dpc' = "batchwait"
    /\ UNCHANGED used_job_num

\* dml_wait_job returns when the job has ended.
SlipWaited == job \notin {f.job : f \in flight}     \* the status is not looked at

Waited == job \notin {f.job : f \in flight} /\ job \notin bad

BatchWait ==
    /\ dpc = "batchwait" /\ Waited
    /\ IF job + 1 < job_num THEN job' = job + 1 /\ dpc' = dpc
                            ELSE job' = 0 /\ dpc' = "while"
    /\ UNCHANGED <<dsaArgs, jobs, source, used_job_num, flight, bad, moved>>

\* The blocks of the tail but for the last one.
TailSubmit ==
    /\ dpc = "tail"
    /\ IF job < job_num /\ src_size > block_size
       THEN /\ Submit(block_size)
            /\ job' = job + 1
            /\ dpc' = IF src_size' < block_size THEN "last" ELSE "tail"
       ELSE /\ dpc' = "last"
            /\ UNCHANGED <<dsaArgs, jobs, source, job, flight, bad, moved>>
    /\ UNCHANGED used_job_num

LastSubmit ==
    /\ dpc = "last"
    /\ IF src_size > 0
       THEN Submit(src_size) /\ used_job_num' = job + 1
       ELSE used_job_num' = job /\ UNCHANGED <<dsaArgs, jobs, source, flight, bad, moved>>
    /\ job' = 0 /\ dpc' = "wait"

TailWait ==
    /\ dpc = "wait"
    /\ IF job < used_job_num THEN Waited /\ job' = job + 1 /\ dpc' = dpc
                             ELSE job' = job /\ dpc' = "done"
    /\ UNCHANGED <<dsaArgs, jobs, source, used_job_num, flight, bad, moved>>

\* goto dml_error: a submit is refused, or the job that is waited for ended
\* with an error.  All jobs are finalized, and the caller is not told.
DmlError ==
    /\ \/ dpc = "batch"
       \/ dpc = "tail" /\ job < job_num /\ src_size > block_size
       \/ dpc = "last" /\ src_size > 0
       \/ dpc = "batchwait" /\ job \in bad
       \/ dpc = "wait" /\ job < used_job_num /\ job \in bad
    /\ dpc' = "failed" /\ jobs' = {}
    /\ UNCHANGED <<dsaArgs, source, job, used_job_num, flight, bad, moved>>

\* The accelerator ends a job: its block is copied, or the job has failed.
Accelerator(f) ==
    /\ f \in flight
    /\ flight' = flight \ {f}
    /\ \/ /\ moved' = [k \in DOMAIN moved |-> moved[k] + IF k \in f.from .. f.to THEN 1 ELSE 0]
          /\ bad' = bad
       \/ moved' = moved /\ bad' = bad \cup {f.job}
    /\ UNCHANGED <<dpc, dsaArgs, jobs, source, job, used_job_num>>

DsaNext ==
    \/ \E n \in 1 .. MaxJobs, b \in 1 .. MaxBlock, s \in 0 .. MaxSize : DsaCall(n, b, s)
    \/ InitJob \/ While \/ BatchSubmit \/ BatchWait \/ TailSubmit \/ LastSubmit
    \/ TailWait \/ DmlError \/ (\E f \in flight : Accelerator(f))

DsaSpec == DsaInit /\ [][DsaNext]_dsaVars

-----------------------------------------------------------------------------
\* However the size falls on the blocks and the jobs, a block is only ever
\* given to a job of the pool that is not under way with another block, and no
\* block reaches past the end of the source.
JobsInPool ==
    \A f \in flight :
        /\ f.job < job_num
        /\ f.to < total
        /\ \A g \in flight : g.job = f.job => g = f

\* dsa_move_data that returns without an error has moved every byte exactly
\* once and has left nothing under way, whatever the order in which the
\* accelerator worked.  With one job, as the programs are built, nothing is
\* under way after an error either; with more, what was not waited for still is.
MovedOnce ==
    /\ dpc = "done" => flight = {} /\ \A k \in DOMAIN moved : moved[k] = 1
    /\ dpc = "failed" /\ job_num = 1 => flight = {}

-----------------------------------------------------------------------------
(* Why these properties hold: the inductive invariant of their proofs.     *)

Covers(f, k) == f.from <= k /\ k <= f.to

DsaTypeOK ==
    /\ dpc \in {"start", "init", "null", "while", "batch", "batchwait", "tail", "last",
                "wait", "done", "failed"}
    /\ job_num \in Nat /\ block_size \in Nat /\ total \in Nat
    /\ dpc # "start" => job_num > 0 /\ block_size > 0
    /\ source \in 0 .. total /\ job \in 0 .. job_num /\ used_job_num \in 0 .. job_num
    /\ flight \subseteq [job : Nat, from : Nat, to : Nat] /\ bad \subseteq 0 .. job_num - 1
    /\ dpc # "start" => moved \in [0 .. total - 1 -> Nat]

\* What is left fits the jobs that are left: more than a full batch while a
\* batch is submitted, no more than that in the tail.
RestFits ==
    /\ dpc \in {"start", "init", "null"} => source = 0 /\ used_job_num = 0
    /\ dpc \in {"start", "init", "null", "while"} => job = 0
    /\ dpc = "batch" => job < job_num /\ src_size > (job_num - job) * block_size
    /\ dpc = "batchwait" => job < job_num
    /\ dpc \in {"tail", "last"} => src_size <= (job_num - job) * block_size
    /\ dpc \in {"wait", "done"} => source = total /\ job <= used_job_num

OpenJobs == {f.job : f \in flight} \cup bad

\* Only jobs that were given a block and not waited for are under way or have
\* failed.
JobsWaitedFor ==
    /\ dpc \in {"start", "init", "null", "while", "done"} => OpenJobs = {}
    /\ dpc \in {"batch", "tail", "last"} => \A j \in OpenJobs : j < job
    /\ dpc = "batchwait" => \A j \in OpenJobs : job <= j
    /\ dpc = "wait" => \A j \in OpenJobs : job <= j /\ j < used_job_num
    /\ \A f \in flight : f.job < job_num /\ f.job \notin bad
    /\ \A f, g \in flight : f.job = g.job => f = g
    /\ dpc = "failed" /\ job_num = 1 => flight = {}

\* A byte in front of source is in one block under way and not yet moved, or in
\* none and moved, unless a job has failed.
BytesKnown ==
    /\ \A f \in flight : f.to < source
    /\ \A f, g \in flight, k \in 0 .. total - 1 : Covers(f, k) /\ Covers(g, k) => f = g
    /\ dpc # "start" =>
          \A k \in 0 .. total - 1 :
              IF source <= k \/ \E f \in flight : Covers(f, k)
              THEN moved[k] = 0 ELSE moved[k] = 1 \/ bad # {}

DsaInv == DsaTypeOK /\ RestFits /\ JobsWaitedFor /\ BytesKnown
=============================================================================
