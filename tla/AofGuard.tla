------------------------------ MODULE AofGuard ------------------------------
(***************************************************************************)
(* The write-ahead-log accelerator of wal_accel/src/aofguard.c.            *)
(*                                                                         *)
(* Every byte written to a guarded file is appended to the file (page      *)
(* cache only) and copied into a ring buffer in persistent memory, whose   *)
(* 8-byte words meta.fsync_len_and_start_block and meta.buf_end delimit    *)
(* the bytes the file may still lose.  A background thread fsyncs the file *)
(* and lets whole blocks of the ring be reused.  When the file is opened   *)
(* again it is cut back to its fsynced length and the ring is replayed.    *)
(*                                                                         *)
(* The state is split into what survives a power failure (file[1..synced], *)
(* nvm, meta, buf_end, data), what survives the process only (the rest of  *)
(* file), and the volatile struct aofguard, its semaphores and thread.     *)
(* log and damaged are history variables: the bytes whose buf_end store    *)
(* was done, and whether the process stopped in a window in which the code *)
(* does not protect them (LossWindow).                                     *)
(***************************************************************************)
EXTENDS Integers, Sequences

CONSTANTS
    BlockSize,      \* BLOCK_SIZE
    BlockCount,     \* nvm_size / BLOCK_SIZE
    MaxBlocks,      \* block numbers the 16-bit field of the mixed word can hold
    Byte,           \* what the application writes
    Zero,           \* a byte of a fresh nvm file, or of a block the disk lost
    Records,        \* the buffers the application passes to write()
    Files,          \* fsynced contents a file may have before it is guarded
    AppendModes,    \* whether open() is called with O_APPEND
    MaxLog,         \* bound: length of the log
    MaxFile         \* bound: length of the file

Capacity == BlockCount * BlockSize
Cell == Byte \cup {Zero}
Pos == 0 .. Capacity - 1

ASSUME GeometryAssumption ==
    /\ BlockSize \in Nat \ {0}
    /\ BlockCount \in Nat
    /\ MaxBlocks \in Nat
    /\ 2 <= BlockCount              \* aofguard_init refuses anything else
    /\ BlockCount <= MaxBlocks

ASSUME DataAssumption ==
    /\ Zero \notin Byte
    /\ Records \subseteq Seq(Byte) \ {<<>>}      \* write() returns early on 0
    /\ Files \subseteq Seq(Byte)
    /\ AppendModes \subseteq BOOLEAN
    /\ MaxLog \in Nat
    /\ MaxFile \in Nat

VARIABLES
    file,           \* the file as read() sees it
    synced,         \* length of the prefix of file that is on the disk
    pos, append,    \* file offset and O_APPEND flag of the descriptor
    nvm,            \* the nvm file: "absent", "short" (size 0) or "ok"
    meta,           \* *meta.fsync_len_and_start_block
    buf_end,        \* *meta.buf_end
    data,           \* buffer.data
    fsync_len, start, len,      \* file.fsync_len, buffer.start, buffer.len
    block_count, sem_start, sem_done,       \* afsync
    thread, target, \* afsync_thread and the file length its fsync covers
    pc, rec,        \* the application's place in the code and its buffer
    log, damaged    \* history

diskVars == <<file, synced>>
fdVars == <<pos, append>>
nvmVars == <<nvm, meta, buf_end, data>>
bufVars == <<fsync_len, start, len>>
afsyncVars == <<block_count, sem_start, sem_done, thread, target>>
appVars == <<pc, rec>>
history == <<log, damaged>>
vars == <<diskVars, fdVars, nvmVars, bufVars, afsyncVars, appVars, history>>

Session == {"idle", "check", "fsync", "file", "copy", "copy2", "finish"}
Replaying == {"replay", "replay2"}
Setup == {"create", "meta", "end"}

-----------------------------------------------------------------------------
(* Arithmetic of the ring and of the metadata words.                       *)

\* (Slips of the code, named Slip..., show that the properties can fail.)
SlipRingForward(val, addition) ==       \* > for >=
    IF val + addition > Capacity THEN val + addition - Capacity
                                 ELSE val + addition

RingForward(val, addition) ==
    IF val + addition >= Capacity THEN val + addition - Capacity
                                  ELSE val + addition

MakeMixedMeta(flen, s) ==
    [fsync_len |-> flen, start_block |-> (s \div BlockSize) % MaxBlocks]

GetBufStart(m) == m.start_block * BlockSize

SlipLenBetween(s, e) == IF e >= s THEN e - s ELSE Capacity - s

\* buffer.len as aofguard_init computes it from the two words.
LenBetween(s, e) == IF e >= s THEN e - s ELSE Capacity + e - s

\* n bytes of the ring from position s on.
RingBytes(s, n) == [i \in 1 .. n |-> data[RingForward(s, i - 1)]]

-----------------------------------------------------------------------------
(* The file.                                                               *)

WritePos == IF append THEN Len(file) ELSE pos

Overwrite(f, at, d) ==
    [i \in 1 .. (IF at + Len(d) > Len(f) THEN at + Len(d) ELSE Len(f)) |->
        IF at < i /\ i <= at + Len(d) THEN d[i - at] ELSE f[i]]

\* write(2): only the page cache changes.  (A byte of the fsynced prefix can
\* only be overwritten without O_APPEND; it then counts as fsynced.)
SyscallWrite(d) ==
    /\ file' = Overwrite(file, WritePos, d)
    /\ UNCHANGED synced
    /\ pos' = WritePos + Len(d)
    /\ UNCHANGED append

-----------------------------------------------------------------------------
Init ==
    /\ file \in Files
    /\ synced = Len(file)
    /\ pos = 0 /\ append = FALSE
    /\ nvm = "absent"
    /\ meta = [fsync_len |-> 0, start_block |-> 0]
    /\ buf_end = 0
    /\ data = [i \in Pos |-> Zero]
    /\ fsync_len = 0 /\ start = 0 /\ len = 0
    /\ block_count = 0 /\ sem_start = 0 /\ sem_done = 0
    /\ thread = "none" /\ target = 0
    /\ pc = "closed" /\ rec = <<>>
    /\ log = file /\ damaged = FALSE

-----------------------------------------------------------------------------
(* aofguard_init.                                                          *)

\* The nvm file does not exist yet: it is created, of size 0.
CreateNvmFile ==
    /\ pc = "closed" /\ nvm = "absent"
    /\ append' \in AppendModes
    /\ nvm' = "short"
    /\ pc' = "create"
    /\ UNCHANGED <<diskVars, pos, meta, buf_end, data, bufVars, afsyncVars,
                   rec, history>>

\* ftruncate extends it with zeros.
SizeNvmFile ==
    /\ pc = "create"
    /\ nvm' = "ok"
    /\ pc' = "meta"
    /\ UNCHANGED <<diskVars, fdVars, meta, buf_end, data, bufVars,
                   afsyncVars, rec, history>>

\* inject.c, rename(): a file of another name replaces the guarded one and
\* the ring of the new name is reset.  The descriptor wrote all of the file.
\* If the nvm file has the wrong size aofguard_init fails.
\* (aofguard_init takes the file's length as fsync_len without an fsync: that
\* the program has fsynced the file before, as here and in Init, is assumed.)
RenameOver(f) ==
    /\ pc = "closed"
    /\ file' = f /\ synced' = Len(f)
    /\ log' = f /\ damaged' = FALSE
    /\ append' \in AppendModes /\ pos' = Len(f)
    /\ CASE nvm = "absent" -> nvm' = "short" /\ pc' = "create"
         [] nvm = "short"  -> nvm' = nvm /\ pc' = "failed"
         [] nvm = "ok"     -> nvm' = nvm /\ pc' = "meta"
    /\ UNCHANGED <<meta, buf_end, data, bufVars, afsyncVars, rec>>

\* First store of a new or reset ring.
ResetMeta ==
    /\ pc = "meta"
    /\ fsync_len' = Len(file) /\ start' = 0 /\ len' = 0
    /\ meta' = MakeMixedMeta(Len(file), 0)
    /\ pc' = "end"
    /\ UNCHANGED <<diskVars, fdVars, nvm, buf_end, data, afsyncVars, rec,
                   history>>

\* Every successful aofguard_init ends with the two semaphores at zero and
\* a new afsync thread, which waits for sem_start.
StartAfsync ==
    /\ block_count' = 0 /\ sem_start' = 0 /\ sem_done' = 0
    /\ thread' = "waiting" /\ target' = 0
    /\ pc' = "idle"

\* Second store of a new or reset ring.
ResetEnd ==
    /\ pc = "end"
    /\ buf_end' = 0
    /\ StartAfsync
    /\ UNCHANGED <<diskVars, fdVars, nvm, meta, data, bufVars, rec, history>>

Broken ==
    \/ nvm = "short"
    \/ GetBufStart(meta) >= Capacity
    \/ buf_end >= Capacity
    \/ Len(file) < meta.fsync_len

\* open() returns -1: the ring and the file contradict each other.
OpenFails ==
    /\ pc = "closed" /\ nvm # "absent" /\ Broken
    /\ pc' = "failed"
    /\ UNCHANGED <<diskVars, fdVars, nvmVars, bufVars, afsyncVars, rec,
                   history>>

SlipOpenExisting ==                     \* without the ftruncate
    /\ pc = "closed" /\ nvm = "ok" /\ ~Broken
    /\ append' \in AppendModes /\ pos' = 0
    /\ fsync_len' = meta.fsync_len
    /\ start' = GetBufStart(meta)
    /\ len' = LenBetween(GetBufStart(meta), buf_end)
    /\ pc' = "replay"
    /\ UNCHANGED <<diskVars, nvmVars, afsyncVars, rec, history>>

\* The ring exists: its words are loaded and the file is cut back.
OpenExisting ==
    /\ pc = "closed" /\ nvm = "ok" /\ ~Broken
    /\ append' \in AppendModes /\ pos' = 0
    /\ fsync_len' = meta.fsync_len
    /\ start' = GetBufStart(meta)
    /\ len' = LenBetween(GetBufStart(meta), buf_end)
    /\ file' = SubSeq(file, 1, meta.fsync_len)
    /\ synced' = IF synced > meta.fsync_len THEN meta.fsync_len ELSE synced
    /\ pc' = "replay"
    /\ UNCHANGED <<nvmVars, afsyncVars, rec, history>>

\* Bytes of the ring before its physical end.
Front(s, n) == IF s + n <= Capacity THEN n ELSE Capacity - s

ReplayFront ==
    /\ pc = "replay"
    /\ SyscallWrite(RingBytes(start, Front(start, len)))
    /\ IF start + len <= Capacity
       THEN StartAfsync
       ELSE pc' = "replay2" /\ UNCHANGED afsyncVars
    /\ UNCHANGED <<nvmVars, bufVars, rec, history>>

ReplayBack ==
    /\ pc = "replay2"
    /\ SyscallWrite(RingBytes(0, len - Front(start, len)))
    /\ StartAfsync
    /\ UNCHANGED <<nvmVars, bufVars, rec, history>>

\* A write(2) of the replay fails or stops after n bytes: open() returns -1.
ReplayFails(n) ==
    /\ \/ pc = "replay" /\ n < Front(start, len)
          /\ SyscallWrite(RingBytes(start, n))
       \/ pc = "replay2" /\ n < len - Front(start, len)
          /\ SyscallWrite(RingBytes(0, n))
    /\ pc' = "failed"
    /\ fsync_len' = 0 /\ start' = 0 /\ len' = 0
    /\ UNCHANGED <<nvmVars, afsyncVars, rec, history>>

-----------------------------------------------------------------------------
(* aofguard_write.                                                         *)

UpdateAfterFsync(n) ==
    IF n = 0
    THEN UNCHANGED <<bufVars, meta>>
    ELSE /\ start' = RingForward(start, n * BlockSize)
         /\ len' = len - n * BlockSize
         /\ fsync_len' = fsync_len + n * BlockSize
         /\ meta' = MakeMixedMeta(fsync_len + n * BlockSize,
                                  RingForward(start, n * BlockSize))

SlipTakeDone ==                         \* block_count is not reset
    /\ block_count > 0 /\ sem_done = 1
    /\ UpdateAfterFsync(block_count)
    /\ sem_done' = 0
    /\ UNCHANGED <<block_count, sem_start, thread, target>>

\* sem_done is there: the fsync that was asked for covers block_count blocks.
TakeDone ==
    /\ block_count > 0 /\ sem_done = 1
    /\ UpdateAfterFsync(block_count)
    /\ block_count' = 0 /\ sem_done' = 0
    /\ UNCHANGED <<sem_start, thread, target>>

\* handle_afsync_if_finish, at the head of every write.
HandleAfsyncIfFinish ==
    IF block_count > 0 /\ sem_done = 1
    THEN TakeDone
    ELSE UNCHANGED <<bufVars, meta, afsyncVars>>

\* A descriptor that was not opened with O_APPEND is only read from.
WriteCall(r) ==
    /\ pc = "idle" /\ append
    /\ Len(log) + Len(r) <= MaxLog /\ Len(file) + Len(r) <= MaxFile
    /\ HandleAfsyncIfFinish
    /\ rec' = r
    /\ pc' = "check"
    /\ UNCHANGED <<diskVars, fdVars, nvm, buf_end, data, history>>

Fits == len + Len(rec) <= Capacity
SlipTooBig == Len(rec) > Capacity
TooBig == (len % BlockSize) + Len(rec) > Capacity

WriteFits ==
    /\ pc = "check" /\ Fits
    /\ pc' = "file"
    /\ UNCHANGED <<diskVars, fdVars, nvmVars, bufVars, afsyncVars, rec,
                   history>>

Return == pc' = "idle" /\ rec' = <<>>

\* "param <len> is too big to write atomicly!"
WriteTooBig ==
    /\ pc = "check" /\ ~Fits /\ TooBig
    /\ Return
    /\ UNCHANGED <<diskVars, fdVars, nvmVars, bufVars, afsyncVars, history>>

\* wait_afsync_done; it blocks while the thread has not posted sem_done.
WaitAfsyncDone ==
    /\ pc = "check" /\ ~Fits /\ ~TooBig
    /\ \/ block_count = 0 /\ UNCHANGED <<bufVars, meta, afsyncVars>>
       \/ TakeDone
    /\ pc' = "fsync"
    /\ UNCHANGED <<diskVars, fdVars, nvm, buf_end, data, rec, history>>

SlipDoFsync ==                          \* the length is stored, FSYNC forgotten
    /\ pc = "fsync"
    /\ IF Fits
       THEN UNCHANGED <<bufVars, meta>>
       ELSE UpdateAfterFsync(len \div BlockSize)
    /\ pc' = "file"
    /\ UNCHANGED <<diskVars, fdVars, nvm, buf_end, data, afsyncVars, rec,
                   history>>

\* do_fsync, only if the blocks the thread fsynced are not enough.
DoFsync ==
    /\ pc = "fsync"
    /\ IF Fits
       THEN UNCHANGED <<synced, bufVars, meta>>
       ELSE synced' = Len(file) /\ UpdateAfterFsync(len \div BlockSize)
    /\ pc' = "file"
    /\ UNCHANGED <<file, fdVars, nvm, buf_end, data, afsyncVars, rec,
                   history>>

DoFsyncFails ==
    /\ pc = "fsync" /\ ~Fits
    /\ Return
    /\ UNCHANGED <<diskVars, fdVars, nvmVars, bufVars, afsyncVars, history>>

\* The file no longer is fsync_len bytes followed by the ring's: an earlier
\* write(2) was cut short and its bytes were left in the file.
Misaligned == Len(file) # fsync_len + len

WriteFile ==
    /\ pc = "file"
    /\ SyscallWrite(rec)
    /\ damaged' = (damaged \/ Misaligned)
    /\ pc' = "copy"
    /\ UNCHANGED <<nvmVars, bufVars, afsyncVars, rec, log>>

\* write(2) fails or stops after n bytes.
WriteFileFails(n) ==
    /\ pc = "file" /\ n < Len(rec)
    /\ SyscallWrite(SubSeq(rec, 1, n))
    /\ Return
    /\ UNCHANGED <<nvmVars, bufVars, afsyncVars, history>>

RingBufEnd == RingForward(start, len)

FrontOfRec == Front(RingBufEnd, Len(rec))

\* The ring once the bytes of rec from the first-th on are copied to n
\* positions from at on, if only those in done have reached the medium.
Copied(first, n, at, done) ==
    [i \in Pos |-> IF at <= i /\ i < at + n /\ i \in done
                   THEN rec[first + i - at] ELSE data[i]]

CopyFront ==
    /\ pc = "copy"
    /\ data' = Copied(1, FrontOfRec, RingBufEnd, Pos)
    /\ pc' = IF FrontOfRec = Len(rec) THEN "finish" ELSE "copy2"
    /\ UNCHANGED <<diskVars, fdVars, nvm, meta, buf_end, bufVars, afsyncVars,
                   rec, history>>

SlipCopyBack ==                         \* data for data + front_sz
    /\ pc = "copy2"
    /\ data' = Copied(1, Len(rec) - FrontOfRec, 0, Pos)
    /\ pc' = "finish"
    /\ UNCHANGED <<diskVars, fdVars, nvm, meta, buf_end, bufVars, afsyncVars,
                   rec, history>>

CopyBack ==
    /\ pc = "copy2"
    /\ data' = Copied(FrontOfRec + 1, Len(rec) - FrontOfRec, 0, Pos)
    /\ pc' = "finish"
    /\ UNCHANGED <<diskVars, fdVars, nvm, meta, buf_end, bufVars, afsyncVars,
                   rec, history>>

\* The store to meta.buf_end makes the record part of the log; the thread is
\* woken if it is idle and a block is full.
FinishWrite ==
    /\ pc = "finish"
    /\ len' = len + Len(rec)
    /\ buf_end' = RingForward(start, len + Len(rec))
    /\ log' = log \o rec
    /\ IF len' >= BlockSize /\ block_count = 0
       THEN /\ block_count' = len' \div BlockSize
            /\ sem_start' = sem_start + 1
       ELSE UNCHANGED <<block_count, sem_start>>
    /\ Return
    /\ UNCHANGED <<diskVars, fdVars, nvm, meta, data, fsync_len, start,
                   sem_done, thread, target, damaged>>

-----------------------------------------------------------------------------
(* afsync_thread.                                                          *)

\* sem_wait(sem_start), then FSYNC: it covers what the file holds now.
AfsyncBegin ==
    /\ thread = "waiting" /\ sem_start > 0
    /\ sem_start' = sem_start - 1
    /\ thread' = "syncing" /\ target' = Len(file)
    /\ UNCHANGED <<diskVars, fdVars, nvmVars, bufVars, block_count, sem_done,
                   appVars, history>>

SlipAfsyncDone ==                       \* without the sem_post
    /\ thread = "syncing"
    /\ synced' = IF synced < target THEN target ELSE synced
    /\ thread' = "waiting" /\ target' = 0
    /\ UNCHANGED <<file, fdVars, nvmVars, bufVars, block_count, sem_start,
                   sem_done, appVars, history>>

AfsyncDone ==
    /\ thread = "syncing"
    /\ synced' = IF synced < target THEN target ELSE synced
    /\ sem_done' = sem_done + 1
    /\ thread' = "waiting" /\ target' = 0
    /\ UNCHANGED <<file, fdVars, nvmVars, bufVars, block_count, sem_start,
                   appVars, history>>

\* FSYNC fails: the thread returns and nobody posts sem_done any more.
AfsyncFails ==
    /\ thread = "syncing"
    /\ thread' = "dead" /\ target' = 0
    /\ UNCHANGED <<diskVars, fdVars, nvmVars, bufVars, block_count,
                   sem_start, sem_done, appVars, history>>

-----------------------------------------------------------------------------
(* Close, process death and power failure.                                 *)

\* Stopping here, the words in the nvm file do not describe the log:
\* - a full ring has buf_end = start, which aofguard_init reads as empty;
\* - between the creation (or the rename) and the first store, the words are
\*   zero (or those of the file that was replaced);
\* - between the two stores of a reset, buf_end is that of the old ring.
LossWindow ==
    \/ pc \in Session /\ len = Capacity
    \/ /\ pc = "meta"
       /\ ~(meta.fsync_len = Len(file) /\ buf_end = GetBufStart(meta))
    \/ pc = "end" /\ buf_end # 0

\* Everything in the process's memory is gone.
Stop ==
    /\ pos' = 0 /\ append' = FALSE
    /\ fsync_len' = 0 /\ start' = 0 /\ len' = 0
    /\ block_count' = 0 /\ sem_start' = 0 /\ sem_done' = 0
    /\ thread' = "none" /\ target' = 0
    /\ pc' = "closed" /\ rec' = <<>>
    /\ damaged' = (damaged \/ LossWindow)
    /\ UNCHANGED <<nvm, meta, buf_end, log>>

\* A copy that was going on may have left any of its bytes in the ring.
TornCopy(first, n, at) ==
    \E done \in SUBSET (at .. at + n - 1) : data' = Copied(first, n, at, done)

TornData ==
    CASE pc = "copy" -> TornCopy(1, FrontOfRec, RingBufEnd)
      [] pc = "copy2" -> TornCopy(FrontOfRec + 1, Len(rec) - FrontOfRec, 0)
      [] OTHER -> data' = data

\* close(): aofguard_deinit cancels the thread, whatever it is doing.
Deinit ==
    /\ pc = "idle"
    /\ Stop
    /\ UNCHANGED <<diskVars, data>>

Kill ==
    /\ pc # "closed"
    /\ Stop
    /\ TornData
    /\ UNCHANGED diskVars

\* The file keeps at least its fsynced prefix; of the rest the disk may have
\* any length, as written or zero-filled.
PowerFailure ==
    /\ Stop
    /\ TornData
    /\ \E n \in synced .. Len(file), kept \in BOOLEAN :
          /\ file' = [i \in 1 .. n |-> IF i <= synced \/ kept THEN file[i]
                                                             ELSE Zero]
          /\ synced' = n

-----------------------------------------------------------------------------
Open == CreateNvmFile \/ SizeNvmFile \/ ResetMeta \/ ResetEnd \/ OpenFails
        \/ OpenExisting \/ ReplayFront \/ ReplayBack
        \/ (\E n \in 0 .. len : ReplayFails(n))

WriterStep ==
    \/ WriteFits \/ WriteTooBig \/ WaitAfsyncDone \/ DoFsync \/ DoFsyncFails
    \/ WriteFile \/ (\E n \in 0 .. Len(rec) : WriteFileFails(n))
    \/ CopyFront \/ CopyBack \/ FinishWrite

AfsyncStep == AfsyncBegin \/ AfsyncDone \/ AfsyncFails

Next ==
    \/ Open
    \/ \E f \in Files : RenameOver(f)
    \/ \E r \in Records : WriteCall(r)
    \/ WriterStep
    \/ AfsyncStep
    \/ Deinit
    \/ Kill
    \/ PowerFailure

Spec == Init /\ [][Next]_vars

\* The writer's thread and the afsync thread are scheduled.
FairSpec == Spec /\ WF_vars(WriterStep) /\ WF_vars(AfsyncStep)

-----------------------------------------------------------------------------
(* Properties.                                                             *)

\* Every variable has the type of its C counterpart: the words in the nvm
\* file always decode to positions of the ring.
TypeOK ==
    /\ file \in Seq(Cell) /\ synced \in Nat
    /\ pos \in Nat /\ append \in BOOLEAN
    /\ nvm \in {"absent", "short", "ok"}
    /\ meta \in [fsync_len : Nat, start_block : 0 .. BlockCount - 1]
    /\ buf_end \in Pos
    /\ data \in [Pos -> Cell]
    /\ fsync_len \in Nat /\ start \in Pos /\ len \in 0 .. Capacity
    /\ block_count \in 0 .. BlockCount
    /\ sem_start \in {0, 1} /\ sem_done \in {0, 1}
    /\ thread \in {"none", "waiting", "syncing", "dead"} /\ target \in Nat
    /\ pc \in {"closed", "failed"} \cup Setup \cup Replaying \cup Session
    /\ rec \in Seq(Byte)
    /\ log \in Seq(Byte) /\ damaged \in BOOLEAN

\* The fsynced length, ring start and ring length in force: the struct's
\* while it is filled in, what aofguard_init would load otherwise.
Loaded == pc \in Session \cup Replaying
CurFsyncLen == IF Loaded THEN fsync_len ELSE meta.fsync_len
CurStart == IF Loaded THEN start ELSE GetBufStart(meta)
CurLen == IF Loaded THEN len ELSE LenBetween(GetBufStart(meta), buf_end)

\* The log the disk and the persistent memory hold between them.
StoredLog ==
    IF nvm # "ok" \/ pc \in Setup \/ Len(file) < CurFsyncLen
    THEN file
    ELSE SubSeq(file, 1, CurFsyncLen) \o RingBytes(CurStart, CurLen)

\* Outside the loss windows, at every moment - in the middle of a copy, of a
\* fsync, of a replay, after any number of kills and power failures - the
\* fsynced prefix of the file and the ring are exactly the bytes of the
\* writes that completed (aofguard_write, aofguard_init).
Recoverable == ~damaged => StoredLog = log

\* The record of the write() that has not returned, and how far open() is.
Writing == IF pc \in Session \ {"idle"} THEN {rec} ELSE {}
Place == IF pc = "closed" THEN "closed"
         ELSE IF pc \in Setup \cup {"failed"} THEN "opening" ELSE "open"

Promise == INSTANCE DurableLog WITH log <- StoredLog, writing <- Writing,
                                    place <- Place, intact <- ~damaged

\* The same without the history variable: the stored log changes only in one
\* step of a write(), by its record, after which no other step of that call is
\* left, and by a rename of a closed file, which starts a new log.  (That the
\* step is the store to buf_end is in Recoverable.)
ImplementsDurableLog == Promise!Spec

\* The length stored in the nvm file never runs ahead of the disk: a power
\* failure cannot leave a file that aofguard_init calls broken, and cutting
\* the file back to that length never keeps a byte that was not fsynced.
FsyncLenIsDurable ==
    ~damaged /\ nvm = "ok" /\ pc \notin Setup => meta.fsync_len <= synced

\* A session's file starts with the log: once open() has returned, read()
\* sees every byte whose write() completed, whatever happened before.
FileHoldsLog ==
    pc \in Session /\ ~damaged =>
        /\ Len(log) <= Len(file)
        /\ \A i \in 1 .. Len(log) : file[i] = log[i]

\* The request for an fsync is in one place at a time: in sem_start, in the
\* thread, in sem_done, or lost with the thread; and it covers whole blocks
\* that are still in the ring (the assert of update_after_fsync).
AfsyncHandshake ==
    pc \in Session =>
        /\ sem_start + sem_done + (IF thread \in {"syncing", "dead"} THEN 1 ELSE 0)
              = (IF block_count > 0 THEN 1 ELSE 0)
        /\ block_count * BlockSize <= len

\* The assert of aofguard_write: whichever way the code went to make room,
\* the record fits when it is written.
RoomForRecord ==
    pc \in {"file", "copy", "copy2", "finish"} => len + Len(rec) <= Capacity

\* What else the types rest on: the file offset is in the file, the thread
\* and its semaphores exist in a session only, and a writer that fsyncs has
\* room once every block is freed.
SessionShape ==
    /\ pos <= Len(file)
    /\ pc \in Session => thread # "none"
    /\ pc \notin Session => /\ block_count = 0 /\ sem_start = 0 /\ sem_done = 0
                            /\ thread = "none"
    /\ pc = "fsync" => /\ block_count = 0
                       /\ (len % BlockSize) + Len(rec) <= Capacity

TypeInv == TypeOK /\ AfsyncHandshake /\ RoomForRecord /\ SessionShape

-----------------------------------------------------------------------------
(* Why Recoverable holds: the inductive invariant of its proof.            *)

\* The struct agrees with the words in the nvm file, and a descriptor that
\* the ring backs appends.
WordsInForce ==
    /\ pc = "create" => nvm = "short"
    /\ pc \in {"meta", "end"} => nvm = "ok"
    /\ pc = "end" => /\ meta.fsync_len = Len(file) /\ meta.start_block = 0
                     /\ fsync_len = Len(file) /\ start = 0 /\ len = 0
    /\ pc \in Session \cup Replaying => /\ nvm = "ok"
                                        /\ fsync_len = meta.fsync_len
                                        /\ start = GetBufStart(meta)
    /\ pc \in Session => buf_end = RingForward(start, len)
    /\ pc \in Replaying => len = LenBetween(start, buf_end)
    /\ pc \in Session \cup Replaying \cup Setup => append

\* A file that has no ring yet is on the disk and is the log.
UnguardedLog ==
    nvm # "ok" \/ pc \in Setup => log = file /\ synced = Len(file)

\* The first flen bytes of f and n bytes of the ring d from s on make up l.
MakeUp(f, d, flen, s, n, l) ==
    /\ Len(l) = flen + n
    /\ \A i \in 1 .. flen : f[i] = l[i]
    /\ \A i \in 1 .. n : d[RingForward(s, i - 1)] = l[flen + i]

\* The log is the fsynced prefix of the file and the bytes of the ring.
GuardedLog ==
    nvm = "ok" /\ pc \notin Setup =>
        /\ CurFsyncLen <= synced
        /\ MakeUp(file, data, CurFsyncLen, CurStart, CurLen, log)

\* The bytes of the record in progress: all in the file, and as many in the
\* ring as were copied.
RecordInProgress ==
    /\ pc \in {"copy", "copy2", "finish"} =>
          /\ Len(file) = Len(log) + Len(rec)
          /\ \A i \in 1 .. Len(rec) : file[Len(log) + i] = rec[i]
    /\ pc = "copy2" =>
          /\ FrontOfRec # Len(rec)
          /\ \A i \in 1 .. FrontOfRec :
                data[RingForward(start, len + i - 1)] = rec[i]
    /\ pc = "finish" =>
          \A i \in 1 .. Len(rec) : data[RingForward(start, len + i - 1)] = rec[i]

\* How far the replay of the ring has come.
ReplayProgress ==
    /\ pc = "replay" => Len(file) = fsync_len
    /\ pc = "replay2" =>
          /\ start + len > Capacity
          /\ Len(file) = fsync_len + Front(start, len)
          /\ \A i \in 1 .. Front(start, len) : file[fsync_len + i] = log[fsync_len + i]

\* The fsync that was asked for reaches to the end of the blocks it will free.
FsyncCovers ==
    pc \in Session =>
        /\ thread = "syncing" => /\ target <= Len(file)
                                 /\ fsync_len + block_count * BlockSize <= target
        /\ sem_done = 1 => fsync_len + block_count * BlockSize <= synced

LogCore ==
    /\ synced <= Len(file)
    /\ UnguardedLog
    /\ GuardedLog
    /\ FileHoldsLog
    /\ RecordInProgress
    /\ ReplayProgress
    /\ FsyncCovers

LogInv == WordsInForce /\ (~damaged => LogCore)

-----------------------------------------------------------------------------
\* A write() returns, unless the afsync thread died of a failed fsync (then
\* wait_afsync_done waits for ever) or the process stops.
WriteReturns == pc = "check" ~> (pc \in {"idle", "closed"} \/ thread = "dead")

\* What wal_acc.c promises of a write() without fdatasync(): from the moment
\* it completes, what is on the media contains it.  (The ring that is full
\* to the last byte breaks it: its buf_end is its start.)
WriteIsSync ==
    pc = "idle" /\ ~damaged =>
        SubSeq(file, 1, meta.fsync_len)
          \o RingBytes(GetBufStart(meta),
                       LenBetween(GetBufStart(meta), buf_end)) = log
=============================================================================
