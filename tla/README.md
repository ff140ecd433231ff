# Verification of pmem_program in TLA+

The repository is a collection of small programs around persistent memory and
shared CXL memory. They have no common process; what they have in common is that
each keeps some state on a medium that outlives, or is shared between, the
processes that use it, and must leave that medium readable whenever a process
stops, or another host looks. That is what the models are about. Liveness,
crashes, caches and interleavings are in the models; formatting, timing code and
benchmarks are not.

## 1. Inventory

### wal_accel: a write-ahead log that needs no fsync

`libaofguard_inject.so` is preloaded into a program and replaces `open`,
`write`, `fsync`, `close`, `unlink` and `rename`.

| part | state | operations |
| --- | --- | --- |
| `src/aofguard.c` | per guarded file: the file, an nvm file with the words `meta.fsync_len_and_start_block` and `meta.buf_end` and a ring of bytes; in memory `fsync_len`, `start`, `len`, `afsync.block_count`, two semaphores, a thread | `aofguard_init` (create, reset, or load, truncate and replay), `aofguard_write`, the afsync thread, `aofguard_deinit` |
| `src/inject.c` | `fd_table` (name and `struct aofguard` of each descriptor), the nvm directory | the replaced system calls |
| `src/syscall.c`, `src/sha1.c`, `wal_acc.c` | none | wrappers, the name of the nvm file, a timing demo |

Hard: the writer runs beside its afsync thread; the process may be killed and
the machine may lose power inside any copy, fsync, replay or reset; the ring
wraps; `start` is stored as a block number together with the fsynced length in
one word; `rename` and `unlink` change two directories, one after the other.
Correct means: what the disk and the nvm file hold together is the log, at every
moment; a ring is never replayed into another file; a write returns.

### cbs_req: a page cache in persistent memory

`cbs_req_pmem.cpp` keeps an array of 8-byte page metas and 4K pages (`cbs_init`,
`write_req`, `read_req`, `delete_page`), and in memory a table of page ids, the
counts of cached pages, and a stack of free pages rebuilt at every start.
`cbs_req_pmemobj.cpp` keeps an oid per page and a count per block in a libpmemobj
pool and changes them in one transaction per write. `cbs_req_ssd.cpp`,
`cbs_req_pmemblk.cpp`, `cbs_req_pmemkv.cpp` and `cbs_req_memkind.cpp` have no
metadata of their own: a mapped file, a block device, a key per request, a table
of pages in volatile memory.
Hard: an update writes a new page, its meta, then clears the old meta; a crash
may come in between; the free list is maintained by hand in three places; the
libpmemobj and the file variants overwrite pages in place; allocations fail.
Correct means: no page is free and in use, no torn page is handed out, the last
write is what is read, and the medium alone behaves as a store of pages.

### cxl_memory_sharing: incoherent memory shared between hosts

| part | state | operations |
| --- | --- | --- |
| `rw_info.c` | the hosts' caches (hardware) | `cflush`, `cflushopt` |
| `meta_write.c`, `meta_read.c` | a flag line and a block in the shared file | two polling loops |
| `lock_service.c`, `hash_kv.c` | a number per block in a chained hash table; connections | `handle_lock`, the `select` loop |
| `lock.c` | one TCP connection | `writelock`, `readlock`, `releaselock` |
| `lock_write.c`, `lock_read.c` | a buffer | lock, copy, flush, release |
| `dsa_meta_write.c`, `dsa_meta_read.c`, `dsa_move.c` | as above; a pool of jobs of an accelerator | the same loops; `init_dsa`, `dsa_move_data` |
| `crc.c` | none | the checksum that ends every block |

Hard: a cache line may be written back or prefetched at any time; clients die
with a lock, a request or a release under way; the server dies with all locks;
programs restart; an error of the accelerator is printed and otherwise ignored.
Correct means: a reader never uses a mix of two blocks, each announced block is
handed over once, writers exclude everybody else, nobody waits for ever; a flush
covers its range, the accelerator moves every byte once, a checksum is a CRC.

### simple_fifo_queue

`queue_pmemobj.cpp` keeps a linked list in a libpmemobj pool, one command per
run of the program; `queue_aof.cpp` replays an append-only file of commands.
Correct means: a run that is cut short leaves a whole list, or a file that can
be replayed; what leaves the queue is what entered first.

### The rest

`rand_namespace` overwrites the files of a namespace with two threads, three
times. `cpi_of_sfence`, `atomic_after_clwb_sfence` and `pmem_space_management` are
micro-benchmarks (see section 9).

## 2. Modules

| module | models | composed of |
| --- | --- | --- |
| `AofGuard` | `aofguard.c`, and `write`/`close`/`rename` of `inject.c` for one guarded file | |
| `DurableLog` | abstract: an append-only log | implemented by `AofGuard` |
| `AofGuardProofs` | the proofs about `AofGuard` | extends it |
| `Inject` | `open`, `close`, `unlink`, `rename` of `inject.c` over two directories and `fd_table` | |
| `CbsPages` | how requests, blocks and pages are numbered in `cbs_req/` | |
| `CbsPmem` | `cbs_req_pmem.cpp` | extends `CbsPages` |
| `CbsPmemobj` | `cbs_req_pmemobj.cpp` | extends `CbsPages` |
| `CbsDirect` | the ssd, pmemblk, pmemkv and memkind variants, with their `main` | extends `CbsPages` |
| `PageStore` | abstract: a store of pages | implemented by `CbsPmem` and `CbsPmemobj` |
| `CxlMemory` | caches and `rw_info.c`'s flushes | |
| `MetaShare` | `meta_write.c`, `meta_read.c`, `dsa_meta_write.c`, `dsa_meta_read.c` | extends `CxlMemory` |
| `HashKv` | `hash_kv.c`, as operators | |
| `LockService` | `lock_service.c`, `lock.c`, `lock_write.c`, `lock_read.c` | extends `HashKv`, `CxlMemory` |
| `Crc` | `crc.c` | |
| `FlushRange` | the loops of `rw_info.c` | |
| `DsaMove` | `dsa_move.c` | |
| `RandNamespace` | `rand_namespace.cpp` | |
| `QueuePmemobj` | `queue_pmemobj.cpp` | |
| `Fifo` | abstract: a FIFO queue | implemented by `QueuePmemobj` |
| `QueueAof` | `queue_aof.cpp` | |
| `InjectProofs`, `CbsProofs`, `CxlMemoryProofs`, `MetaShareProofs`, `LockServiceProofs`, `LoopsProofs`, `QueueProofs` | the proofs about the other modules | `CbsProofs` extends `CbsPmem`, `CbsPmemobj` and `CbsDirect`; `LoopsProofs` extends `Crc`, `FlushRange`, `DsaMove` and `RandNamespace`; `QueueProofs` extends `QueuePmemobj` and `QueueAof`; the lemmas of `CxlMemoryProofs` are used by the next two |
| `MC*` | the instances TLC checks | `MCCbs`, `MCQueues` and `MCLoops` (which includes `MCQueues`) hold several programs that share nothing, of which a behaviour runs one; the others extend the module of the same name |

Names follow the C code: variables are the fields they stand for, actions the
functions or the part of a function between two points at which the state of
another actor, or of the medium, can be observed. `PROJECT.json` gives the lines
of every definition. A definition named `Slip...` is a deliberately wrong
variant of the one that follows it; no specification uses it. It is there to
show that a property would notice the mistake.

**AofGuard.** The file is a sequence of bytes of which the first `synced` are on
the disk; `nvm`, `meta`, `buf_end`, `data` are the nvm file; `pc` is the place in
`aofguard_init` or `aofguard_write`. A record goes through `check` (room?),
`fsync`, `file` (the write(2)), `copy`, `copy2` (the two parts of a copy that
wraps) and `finish` (the store of `buf_end`, and the request to the thread).
`Kill` and `PowerFailure` may come at any step: a copy that was under way leaves
any subset of its bytes, a power failure any length of the unsynced tail, as
written or as zeros. Calls that can fail do (`OpenFails`, `ReplayFails`,
`WriteFileFails`, `DoFsyncFails`, `AfsyncFails`). `log` is a history variable: the
bytes whose `buf_end` store was done. A file that is guarded for the first time
(`Init`, `RenameOver`) is taken to be on the disk: `aofguard_init` stores its length
as `fsync_len` without an fsync (aofguard.c:188), so that an unsynced tail at that
moment is not protected, and `FsyncLenIsDurable` and `Recoverable` hold only because
the model excludes it.

The code has moments in which it does not protect the log, and the model names
them instead of hiding them: `LossWindow` (a ring that is full to the last byte,
and the windows before and between the first two stores into a new or reset
ring) and a short write(2) followed by more writes (`Misaligned`). A stop there
sets `damaged`, and the safety properties speak about runs without it.

**Inject.** A ring is known by the file its contents describe (`of`). The system
call on the file and the one on the ring are two steps, and so are the creation
of a ring (`OpenCreate`) and its first words (`InitRing`). The second step may
fail (`OpenFails`, `SecondCallFails`), and the process may die in between: `CutShort`
are the paths of such a call. A plain file may become guarded while the table
does not have exactly that file under its name (`NotInTable`). `untracked` are the
paths to which one of these happened, carried along by renames (`Inherit`) and
healed by an unlink; the properties show that no other path is ever affected.

**CbsPmem.** An 8-byte store is one step; a 4K copy and the memset can be torn.
`page_id1`/`page_id2` are the table, 0 for none. Without a free page the code
goes on with `free_list[-1]`; the model takes the death of the process for it.

**CbsPmemobj.** `log` is the undo log of the open transaction, `fresh` the page it
allocated. `ReadObj` is what a restart would read now. `delete_page` frees a page
and keeps its oid; from then on (`deleted`) a page may be shared by two requests,
and the refinement promises nothing more; the counts still agree with the oids.

**CbsDirect.** `kind` chooses the program. `view` is what a read returns, `disk` what
a power failure leaves; they differ only for the mapped file, whose pages the
kernel writes back at will and a power failure may tear. `Loops` is `main`: which
requests each loop writes or reads, with which pattern. The first two loops of
`cbs_req_ssd.cpp` read before anything is written; the asserts in them are commented
out (lines 75, 88), and the patterns they announce (lines 81, 94) are there only if
an earlier run has completed. `PatternsRead` says of them that they read what the
last write of an earlier run left.

**CxlMemory.** Each host has a copy of each line or none, and a set of dirty
lines. `Evict` and `Prefetch` may happen at any time. Assumption: a flush has
taken effect before the host's next access. (The last `clflushopt` of `cflush` is
issued after its fence, and `cflushopt` has none: the order of a flush and later
accesses to other lines is not modelled.) Which lines a call flushes is in
`FlushRange`.

**MetaShare.** Memory copies go line by line, in any order. `engine` says which pair
of programs runs; an accelerator stores past the caches, and may fail half way,
after which the flag is set all the same (`DsaWriteFails`, `DsaReadFails`). Both
programs may be killed and started again anywhere. A writer clears the flag when
it starts, whatever the reader is doing: `booted` is TRUE from then until the
writer fills a block while nothing of the time before is left with the reader
(`Settled`). `announced` is a history variable: has the flag in memory been full
since the writer began with its last block? The writer's host does not prefetch the block, which nobody else
stores.

**LockService.** Each connection is a pair of FIFO channels. The server serves
one message of one connection at a time; `Die` kills a client anywhere, and what
it sent still arrives. `Restart` kills the server and starts it again: the table
is empty and all connections are broken. The clients do not look at the result
of `read()`: on a broken connection `lock` keeps the request, which for the read
lock of block 0 is 1 and is taken for a grant (`ReceiveLock`). The properties speak
of clients that are connected to the running server. `holders` (unreleased grants
of this server) and `last` (the last block flushed) are history variables.

**Crc.** A word is the set of its 1 bits. The register goes through a buffer byte by
byte, for seven widths and both directions; `Remainder` is the definition of a
CRC, long division. `Meant` is the type that the code computes: below 8 bits it
ignores `refOut` and does not reflect `init`.

**FlushRange, DsaMove, RandNamespace.** The loops with their arguments chosen from
all values within the bounds. In `DsaMove` jobs end in any order and may fail; in
`RandNamespace` two threads write beside each other and creating one may fail.

**DurableLog, PageStore, Fifo.** The abstract specifications have the call in progress
as a variable of its own (`writing`, `calls`, `command`), and only that call can
change the log, the pages or the queue, by its own record, page or value; no
restart can. The refinement mappings (`Promise`, `ObjPromise`) compute it from the
program counter and the arguments of the code (`Writing` and `Place`, `InProgress`,
`ObjInProgress`, `Executing`).

**QueuePmemobj.** Of libpmemobj the model has undo snapshots, allocation and
free inside of a transaction. `Walk` is what the next run would find now.

**QueueAof.** A line is what the replay makes of it. `files` has the contents of the
file at the last fsync and after each line since. A power failure may leave any
of them, with or without a proper prefix of the next line; what is appended then
continues that prefix.
`queue_deque_v` leaves NULL in head and tail when it takes the last node, and the
next command is a NULL pointer: the process dies, as the model has it.

## 3. Runs

| run | instance | shows |
| --- | --- | --- |
| `aof_log` | ring of 2 blocks of 2 bytes, records of 1 and 4 bytes, `MaxLog` 7, `MaxFile` 8 | `Recoverable`, `FsyncLenIsDurable`, `FileHoldsLog`, `AfsyncHandshake`, `RoomForRecord`, the refinement `ImplementsDurableLog`, and `WriteReturns` |
| `aof_full_ring` | the same | finding: `WriteIsSync` is violated |
| `aof_reopen` | the same, O_APPEND or not | finding: `FileHoldsLog` is violated |
| `inject_names` | 2 guarded and 2 plain paths, 2 descriptors, 2 files, 4 rings | `RingBelongsToFile`, `GuardedThroughName` |
| `cbs_store` | 3 pages; 2 requests (libpmem) or 4 requests in 2 blocks (the others), 2 contents | `PagesPartitioned`, `NeverTwoPages`, `NoTornPage`, `LastWriteWins`, `CountCovers`, `ObjWhole`, `PatternsRead`, `OthersUndamaged`, the refinements `ImplementsPageStore` and `ObjIsPageStore` |
| `cbs_sn` | the same | finding: `SnDecides` is violated |
| `meta_share` | a block of 2 lines, 2 fills, memcpy or accelerator, both programs may restart | `CrcMatches`, `PublishedWhole`, `HandOver`, `KeepsReading` |
| `lock_safety` | 2 writers and 2 readers of which 3 are started, one block, 2 fills; all may die, and so may the server | `MutualExclusion`, `ReadsLastWrite`, `Accounting` |
| `lock_live` | 1 writer, 1 reader, 2 blocks in one chain, nobody dies | `TableIsMap`, `Answered`, `SomebodyEnters` |
| `queue_aof` | file of up to 4 lines, 1 torn line | finding: `RestartKeepsQueue` is violated |
| `queues_loops` | the programs that share nothing and are small: pool of 3 nodes, 2 values; file of up to 4 lines, 2 torn lines, numbers of one and two digits; 14 kinds of checksum over 3 bytes; lines of 4, ranges up to 13 bytes; up to 3 jobs, blocks of up to 3, 14 bytes; 2 files of up to 5 pages of 3 bytes | `ListIsWhole`, the refinement `ImplementsFifo`; `EnquesReplayed`, `ReplaySurvives`; `CrcIsRemainder`, `CrcTellsApart`, `FlushedExactly`, `JobsInPool`, `MovedOnce`, `HalfOverwritten` |
| `rand_half` | 2 files of up to 5 pages of 3 bytes | finding: `AllOverwritten` is violated |

Deadlock is not checked in `lock_safety`, where all clients may be dead, and in
`rand_half`, where the program ends; in `queues_loops` a loop may only stop at its
end (`Ended`).

Why these bounds. In `aof_log` the ring has the smallest geometry that
`aofguard_init` accepts; a record of the ring's size and one of a byte reach
every combination of wrap, exact fit, request under way and room to be made, and
seven bytes of log take the ring round almost twice. The proofs of section 5
lift the bounds for the central properties. In `inject_names` two paths of each
kind are what a rename needs, and with two descriptors names go stale, are
shared, and are reused; two files at a time are what a mix-up needs, since inode
numbers are used again. In `cbs_store` three pages for two requests leave one
spare page for an update, and a crash in its window uses it up; for libpmemobj
three pages are less than the four requests, so that allocation fails with and
without a new block. Two lines and two fills are what a mix of two blocks needs.
Two writers and a reader, and a writer and two readers, are the
smallest conflicts; two blocks with `TABLE_SIZE` 1 share a chain. In `queues_loops` three
nodes make lists with an inner node, and a full pool; four lines have room for a
dequeue that empties the queue, a torn line and the line appended to it;
the lengths go past two lines, and past two batches of every pool. Symmetry
is used for the paths, for the clients and for the fills, in safety runs only.

Bounds with a name: `MaxLog`, `MaxFile` (AofGuard), `MaxCount` (CbsPmem),
`MaxStarted` (clients of the lock service that are ever started), `RestartsOverlap`
(FALSE: a writer of `MetaShare` dies only when `booted` is FALSE), `MaxLines`,
`MaxTears` (QueueAof), `MaxLength`, `MaxAddr`, `MaxLen`, `MaxJobs`, `MaxBlock`,
`MaxSize`, `MaxPages`, `MaxFiles` (the loops).

Larger instances that were checked with the same properties, and take too long to
repeat at every change: `inject_names` with 3 files and one plain path (14.5
million states) and with 3 files and one descriptor; `meta_share` with
`RestartsOverlap` TRUE (2.3 million); `lock_safety` with two lines per block (3.0
million).

## 4. Fairness

Only scheduling is assumed. `AofGuard`: weak fairness of the application's thread
inside of `write()` and of the afsync thread; nothing of the environment, so
`WriteReturns` excepts a thread that died of a failed fsync. `MetaShare`: weak
fairness of both loops, which poll for ever; nothing of the caches, so a stale
line may stay for ever unless it is flushed. `LockService`: weak fairness per
client and, per connection, of the server, since `select` reports every readable
connection and the loop serves each of them. Nothing says that a given client
ever gets a lock: the server keeps no queue. `KeepsReading` excepts programs that
are restarted over and over, and a reader whose assert has failed.

## 5. Proofs

All invariants, action properties and refinements of the passing runs are also
theorems, for every value of the constants; what is left is in section 7. For each
component there is an inductive invariant in its module, under "why these
properties hold"; TLC has checked each of them on the instance of the component's
run before it was proved. The proof of its preservation has one lemma per action
(`...Step`), and the theorems about the properties follow from it.

| component | inductive invariant | theorems (property) |
| --- | --- | --- |
| `AofGuard` | `TypeInv`, `LogInv` | `TypeCorrect` (`TypeOK`), `RequestInOnePlace` (`AfsyncHandshake`), `RecordFits` (`RoomForRecord`), `LogRecoverable` (`Recoverable`), `StoredLengthDurable` (`FsyncLenIsDurable`), `OpenFileHoldsLog` (`FileHoldsLog`), `IsDurableLog` (`ImplementsDurableLog`) |
| `Inject` | `TrackInv` | `ReplaysIntoItsFile` (`RingBelongsToFile`), `WritesThroughItsRing` (`GuardedThroughName`) |
| `CbsPmem` | `CacheInv` | `FreeOrInUse` (`PagesPartitioned`), `OnePageInTable` (`NeverTwoPages`), `ValidPagesWhole` (`NoTornPage`), `ReadsLastPage` (`LastWriteWins`), `NoPageUncounted` (`CountCovers`), `IsPageStore` (`ImplementsPageStore`) |
| `CbsPmemobj` | `ObjInv` | `PoolWhole` (`ObjWhole`), `ObjPoolIsPageStore` (`ObjIsPageStore`) |
| `CbsDirect` | `DirectInv` | `MainsReadPatterns` (`PatternsRead`), `CrashDamagesOnePage` (`OthersUndamaged`) |
| `MetaShare` | `HandInv`, `AnnouncedOnce` | `ChecksumMatches` (`CrcMatches`), `AnnouncedBlockWhole` (`PublishedWhole`), `BlocksHandedOver` (`HandOver`) |
| `LockService` | `LockInv`, `BlockInv` | `GrantsCounted` (`Accounting`), `OneNodePerKey` (`TableIsMap`), `WritersAlone` (`MutualExclusion`), `ReadersUpToDate` (`ReadsLastWrite`) |
| `QueuePmemobj` | `QueueInv` | `NoNodeLost` (`ListIsWhole`), `PoolIsFifo` (`ImplementsFifo`) |
| `QueueAof` | `AofInv` | `RestartFindsEnques` (`EnquesReplayed`), `OnlyTornLinesKill` (`ReplaySurvives`) |
| `Crc` | `CrcInv` | `ChecksumIsRemainder` (`CrcIsRemainder`), `BurstsChangeChecksum` (`CrcTellsApart`) |
| `FlushRange` | `FlushInv` | `RangeFlushed` (`FlushedExactly`) |
| `DsaMove` | `DsaInv` | `BlocksFitPool` (`JobsInPool`), `EveryByteMovedOnce` (`MovedOnce`) |
| `RandNamespace` | `RandInv` | `FirstHalfOverwritten` (`HalfOverwritten`) |

**AofGuard.** `TypeInv` adds `SessionShape` to `TypeOK`, `AfsyncHandshake` and
`RoomForRecord`: `RoomForRecord` after `DoFsync` depends on the check made two
steps before, and `len <= Capacity` depends on `RoomForRecord`. `LogInv` has two
parts. `WordsInForce`: the struct agrees with the words in the nvm file. `LogCore`,
unless `damaged`: a file without a ring is the log (`UnguardedLog`); else its
first `fsync_len` bytes and the ring make up the log (`GuardedLog`, byte by byte);
an open file starts with the log; the record in progress is in the file and, as
far as it was copied, in the ring behind the log (`RecordInProgress`); the replay
has come as far as `pc` says (`ReplayProgress`); and the fsync that is under way,
or done and not yet noticed, covers the blocks it will free (`FsyncCovers`).
`Recoverable` alone is not inductive: freeing blocks is right only because of
`FsyncCovers`, and `FinishWrite` adds the right bytes only because of
`RecordInProgress`. The ring arithmetic (a position in a ring, the wrapped copy,
what freeing does to positions) is in lemmas of its own. The refinement rests on
the same invariant: each action changes the recovered log, the record in progress
and the place by a step of `DurableLog` or not at all.

**Inject.** The properties speak of the moments between calls; `TrackInv` says what
holds between the two system calls of `rename`, `unlink` and `open`, where the
table, the directory and the rings disagree about the paths of the call
(`CallKnown`, and the exceptions in `FilesKnown`, `RingsKnown`, `GuardsKnown`).
`NamesApart` is needed because a rename would otherwise take along a ring that
two names share.

**CbsPmem.** `LastWriteWins` is about the table in memory, the refinement about the
metas a restart would read. `CacheInv` ties the two together at every step of a
call (`TableKnown`, `CallKnown`, `OnePageEach`), which is why no crash outside of
the update window matters. `CountsKnown` is a cardinality: each step changes the
pages of one block by one.

**CbsPmemobj, QueuePmemobj.** What counts is the state a rollback of the undo log
would restore, so the invariants say it of the old values (`RestartKnown`,
`IsList(Nodes)`), and of the open transaction which fields it has added and what
it has made of them (`AddingKnown`, `UpdatingKnown`, `EnqueKnown`, `DequeKnown`); at
the commit the two meet. `Walk`, a recursive function, is shown to run along the
list by the principle that a set of natural numbers has a least member.

**QueueAof.** The properties compare the queue of a restart with the commands that
were logged, two steps away from each other: the file may have lost enques
(`FilesKnown`), and the replay may lose one more (`ReplayKnown`). Both are counted.
A file without tears is the log. A tear costs at most one enque: the one that was
torn, or the one that is later appended to the remains, or the one that the
remains, read as "deque", take out; `Credit` is the cost that a line which is cut
short still has before it, and without it the count would not be inductive.
`WellFormed`, only the last line of a file is ever cut short, is why the replay
dies nowhere else. The number of enques in a sequence is a cardinality, so that
no induction over the sequence is needed.

**Crc.** The invariant says only that the register is a function of the bytes so
far; the proof is about that function. The dividend is the message and the
initial value; a register `Stands` for some of its bits, in the order that width
and direction give. Each round of the loop is then one step of the long division
(`RoundDivides`), for all three kinds of register, and putting a byte into the
register adds its bits to the dividend (`LoadedStands`); the masks and shifts of
`ReflectedData` are shown to turn a word around (`Reflected`). Steps of a division
take away a multiple of the polynomial (`Leaves`; `Times` is the product, bit by
bit the parity of the number of terms). The register and the long division both
leave the dividend minus a multiple, with nothing in the bits of the message, and
there is only one such rest, because a multiple begins where its quotient begins
(`TimesEnds`, `OneRest`). With a constant term in the polynomial it also ends
`width` bits behind the end of its quotient, so that no multiple fits into `width`
bits, which is `BurstsChangeChecksum`. The recursive functions are shown to exist
(`Iterated`), and to have their properties at every argument (`UpTo`), by the least
argument at which they would not.

**CbsDirect.** `PatternKnown` has, for each loop of `main`, how far it has come and
what the pages in front of and behind it hold.

**MetaShare, LockService.** Both need, per host and line, what a cache may hold: a
dirty line belongs to whoever may write (`WriterFlag`, `DirtyIsHeld`), the memory
has the whole block before another host is told (`BlockHidden`, `BlockInMemory`),
and the reader's copies are absent or up to date (`ReaderBlock`, `ReadProgress`).
That a block is announced only once rests on `AnnouncedOnce`, proved on top of
`HandInv`: a full flag in the writer's cache is always that of its last block, and
the block has not been announced before.
`Accounting` is not inductive without `Dialogue` and `HeldAsSaid`: a release is
counted down rightly only because the client that sent it has a grant, and a
connection never carries more than one message. Prefetch and eviction leave the
invariants alone by the lemmas of `CxlMemoryProofs`.

**Loops.** `FlushInv`, `DsaInv` and `RandInv` are loop invariants: the lines flushed so
far are the first of the range, and the address is `Shift` bytes behind the next
one, which is what makes `__flush_processor_cache` miss a line; the rest of the source fits in the jobs to come,
and a byte in front of `source` is moved or in exactly one job under way; the
bytes of the first half that a thread has gone past were overwritten once more
than the number of passes behind.

Assumptions. All are named in the module that declares the constants, and TLC
evaluates them in the runs. `GeometryAssumption` is what `aofguard_init` checks
(two blocks at least, and block numbers fit their field). `InjectAssumption`
gives room for a ring per guarded path and per open descriptor: the model reuses
ring numbers, as a file system reuses inodes. `LayoutAssumption`, `TableAssumption`,
`FlushAssumption` and the like say that sizes are positive; `PoolAssumption` that
the two fields of the root are not nodes; `CrcAssumption` that a polynomial, an
initial value and the bits to flip fit the width, which is one of the code's
seven. Two groups of theorems carry a hypothesis of their own:

- `AppendModes = {TRUE}` where the log of `AofGuard` is concerned (section 6 says
  why; the run `aof_reopen` shows that it is needed).
- `Requests \subseteq Req` for `CbsPmem`: the range check of `write_req` and
  `delete_page` lets one block too many through, and there is no table behind it.

The exceptions that the properties themselves make (`damaged`, `orphaned`, `booted`,
`untracked`, `deleted`: section 2) are those of the runs, and no theorem adds one.

## 6. Findings

- **A full ring reads as empty** (`aof_full_ring`). A write may fill the ring to
  its last byte; then `buf_end = start`, which `aofguard_init` takes for an empty
  ring. A stop before the next record loses the whole ring, although `wal_acc.c`
  says that "the data sync is called in the write".
- **Reopening without O_APPEND** (`aof_reopen`). The replay writes at offset 0 and
  overwrites the start of the file. `wal_acc.c` itself reopens with `O_RDWR`.
- **Recovery ignores sn** (`cbs_sn`). Two valid pages of a request are resolved by
  the page id, not by `sn` as the comments say.
- **Dequeues are not replayed** (`queue_aof`). The line is "deque" with a newline,
  the replay splits at blanks only and compares it with "deque": every value that
  was taken out is back after a restart.
- **Half of a namespace is not overwritten** (`rand_half`). The slice of the second
  thread starts at a number of pages that is added to a `char` pointer, as bytes, and
  so it writes nearly what the first thread writes. `AllOverwritten` is what `main`
  announces ("128G pmem written rand 3 times"), and it is violated; `HalfOverwritten`
  in `queues_loops` is what holds all the same.

Other behaviours that came up and have no run of their own:

- A `meta_write` that is started again clears the flag while the reader may be
  copying, and then overwrites the block; the assert of the reader can then fail
  (`CrcMatches` says that nothing else than this and a failed accelerator can).
- `write_req` of `cbs_req_pmem` and `cbs_req_memkind` lets
  `block_id = DISK_BLOCK_NUM` through its range check, and `free_num = 0` is
  reported and then not heeded.
- `get_cached_count` of `cbs_req_pmemobj` adds to an uninitialised `cnt`; what the
  counts themselves are is in `ObjWhole`.
- `write_req` of `cbs_req_pmemobj` and `cbs_req_memkind` returns 0 when an allocation
  failed and nothing was written.
- For widths below 8, `crc.c` ignores `refOut` and does not reflect `init` (`Meant`);
  the programs use width 32.
- `__flush_processor_cache`, which is not compiled in, may miss the last line of a
  range that does not begin at a line (`FlushedExactly` says so, and that it misses
  no other); all ranges of the programs begin at a line.
- A read lock of block 0 over a broken connection is taken for granted (lock.c:59).
- In `rename`, if `malloc` or `aofguard_init` fails for a descriptor (inject.c:320,
  322), the call reports success and leaves a `struct aofguard` that was not set up.

## 7. What is only model-checked

- Liveness: `WriteReturns`, `KeepsReading`, `Answered`, `SomebodyEnters`. Fairness and
  `ENABLED` are out of the prover's reach.
- That the runs with a violation fail is shown by TLC's counterexamples.

## 8. Plan

The modules of the inventory are written. What would extend them: the writes of
two descriptors over one ring (`AofGuard`), and the order of a `clflushopt` and
later accesses to other lines (`CxlMemory`), for which the hardware's memory model
would have to be stated.

Every invariant, action property and refinement that a passing run checks is
proved; the four liveness properties would need a prover with fairness.

## 9. Not modelled

`wal_acc.c`, `syscall.c`, `sha1.c`: a demo, wrappers and a hash; file names are
abstract. `log-timestamp.c`, `sharing_mem.c`: a helper that prints, and a demo of a
mapping that runs once. `cpi_of_sfence`, `atomic_after_clwb_sfence`,
`pmem_space_management` measure time.

Of the modelled programs: failures of `malloc`, `realloc` and `strdup` in C, of
`sem_*`, `pthread_*` and `mmap` in `AofGuard` (in `Inject` they are `OpenFails`), files
that are not regular, `fsync` without `AOFGUARD_DISABLE_SYNC`, media errors of
pmemblk, requests past the end of the disk, `scanf` at the end of the input
(`queue_aof` then repeats its last command for ever), and numbers of more than two
digits in `queue_aof`, which fit in its buffer. A line of `queue_aof` that several
tears have run together is one line of any length; `fgets` with `buf[32]`
(queue_aof.cpp:105) would hand over one of more than 31 bytes in pieces. In `rename`
from a guarded to a plain name the assertion that every descriptor under the old
name has a ring (inject.c:338) is left out: the model goes on, where the process
might die, and dying is a step of its own.
