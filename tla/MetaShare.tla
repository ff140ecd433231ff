------------------------------ MODULE MetaShare -----------------------------
(***************************************************************************)
(* cxl_memory_sharing/meta_write.c and meta_read.c: a writer on one host   *)
(* and a reader on another hand blocks over through a flag in the first    *)
(* line of the shared file, 0x10 for full and 0x00 for empty, with cflush  *)
(* and cflushopt instead of coherent caches.  dsa_meta_write.c and         *)
(* dsa_meta_read.c are the same with an accelerator (DsaMove) in the place *)
(* of memcpy.                                                              *)
(*                                                                         *)
(* A block is Chunks; its checksum is right iff all of its chunks are from *)
(* the same fill (fill_buffer_random, calculate_crc32: see Crc).           *)
(*                                                                         *)
(* History variables: booted says that a writer was started over a file    *)
(* that was in use, and what that may have upset is not over; botched that *)
(* an error of the accelerator spoiled the block in the file, and          *)
(* rbotched the block the reader has; announced that the flag in memory    *)
(* has been full since the writer began with its last block.               *)
(***************************************************************************)
EXTENDS Integers, CxlMemory

CONSTANTS
    W, R,           \* the two hosts
    Flag,           \* the line at addr
    Chunks,         \* the lines of the block at data_addr
    Content,        \* fills of the block
    Full, Empty,    \* 0x10 and 0x00
    RestartsOverlap \* bound: may a writer die while its last start still matters?

ASSUME ShareAssumption ==
    /\ W # R /\ Host = {W, R}
    /\ Flag \notin Chunks /\ Line = Chunks \cup {Flag}
    /\ Full # Empty /\ Value = Content \cup {Full, Empty}
    /\ Full \notin Content /\ Empty \notin Content
    /\ RestartsOverlap \in BOOLEAN

VARIABLES
    engine,         \* "memcpy" or "dsa": which pair of programs runs
    wpc, source,    \* the writer: dram_source
    left,           \* the lines the writer still has to copy
    rpc, got, todo, \* the reader: dram_source and the lines still to be read
    booted, botched, rbotched, announced

writerVars == <<wpc, source, left>>
readerVars == <<rpc, got, todo, rbotched>>
procVars == <<engine, writerVars, readerVars, booted, botched>>
vars == <<memVars, procVars, announced>>

Init ==
    /\ \E c \in Content :
          /\ mem = [l \in Line |-> IF l = Flag THEN Empty ELSE c]
          /\ source = c /\ got = [l \in Chunks |-> c]
    /\ EmptyCaches
    /\ engine \in {"memcpy", "dsa"}
    /\ wpc = "boot" /\ left = {}
    /\ rpc = "poll" /\ todo = {}
    /\ booted = FALSE /\ botched = FALSE /\ rbotched = FALSE /\ announced = TRUE

-----------------------------------------------------------------------------
(* meta_write.c, dsa_meta_write.c.                                         *)

\* memset(addr, 0, 64) at the start, whatever the flag says.
BootStore ==
    /\ wpc = "boot"
    /\ Store(W, Flag, Empty)
    /\ wpc' = "bootflush" /\ booted' = TRUE
    /\ UNCHANGED <<engine, source, left, readerVars, botched>>

BootFlush ==
    /\ wpc = "bootflush"
    /\ Flush(W, {Flag})
    /\ wpc' = "fill"
    /\ UNCHANGED <<engine, source, left, readerVars, booted, botched>>

\* A new random block, of which TestEmpty says what it is; then
\* cflushopt(addr, 64).
Fill ==
    /\ wpc = "fill"
    /\ Flush(W, {Flag})
    /\ wpc' = "test"
    /\ UNCHANGED <<engine, source, left, readerVars, booted, botched>>

\* Nothing of the time before is left with the reader: it is not reading, and
\* its cache has no flag that it will write back or go by.
Settled ==
    /\ Flag \notin dirty[R]
    /\ rpc \in {"poll", "dead"} \/ (rpc = "test" /\ copy[R][Flag] # Full)

StartCopy(c) ==
    /\ source' = c /\ left' = Chunks /\ wpc' = "copy"
    /\ booted' = (booted /\ ~Settled) /\ botched' = FALSE

SlipTestEmpty(c) ==                     \* the flag is not looked at
    /\ wpc = "test"
    /\ Load(W, Flag)
    /\ StartCopy(c)
    /\ UNCHANGED <<engine, readerVars>>

TestEmpty(c) ==
    /\ wpc = "test"
    /\ Load(W, Flag)
    /\ IF Sees(W, Flag) = Empty
       THEN StartCopy(c)
       ELSE wpc' = "fill" /\ UNCHANGED <<source, left, booted, botched>>
    /\ UNCHANGED <<engine, readerVars>>

\* memcpy, line by line; the accelerator's stores need no flush.
CopyChunk(l) ==
    /\ wpc = "copy" /\ l \in left
    /\ IF engine = "dsa" THEN DirectStore(W, l, source) ELSE Store(W, l, source)
    /\ left' = left \ {l}
    /\ wpc' = IF left' # {} THEN "copy"
              ELSE IF engine = "dsa" THEN "set" ELSE "flush"
    /\ UNCHANGED <<engine, source, readerVars, booted, botched>>

\* dsa_move_data has met an error; the flag is set all the same.
DsaWriteFails ==
    /\ wpc = "copy" /\ engine = "dsa"
    /\ left' = {} /\ wpc' = "set" /\ botched' = TRUE
    /\ UNCHANGED <<memVars, engine, source, readerVars, booted>>

SlipFlushData ==                        \* no cflush(data_addr)
    /\ wpc = "flush"
    /\ wpc' = "set"
    /\ UNCHANGED <<memVars, engine, source, left, readerVars, booted, botched>>

FlushData ==
    /\ wpc = "flush"
    /\ Flush(W, Chunks)
    /\ wpc' = "set"
    /\ UNCHANGED <<engine, source, left, readerVars, booted, botched>>

SetFull ==
    /\ wpc = "set"
    /\ Store(W, Flag, Full)
    /\ wpc' = "setflush"
    /\ UNCHANGED <<engine, source, left, readerVars, booted, botched>>

FlushFull ==
    /\ wpc = "setflush"
    /\ Flush(W, {Flag})
    /\ wpc' = "fill"
    /\ UNCHANGED <<engine, source, left, readerVars, booted, botched>>

\* The writer is killed, anywhere in its loop, and started again.
RestartWriter ==
    /\ wpc \notin {"boot", "bootflush"}
    /\ booted => RestartsOverlap
    /\ wpc' = "boot" /\ left' = {}
    /\ UNCHANGED <<memVars, engine, source, readerVars, booted, botched>>

-----------------------------------------------------------------------------
(* meta_read.c, dsa_meta_read.c.                                           *)

SlipPoll ==                             \* no cflushopt(addr)
    /\ rpc = "poll"
    /\ rpc' = "test"
    /\ UNCHANGED <<memVars, engine, got, todo, rbotched, writerVars, booted, botched>>

Poll ==
    /\ rpc = "poll"
    /\ Flush(R, {Flag})
    /\ rpc' = "test"
    /\ UNCHANGED <<engine, got, todo, rbotched, writerVars, booted, botched>>

TestFull ==
    /\ rpc = "test"
    /\ Load(R, Flag)
    /\ rpc' = IF Sees(R, Flag) = Full THEN "drop" ELSE "poll"
    /\ rbotched' = botched
    /\ UNCHANGED <<engine, got, todo, writerVars, booted, botched>>

SlipDropStale ==                        \* no cflushopt(data_addr)
    /\ rpc = "drop"
    /\ rpc' = "read" /\ todo' = Chunks
    /\ UNCHANGED <<memVars, engine, got, rbotched, writerVars, booted, botched>>

\* Copies of an earlier block in the reader's cache are dropped.
DropStale ==
    /\ rpc = "drop"
    /\ Flush(R, Chunks)
    /\ rpc' = "read" /\ todo' = Chunks
    /\ UNCHANGED <<engine, got, rbotched, writerVars, booted, botched>>

\* The accelerator reads what a load would, and leaves the cache alone.
ReadChunk(l) ==
    /\ rpc = "read" /\ l \in todo
    /\ IF engine = "dsa" THEN UNCHANGED memVars ELSE Load(R, l)
    /\ got' = [got EXCEPT ![l] = Sees(R, l)]
    /\ todo' = todo \ {l}
    /\ rpc' = IF todo' = {} THEN "reset" ELSE "read"
    /\ UNCHANGED <<engine, rbotched, writerVars, booted, botched>>

DsaReadFails ==
    /\ rpc = "read" /\ engine = "dsa"
    /\ todo' = {} /\ rpc' = "reset" /\ rbotched' = TRUE
    /\ UNCHANGED <<memVars, engine, got, writerVars, booted, botched>>

SetEmpty ==
    /\ rpc = "reset"
    /\ Store(R, Flag, Empty)
    /\ rpc' = "resetflush"
    /\ UNCHANGED <<engine, got, todo, rbotched, writerVars, booted, botched>>

FlushEmpty ==
    /\ rpc = "resetflush"
    /\ Flush(R, {Flag})
    /\ rpc' = "check"
    /\ UNCHANGED <<engine, got, todo, rbotched, writerVars, booted, botched>>

Whole(b) == \A k, l \in Chunks : b[k] = b[l]

\* assert(crc32 == source_crc32): the loop goes on, or the process aborts.
CheckCrc ==
    /\ rpc = "check"
    /\ rpc' = IF Whole(got) THEN "poll" ELSE "dead"
    /\ UNCHANGED <<memVars, engine, got, todo, rbotched, writerVars, booted, botched>>

RestartReader ==
    /\ rpc # "poll"
    /\ rpc' = "poll" /\ todo' = {}
    /\ UNCHANGED <<memVars, engine, got, rbotched, writerVars, booted, botched>>

-----------------------------------------------------------------------------
\* The writer's cache does not prefetch the block: no other host stores it, so
\* that a clean copy would always be what the memory holds.
Hardware ==
    /\ \/ \E h \in Host, l \in Line : Evict(h, l)
       \/ Prefetch(W, Flag)
       \/ \E l \in Line : Prefetch(R, l)
    /\ UNCHANGED procVars

WriterStep ==
    \/ BootStore \/ BootFlush \/ Fill \/ (\E c \in Content : TestEmpty(c))
    \/ (\E l \in Chunks : CopyChunk(l)) \/ DsaWriteFails
    \/ FlushData \/ SetFull \/ FlushFull

ReaderStep ==
    \/ Poll \/ TestFull \/ DropStale \/ (\E l \in Chunks : ReadChunk(l))
    \/ DsaReadFails \/ SetEmpty \/ FlushEmpty \/ CheckCrc

Begins == wpc # "copy" /\ wpc' = "copy"
Announces == mem[Flag] # Full /\ mem'[Flag] = Full

\* The history of the announcement, kept by every step.
Track == announced' = (~Begins /\ (announced \/ Announces))

Next ==
    \/ WriterStep /\ Track
    \/ ReaderStep /\ Track
    \/ RestartWriter /\ Track
    \/ RestartReader /\ Track
    \/ Hardware /\ Track

Spec == Init /\ [][Next]_vars

\* Both processes are scheduled; nothing is assumed of the caches.
FairSpec == Spec /\ WF_vars(WriterStep /\ Track) /\ WF_vars(ReaderStep /\ Track)

-----------------------------------------------------------------------------
(* Properties.                                                             *)

\* Memory, caches and program counters have their types; only the two owners
\* of the flag and the writer of the block ever hold dirty lines.
TypeOK ==
    /\ MemTypeOK
    /\ engine \in {"memcpy", "dsa"}
    /\ wpc \in {"boot", "bootflush", "fill", "test", "copy", "flush", "set",
                "setflush"}
    /\ rpc \in {"poll", "test", "drop", "read", "reset", "resetflush", "check",
                "dead"}
    /\ source \in Content /\ got \in [Chunks -> Content]
    /\ left \subseteq Chunks /\ todo \subseteq Chunks
    /\ dirty[R] \subseteq {Flag}
    /\ {booted, botched, rbotched} \subseteq BOOLEAN

\* The assert of the readers: the block that was copied is one fill of the
\* writer, never a mix of two, whatever the caches write back or prefetch and
\* whenever the reader is restarted.  Only a writer that is started over a file
\* in use, or an error of an accelerator, can make it fail.
CrcMatches ==
    rpc = "check" /\ ~booted /\ ~rbotched => Whole(got)

\* Even if both processes are killed and started again anywhere in their
\* loops, a block that the flag in memory announces is one fill, unless the
\* accelerator failed.
PublishedWhole == TypeOK /\ (mem[Flag] = Full /\ ~botched => Whole(mem))

\* The file as a mailbox: what it holds once the flag in memory says so.
Slot == IF mem[Flag] = Full THEN [l \in Chunks |-> mem[l]] ELSE Empty

\* No block is lost or handed over twice.  The mailbox is filled only with the
\* block the writer copied last, and only once with it, whenever either process
\* is killed; what is in it stays as it is until it is emptied; and it is
\* emptied only when the reader has copied exactly that block, or while what a
\* starting writer upset is not over.  Of the content of a block that an
\* accelerator failed to write or to read nothing is said.
HandOver ==
    [][Slot' # Slot =>
          \/ /\ Slot = Empty
             /\ ~announced /\ (Slot' = [l \in Chunks |-> source] \/ botched)
          \/ Slot' = Empty /\ (got = Slot \/ rbotched \/ booted)]_vars

-----------------------------------------------------------------------------
(* Why these properties hold: the inductive invariant of their proofs.     *)

LinesHold ==
    /\ mem[Flag] \in {Full, Empty} /\ \A l \in Chunks : mem[l] \in Content
    /\ \A h \in Host :
          /\ copy[h][Flag] \in {Full, Empty, NoCopy}
          /\ \A l \in Chunks : copy[h][l] \in Content \cup {NoCopy}

\* The writer's cache will announce a block.
WriterFull == Flag \in dirty[W] /\ copy[W][Flag] = Full

\* The writer never takes a full flag for an empty one: only its own stores
\* make the flag full, and its copy is dropped when they reach the memory.
WriterFlag ==
    /\ Flag \in dirty[W] =>
          \/ wpc = "bootflush" /\ copy[W][Flag] = Empty
          \/ wpc \in {"setflush", "boot"} /\ copy[W][Flag] = Full
    /\ Flag \notin dirty[W] /\ copy[W][Flag] = Empty => mem[Flag] = Empty
    /\ wpc = "bootflush" => booted

\* A block changes only while nothing announces it, and is in memory as a whole
\* before something does.
BlockHidden ==
    /\ wpc \in {"copy", "flush"} \/ (\E l \in Chunks : l \in dirty[W]) =>
          mem[Flag] = Empty /\ ~WriterFull
    /\ wpc \in {"copy", "flush"} =>
          \A l \in Chunks \ left :
              IF l \in dirty[W] THEN copy[W][l] = source ELSE mem[l] = source
    /\ wpc = "flush" => left = {}
    /\ engine = "dsa" \/ wpc = "set" => \A l \in Chunks : l \notin dirty[W]
    /\ wpc = "set" /\ ~botched => \A l \in Chunks : mem[l] = source
    /\ (mem[Flag] = Full \/ WriterFull) /\ ~botched => Whole(mem)

\* While the reader works on a block, or has its empty flag in the cache, the
\* flag in memory is full.
ReaderFlag ==
    /\ Flag \in dirty[R] => rpc \in {"poll", "resetflush"} /\ copy[R][Flag] = Empty
    /\ ~booted /\ \/ Flag \in dirty[R]
                  \/ rpc \in {"drop", "read", "reset"}
                  \/ rpc \notin {"poll", "dead"} /\ copy[R][Flag] = Full
          => mem[Flag] = Full

\* What the reader has of the block is what the memory holds, until it says so.
ReaderBlock ==
    ~booted /\ ~rbotched =>
        /\ rpc \in {"drop", "read", "reset"} => ~botched
        /\ rpc = "read" =>
              \A l \in Chunks : /\ copy[R][l] \in {NoCopy, mem[l]}
                                /\ l \notin todo => got[l] = mem[l]
        /\ rpc = "reset" \/ Flag \in dirty[R] => \A l \in Chunks : got[l] = mem[l]
        /\ rpc \in {"reset", "resetflush", "check"} => Whole(got)

HandInv ==
    /\ TypeOK /\ DirtyHasCopy /\ LinesHold
    /\ WriterFlag /\ BlockHidden /\ ReaderFlag /\ ReaderBlock

\* What the writer is about to announce is its last block, for the first time.
AnnouncedOnce ==
    /\ announced \in BOOLEAN
    /\ wpc \in {"copy", "flush", "set"} \/ WriterFull => ~announced
    /\ WriterFull /\ ~botched => \A l \in Chunks : mem[l] = source

-----------------------------------------------------------------------------
\* Blocks keep coming: the two sides never wait for each other for ever, unless
\* one of them is restarted over and over or the reader's assert has failed.
\* (A restart of the reader in front of a flag that looks empty is not told
\* apart from a poll, and hinders nothing.)
KeepsReading ==
    \/ []<>(rpc = "check")
    \/ []<><<RestartReader /\ ~(rpc = "test" /\ Sees(R, Flag) = Empty)>>_vars
    \/ []<><<RestartWriter>>_vars
    \/ <>[](rpc = "dead")
=============================================================================
