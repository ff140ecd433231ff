-------------------------- MODULE MetaShareProofs ---------------------------
(***************************************************************************)
(* Proofs about MetaShare, for any number of lines and fills of a block,   *)
(* both engines, and any restarts of the two processes.                    *)
(***************************************************************************)
EXTENDS MetaShare, CxlMemoryProofs, TLAPS

\* The two hosts and the lines.
LEMMA ShareParts ==
    /\ W \in Host /\ R \in Host /\ W # R /\ \A h \in Host : h = W \/ h = R
    /\ Flag \in Line /\ \A l \in Chunks : l \in Line /\ l # Flag
    /\ \A l \in Line : l = Flag \/ l \in Chunks
    /\ Full # Empty /\ Full # NoCopy /\ Empty # NoCopy /\ Full \in Value /\ Empty \in Value
    /\ \A c \in Content : c \in Value /\ c # NoCopy /\ c # Full /\ c # Empty
  BY ShareAssumption, NoCopyAssumption

\* What a flush or an eviction of one line does, for a host h and the other.
LEMMA FlushLine ==
    ASSUME HandInv, NEW h \in Host, NEW g \in Host, g # h, NEW l \in Line, Flush(h, {l})
    PROVE  /\ MemInv'
           /\ mem'[l] = IF l \in dirty[h] THEN copy[h][l] ELSE mem[l]
           /\ copy'[h][l] = NoCopy /\ l \notin dirty'[h]
           /\ \A k \in Line : k # l => /\ mem'[k] = mem[k] /\ copy'[h][k] = copy[h][k]
                                       /\ k \in dirty'[h] <=> k \in dirty[h]
           /\ \A k \in Line : copy'[g][k] = copy[g][k]
           /\ dirty'[g] = dirty[g]
<1>1. MemInv
  BY DEF HandInv, TypeOK, MemInv
<1>. DEFINE ls == {l}
<1>2. Flush(h, ls) /\ \A k : k \in ls <=> k = l
  OBVIOUS
<1>. HIDE DEF ls
<1>3. /\ MemInv'
      /\ \A k \in Line : mem'[k] = IF k \in ls /\ k \in dirty[h] THEN copy[h][k] ELSE mem[k]
      /\ \A f \in Host : dirty'[f] = IF f = h THEN dirty[f] \ ls ELSE dirty[f]
      /\ \A f \in Host, k \in Line : copy'[f][k] = IF f = h /\ k \in ls THEN NoCopy ELSE copy[f][k]
  BY <1>1, <1>2, FlushEffect
<1>. QED  BY <1>2, <1>3

LEMMA LoadLine ==
    ASSUME HandInv, NEW h \in Host, NEW g \in Host, g # h, NEW l \in Line, Load(h, l)
    PROVE  /\ MemInv'
           /\ mem' = mem /\ dirty' = dirty
           /\ copy'[h][l] = IF copy[h][l] # NoCopy THEN copy[h][l] ELSE mem[l]
           /\ \A k \in Line : k # l => copy'[h][k] = copy[h][k]
           /\ \A k \in Line : copy'[g][k] = copy[g][k]
<1>1. MemInv
  BY DEF HandInv, TypeOK, MemInv
<1>2. /\ MemInv'
      /\ mem' = mem /\ dirty' = dirty
      /\ \A f \in Host, k \in Line : copy'[f][k] = IF f = h /\ k = l THEN Sees(h, l) ELSE copy[f][k]
  BY <1>1, LoadEffect
<1>. QED  BY <1>2 DEF Sees

LEMMA StoreLine ==
    ASSUME HandInv, NEW h \in Host, NEW g \in Host, g # h, NEW l \in Line, NEW v \in Value,
           Store(h, l, v)
    PROVE  /\ MemInv'
           /\ mem' = mem
           /\ copy'[h][l] = v /\ l \in dirty'[h]
           /\ \A k \in Line : k # l => /\ copy'[h][k] = copy[h][k]
                                       /\ k \in dirty'[h] <=> k \in dirty[h]
           /\ \A k \in Line : copy'[g][k] = copy[g][k]
           /\ dirty'[g] = dirty[g]
<1>1. MemInv
  BY DEF HandInv, TypeOK, MemInv
<1>2. /\ MemInv'
      /\ mem' = mem
      /\ \A f \in Host : dirty'[f] = IF f = h THEN dirty[f] \cup {l} ELSE dirty[f]
      /\ \A f \in Host, k \in Line : copy'[f][k] = IF f = h /\ k = l THEN v ELSE copy[f][k]
  BY <1>1, StoreEffect
<1>. QED  BY <1>2

LEMMA DirectStoreLine ==
    ASSUME HandInv, NEW h \in Host, NEW g \in Host, g # h, NEW l \in Line, NEW v \in Value,
           DirectStore(h, l, v)
    PROVE  /\ MemInv'
           /\ mem'[l] = v /\ copy'[h][l] = NoCopy /\ l \notin dirty'[h]
           /\ \A k \in Line : k # l => /\ mem'[k] = mem[k] /\ copy'[h][k] = copy[h][k]
                                       /\ k \in dirty'[h] <=> k \in dirty[h]
           /\ \A k \in Line : copy'[g][k] = copy[g][k]
           /\ dirty'[g] = dirty[g]
<1>1. MemInv
  BY DEF HandInv, TypeOK, MemInv
<1>2. MemInv' /\ \A k \in Line : mem'[k] = IF k = l THEN v ELSE mem[k]
  BY <1>1, DirectStoreEffect
<1>3. \A f \in Host : dirty'[f] = IF f = h THEN dirty[f] \ {l} ELSE dirty[f]
  BY <1>1, DirectStoreEffect
<1>4. \A f \in Host, k \in Line : copy'[f][k] = IF f = h /\ k = l THEN NoCopy ELSE copy[f][k]
  BY <1>1, DirectStoreEffect
<1>. QED  BY <1>2, <1>3, <1>4

\* A flush of the block.
LEMMA FlushChunks ==
    ASSUME HandInv, NEW h \in Host, NEW g \in Host, g # h, Flush(h, Chunks)
    PROVE  /\ MemInv'
           /\ \A l \in Chunks : /\ mem'[l] = IF l \in dirty[h] THEN copy[h][l] ELSE mem[l]
                                /\ copy'[h][l] = NoCopy /\ l \notin dirty'[h]
           /\ mem'[Flag] = mem[Flag] /\ copy'[h][Flag] = copy[h][Flag]
           /\ Flag \in dirty'[h] <=> Flag \in dirty[h]
           /\ \A k \in Line : copy'[g][k] = copy[g][k]
           /\ dirty'[g] = dirty[g]
<1>1. MemInv
  BY DEF HandInv, TypeOK, MemInv
<1>2. /\ MemInv'
      /\ \A k \in Line : mem'[k] = IF k \in Chunks /\ k \in dirty[h] THEN copy[h][k] ELSE mem[k]
      /\ \A f \in Host : dirty'[f] = IF f = h THEN dirty[f] \ Chunks ELSE dirty[f]
      /\ \A f \in Host, k \in Line : copy'[f][k] = IF f = h /\ k \in Chunks THEN NoCopy ELSE copy[f][k]
  BY <1>1, FlushEffect
<1>. QED  BY <1>2, ShareParts, ShareAssumption

-----------------------------------------------------------------------------
(* Every step keeps HandInv.                                               *)

\* The writer starts: it stores the empty flag.
LEMMA BootStoreStep ==
    ASSUME HandInv, BootStore
    PROVE  HandInv'
<1>. USE DEF writerVars, readerVars, memVars, procVars
<1>1. /\ wpc = "boot" /\ wpc' = "bootflush" /\ booted' = TRUE /\ Store(W, Flag, Empty)
      /\ UNCHANGED <<engine, source, left, readerVars, botched>>
  BY DEF BootStore
<1>2. MemInv' /\ DirtyHasCopy'
  BY <1>1, ShareParts, StoreLine DEF MemInv
<1>3. /\ mem' = mem
      /\ copy'[W][Flag] = Empty /\ Flag \in dirty'[W]
      /\ \A l \in Chunks : copy'[W][l] = copy[W][l] /\ (l \in dirty'[W] <=> l \in dirty[W])
      /\ \A l \in Line : copy'[R][l] = copy[R][l]
      /\ dirty'[R] = dirty[R]
  BY <1>1, ShareParts, StoreLine
<1>4. TypeOK'
  BY <1>1, <1>2, <1>3, ShareParts DEF HandInv, TypeOK, MemInv, MemTypeOK
<1>5. LinesHold'
  BY <1>3, ShareParts DEF HandInv, LinesHold, DirtyHasCopy
<1>6. WriterFlag'
  BY <1>1, <1>3, ShareParts DEF HandInv, WriterFlag, ReaderFlag, LinesHold
<1>7. BlockHidden'
  BY <1>1, <1>3, ShareParts DEF HandInv, BlockHidden, WriterFlag, WriterFull, ReaderFlag, LinesHold, Whole
<1>8. ReaderFlag'
  BY <1>1, <1>3, ShareParts DEF HandInv, ReaderFlag, WriterFlag, WriterFull, BlockHidden, LinesHold, TypeOK
<1>9. ReaderBlock'
  BY <1>1, <1>3, ShareParts DEF HandInv, ReaderBlock, ReaderFlag, WriterFlag, WriterFull, BlockHidden, LinesHold, Whole, Sees
<1>. QED  BY <1>2, <1>4, <1>5, <1>6, <1>7, <1>8, <1>9 DEF HandInv

\* The writer flushes its flag, before it looks at it or after it stored it.
LEMMA FlushFlagStep ==
    ASSUME HandInv, BootFlush \/ Fill \/ FlushFull
    PROVE  HandInv'
<1>. USE DEF writerVars, readerVars, memVars, procVars
<1>1. /\ \/ wpc \in {"bootflush", "setflush"} /\ wpc' = "fill"
         \/ wpc = "fill" /\ wpc' = "test"
      /\ Flush(W, {Flag})
      /\ UNCHANGED <<engine, source, left, readerVars, booted, botched>>
  BY DEF BootFlush, Fill, FlushFull
<1>2. MemInv' /\ DirtyHasCopy'
  BY <1>1, ShareParts, FlushLine DEF MemInv
<1>3. /\ mem'[Flag] = IF Flag \in dirty[W] THEN copy[W][Flag] ELSE mem[Flag]
      /\ copy'[W][Flag] = NoCopy /\ Flag \notin dirty'[W]
      /\ \A l \in Chunks : /\ mem'[l] = mem[l] /\ copy'[W][l] = copy[W][l]
                           /\ l \in dirty'[W] <=> l \in dirty[W]
      /\ \A l \in Line : copy'[R][l] = copy[R][l]
      /\ dirty'[R] = dirty[R]
  BY <1>1, ShareParts, FlushLine
<1>a. Whole(mem)' <=> Whole(mem)
  BY <1>3 DEF Whole
<1>b. Whole(got)' <=> Whole(got)
  BY <1>1 DEF Whole
<1>4. TypeOK'
  BY <1>1, <1>2, <1>3, ShareParts DEF HandInv, TypeOK, MemInv, MemTypeOK
<1>5. LinesHold'
  BY <1>3, ShareParts DEF HandInv, LinesHold, DirtyHasCopy
<1>6. WriterFlag'
  BY <1>1, <1>3, ShareParts DEF HandInv, WriterFlag, ReaderFlag, LinesHold
<1>7. BlockHidden'
  BY <1>1, <1>3, <1>a, ShareParts DEF HandInv, BlockHidden, WriterFlag, WriterFull, ReaderFlag, LinesHold, DirtyHasCopy
<1>8. ReaderFlag'
  BY <1>1, <1>3, ShareParts DEF HandInv, ReaderFlag, WriterFlag, WriterFull, BlockHidden, LinesHold, TypeOK
<1>9. ReaderBlock'
  BY <1>1, <1>3, <1>b, ShareParts DEF HandInv, ReaderBlock
<1>. QED  BY <1>2, <1>4, <1>5, <1>6, <1>7, <1>8, <1>9 DEF HandInv

\* The writer announces its block.
LEMMA SetFullStep ==
    ASSUME HandInv, SetFull
    PROVE  HandInv'
<1>. USE DEF writerVars, readerVars, memVars, procVars
<1>1. /\ wpc = "set" /\ wpc' = "setflush" /\ Store(W, Flag, Full)
      /\ UNCHANGED <<engine, source, left, readerVars, booted, botched>>
  BY DEF SetFull
<1>2. MemInv' /\ DirtyHasCopy'
  BY <1>1, ShareParts, StoreLine DEF MemInv
<1>3. /\ mem' = mem
      /\ copy'[W][Flag] = Full /\ Flag \in dirty'[W]
      /\ \A l \in Chunks : copy'[W][l] = copy[W][l] /\ (l \in dirty'[W] <=> l \in dirty[W])
      /\ \A l \in Line : copy'[R][l] = copy[R][l]
      /\ dirty'[R] = dirty[R]
  BY <1>1, ShareParts, StoreLine
<1>4. TypeOK'
  BY <1>1, <1>2, <1>3, ShareParts DEF HandInv, TypeOK, MemInv, MemTypeOK
<1>5. LinesHold'
  BY <1>3, ShareParts DEF HandInv, LinesHold, DirtyHasCopy
<1>6. WriterFlag'
  BY <1>1, <1>3, ShareParts DEF HandInv, WriterFlag, ReaderFlag, LinesHold
<1>7. BlockHidden'
  BY <1>1, <1>3, ShareParts DEF HandInv, BlockHidden, WriterFlag, WriterFull, ReaderFlag, LinesHold, Whole
<1>8. ReaderFlag'
  BY <1>1, <1>3, ShareParts DEF HandInv, ReaderFlag, WriterFlag, WriterFull, BlockHidden, LinesHold, TypeOK
<1>9. ReaderBlock'
  BY <1>1, <1>3, ShareParts DEF HandInv, ReaderBlock, ReaderFlag, WriterFlag, WriterFull, BlockHidden, LinesHold, Whole, Sees
<1>. QED  BY <1>2, <1>4, <1>5, <1>6, <1>7, <1>8, <1>9 DEF HandInv

\* The writer flushes its block.
LEMMA FlushDataStep ==
    ASSUME HandInv, FlushData
    PROVE  HandInv'
<1>. USE DEF writerVars, readerVars, memVars, procVars
<1>1. /\ wpc = "flush" /\ wpc' = "set" /\ Flush(W, Chunks)
      /\ UNCHANGED <<engine, source, left, readerVars, booted, botched>>
  BY DEF FlushData
<1>2. MemInv' /\ DirtyHasCopy'
  BY <1>1, ShareParts, FlushChunks DEF MemInv
<1>3. /\ \A l \in Chunks : /\ mem'[l] = IF l \in dirty[W] THEN copy[W][l] ELSE mem[l]
                           /\ copy'[W][l] = NoCopy /\ l \notin dirty'[W]
      /\ mem'[Flag] = mem[Flag] /\ copy'[W][Flag] = copy[W][Flag]
      /\ Flag \in dirty'[W] <=> Flag \in dirty[W]
      /\ \A l \in Line : copy'[R][l] = copy[R][l]
      /\ dirty'[R] = dirty[R]
  BY <1>1, ShareParts, FlushChunks
<1>4. TypeOK'
  BY <1>1, <1>2, <1>3, ShareParts DEF HandInv, TypeOK, MemInv, MemTypeOK
<1>5. LinesHold'
  BY <1>3, ShareParts DEF HandInv, LinesHold, DirtyHasCopy
<1>6. WriterFlag'
  BY <1>1, <1>3, ShareParts DEF HandInv, WriterFlag, ReaderFlag, LinesHold
<1>7. BlockHidden'
  BY <1>1, <1>3, ShareParts DEF HandInv, BlockHidden, WriterFlag, WriterFull, ReaderFlag, LinesHold, Whole
<1>8. ReaderFlag'
  BY <1>1, <1>3, ShareParts DEF HandInv, ReaderFlag, WriterFlag, WriterFull, BlockHidden, LinesHold, TypeOK
<1>9. ReaderBlock'
  BY <1>1, <1>3, ShareParts DEF HandInv, ReaderBlock, ReaderFlag, WriterFlag, WriterFull, BlockHidden, LinesHold, Whole, Sees
<1>. QED  BY <1>2, <1>4, <1>5, <1>6, <1>7, <1>8, <1>9 DEF HandInv

\* The reader flushes its flag, before it looks at it or after it stored it.
LEMMA PollStep ==
    ASSUME HandInv, Poll \/ FlushEmpty
    PROVE  HandInv'
<1>. USE DEF writerVars, readerVars, memVars, procVars
<1>1. /\ \/ rpc = "poll" /\ rpc' = "test"
         \/ rpc = "resetflush" /\ rpc' = "check"
      /\ Flush(R, {Flag})
      /\ UNCHANGED <<engine, got, todo, rbotched, writerVars, booted, botched>>
  BY DEF Poll, FlushEmpty
<1>2. MemInv' /\ DirtyHasCopy'
  BY <1>1, ShareParts, FlushLine DEF MemInv
<1>3. /\ mem'[Flag] = IF Flag \in dirty[R] THEN copy[R][Flag] ELSE mem[Flag]
      /\ copy'[R][Flag] = NoCopy /\ Flag \notin dirty'[R]
      /\ \A l \in Chunks : /\ mem'[l] = mem[l] /\ copy'[R][l] = copy[R][l]
                           /\ l \in dirty'[R] <=> l \in dirty[R]
      /\ \A l \in Line : copy'[W][l] = copy[W][l]
      /\ dirty'[W] = dirty[W]
  BY <1>1, ShareParts, FlushLine
<1>a. Whole(mem)' <=> Whole(mem)
  BY <1>3 DEF Whole
<1>b. Whole(got)' <=> Whole(got)
  BY <1>1 DEF Whole
<1>c. dirty'[R] \subseteq {Flag}
  BY <1>2, <1>3, ShareParts DEF HandInv, TypeOK, MemInv, MemTypeOK
<1>4. TypeOK'
  BY <1>1, <1>2, <1>c, ShareParts DEF HandInv, TypeOK, MemInv, MemTypeOK
<1>5. LinesHold'
  BY <1>3, ShareParts DEF HandInv, LinesHold, DirtyHasCopy
<1>6. WriterFlag'
  BY <1>1, <1>3, ShareParts DEF HandInv, WriterFlag, ReaderFlag, LinesHold
<1>7. BlockHidden'
  BY <1>1, <1>3, <1>a, ShareParts DEF HandInv, BlockHidden, WriterFlag, WriterFull, ReaderFlag, LinesHold, DirtyHasCopy
<1>8. ReaderFlag'
  BY <1>1, <1>3, ShareParts DEF HandInv, ReaderFlag, WriterFlag, WriterFull, BlockHidden, LinesHold, TypeOK
<1>9. ReaderBlock'
  BY <1>1, <1>3, <1>b, ShareParts DEF HandInv, ReaderBlock
<1>. QED  BY <1>2, <1>4, <1>5, <1>6, <1>7, <1>8, <1>9 DEF HandInv

\* The reader looks at its flag.
LEMMA TestFullStep ==
    ASSUME HandInv, TestFull
    PROVE  HandInv'
<1>. USE DEF writerVars, readerVars, memVars, procVars
<1>1. /\ rpc = "test" /\ Load(R, Flag) /\ rbotched' = botched
      /\ rpc' = IF Sees(R, Flag) = Full THEN "drop" ELSE "poll"
      /\ UNCHANGED <<engine, got, todo, writerVars, booted, botched>>
  BY DEF TestFull
<1>2. MemInv' /\ DirtyHasCopy'
  BY <1>1, ShareParts, LoadLine DEF MemInv
<1>3. /\ mem' = mem /\ dirty' = dirty
      /\ copy'[R][Flag] = IF copy[R][Flag] # NoCopy THEN copy[R][Flag] ELSE mem[Flag]
      /\ \A l \in Chunks : copy'[R][l] = copy[R][l]
      /\ \A l \in Line : copy'[W][l] = copy[W][l]
  BY <1>1, ShareParts, LoadLine
<1>4. TypeOK'
  BY <1>1, <1>2, <1>3, ShareParts DEF HandInv, TypeOK, MemInv, MemTypeOK
<1>5. LinesHold'
  BY <1>3, ShareParts DEF HandInv, LinesHold, DirtyHasCopy
<1>6. WriterFlag'
  BY <1>1, <1>3, ShareParts DEF HandInv, WriterFlag, ReaderFlag, LinesHold
<1>7. BlockHidden'
  BY <1>1, <1>3, ShareParts DEF HandInv, BlockHidden, WriterFlag, WriterFull, ReaderFlag, LinesHold, Whole
<1>8. ReaderFlag'
  BY <1>1, <1>3, ShareParts DEF HandInv, ReaderFlag, WriterFlag, WriterFull, BlockHidden, LinesHold, TypeOK, Sees
<1>9. ReaderBlock'
  BY <1>1, <1>3, ShareParts DEF HandInv, ReaderBlock, ReaderFlag, WriterFlag, WriterFull, BlockHidden, LinesHold, Whole, Sees
<1>. QED  BY <1>2, <1>4, <1>5, <1>6, <1>7, <1>8, <1>9 DEF HandInv

\* The reader drops its copies of the block.
LEMMA DropStep ==
    ASSUME HandInv, DropStale
    PROVE  HandInv'
<1>. USE DEF writerVars, readerVars, memVars, procVars
<1>1. /\ rpc = "drop" /\ rpc' = "read" /\ todo' = Chunks /\ Flush(R, Chunks)
      /\ UNCHANGED <<engine, got, rbotched, writerVars, booted, botched>>
  BY DEF DropStale
<1>2. MemInv' /\ DirtyHasCopy'
  BY <1>1, ShareParts, FlushChunks DEF MemInv
<1>3. /\ \A l \in Chunks : /\ mem'[l] = IF l \in dirty[R] THEN copy[R][l] ELSE mem[l]
                           /\ copy'[R][l] = NoCopy /\ l \notin dirty'[R]
      /\ mem'[Flag] = mem[Flag] /\ copy'[R][Flag] = copy[R][Flag]
      /\ Flag \in dirty'[R] <=> Flag \in dirty[R]
      /\ \A l \in Line : copy'[W][l] = copy[W][l]
      /\ dirty'[W] = dirty[W]
  BY <1>1, ShareParts, FlushChunks
<1>a. \A l \in Chunks : mem'[l] = mem[l]
  BY <1>3, ShareParts DEF HandInv, TypeOK
<1>b. Whole(mem)' <=> Whole(mem)
  BY <1>a DEF Whole
<1>4. TypeOK'
  BY <1>1, <1>2, <1>3, ShareParts DEF HandInv, TypeOK, MemInv, MemTypeOK
<1>5. LinesHold'
  BY <1>3, ShareParts DEF HandInv, LinesHold, DirtyHasCopy
<1>6. WriterFlag'
  BY <1>1, <1>3, ShareParts DEF HandInv, WriterFlag, ReaderFlag, LinesHold
<1>7. BlockHidden'
  BY <1>1, <1>3, <1>a, <1>b, ShareParts DEF HandInv, BlockHidden, WriterFull
<1>8. ReaderFlag'
  BY <1>1, <1>3, ShareParts DEF HandInv, ReaderFlag, WriterFlag, WriterFull, BlockHidden, LinesHold, TypeOK
<1>9. ReaderBlock'
  BY <1>1, <1>3, ShareParts DEF HandInv, ReaderBlock, ReaderFlag, WriterFlag, WriterFull, BlockHidden, LinesHold, Whole, Sees
<1>. QED  BY <1>2, <1>4, <1>5, <1>6, <1>7, <1>8, <1>9 DEF HandInv

\* The reader stores the empty flag.
LEMMA SetEmptyStep ==
    ASSUME HandInv, SetEmpty
    PROVE  HandInv'
<1>. USE DEF writerVars, readerVars, memVars, procVars
<1>1. /\ rpc = "reset" /\ rpc' = "resetflush" /\ Store(R, Flag, Empty)
      /\ UNCHANGED <<engine, got, todo, rbotched, writerVars, booted, botched>>
  BY DEF SetEmpty
<1>2. MemInv' /\ DirtyHasCopy'
  BY <1>1, ShareParts, StoreLine DEF MemInv
<1>3. /\ mem' = mem
      /\ copy'[R][Flag] = Empty /\ Flag \in dirty'[R]
      /\ \A l \in Chunks : copy'[R][l] = copy[R][l] /\ (l \in dirty'[R] <=> l \in dirty[R])
      /\ \A l \in Line : copy'[W][l] = copy[W][l]
      /\ dirty'[W] = dirty[W]
  BY <1>1, ShareParts, StoreLine
<1>4. TypeOK'
  BY <1>1, <1>2, <1>3, ShareParts DEF HandInv, TypeOK, MemInv, MemTypeOK
<1>5. LinesHold'
  BY <1>3, ShareParts DEF HandInv, LinesHold, DirtyHasCopy
<1>6. WriterFlag'
  BY <1>1, <1>3, ShareParts DEF HandInv, WriterFlag, ReaderFlag, LinesHold
<1>7. BlockHidden'
  BY <1>1, <1>3, ShareParts DEF HandInv, BlockHidden, WriterFlag, WriterFull, ReaderFlag, LinesHold, Whole
<1>8. ReaderFlag'
  BY <1>1, <1>3, ShareParts DEF HandInv, ReaderFlag, WriterFlag, WriterFull, BlockHidden, LinesHold, TypeOK
<1>9. ReaderBlock'
  BY <1>1, <1>3, ShareParts DEF HandInv, ReaderBlock, ReaderFlag, WriterFlag, WriterFull, BlockHidden, LinesHold, Whole, Sees
<1>. QED  BY <1>2, <1>4, <1>5, <1>6, <1>7, <1>8, <1>9 DEF HandInv

\* The writer looks at its flag, and begins a new block or not.
LEMMA TestEmptyStep ==
    ASSUME HandInv, NEW c \in Content, TestEmpty(c)
    PROVE  HandInv'
<1>. USE DEF writerVars, readerVars, memVars, procVars
<1>1. /\ wpc = "test" /\ Load(W, Flag)
      /\ IF Sees(W, Flag) = Empty
         THEN /\ source' = c /\ left' = Chunks /\ wpc' = "copy"
              /\ booted' = (booted /\ ~Settled) /\ botched' = FALSE
         ELSE wpc' = "fill" /\ UNCHANGED <<source, left, booted, botched>>
      /\ UNCHANGED <<engine, readerVars>>
  BY DEF TestEmpty, StartCopy
<1>2. MemInv' /\ DirtyHasCopy'
  BY <1>1, ShareParts, LoadLine DEF MemInv
<1>3. /\ mem' = mem /\ dirty' = dirty
      /\ copy'[W][Flag] = IF copy[W][Flag] # NoCopy THEN copy[W][Flag] ELSE mem[Flag]
      /\ \A l \in Chunks : copy'[W][l] = copy[W][l]
      /\ \A l \in Line : copy'[R][l] = copy[R][l]
  BY <1>1, ShareParts, LoadLine
\* The flag the writer has is not newer than the memory's, and as empty.
<1>4. Flag \notin dirty[W] /\ (Sees(W, Flag) = Empty => mem[Flag] = Empty)
  BY <1>1, ShareParts DEF HandInv, WriterFlag, Sees
<1>5. TypeOK'
  <2>1. wpc' \in {"copy", "fill"} /\ source' \in Content /\ left' \subseteq Chunks
    BY <1>1 DEF HandInv, TypeOK
  <2>2. booted' \in BOOLEAN /\ botched' \in BOOLEAN
    BY <1>1 DEF HandInv, TypeOK
  <2>3. /\ engine' \in {"memcpy", "dsa"} /\ rpc' = rpc /\ got' \in [Chunks -> Content]
        /\ todo' \subseteq Chunks /\ dirty'[R] \subseteq {Flag} /\ rbotched' \in BOOLEAN
    BY <1>1, <1>3 DEF HandInv, TypeOK
  <2>. QED  BY <1>2, <2>1, <2>2, <2>3 DEF HandInv, TypeOK, MemInv
<1>6. LinesHold'
  BY <1>3, ShareParts DEF HandInv, LinesHold
<1>7. WriterFlag'
  BY <1>1, <1>3, <1>4, ShareParts DEF HandInv, WriterFlag, LinesHold
<1>8. ~WriterFull' /\ (mem[Flag] = Empty => mem'[Flag] = Empty)
  BY <1>3, <1>4 DEF WriterFull
<1>9. CASE Sees(W, Flag) = Empty
  <2>1. /\ source' = c /\ left' = Chunks /\ wpc' = "copy" /\ UNCHANGED <<engine, readerVars>>
        /\ booted' = (booted /\ ~Settled) /\ botched' = FALSE /\ mem[Flag] = Empty
    BY <1>1, <1>4, <1>9
  <2>2. BlockHidden'
    BY <1>3, <1>8, <2>1, ShareParts DEF HandInv, BlockHidden
  <2>3. CASE booted'
    <3>1. ReaderFlag' /\ ReaderBlock'
      BY <1>3, <2>1, <2>3, ShareParts DEF HandInv, ReaderFlag, ReaderBlock
    <3>. QED  BY <1>2, <1>5, <1>6, <1>7, <2>2, <3>1 DEF HandInv
  \* The start of the writer is over, and the reader knows of no block.
  <2>4. CASE ~booted'
    <3>1. CASE booted
      <4>1. Settled
        BY <2>1, <2>4, <3>1
      <4>2. /\ Flag \notin dirty'[R] /\ rpc' \in {"poll", "dead", "test"}
            /\ rpc' \notin {"poll", "dead"} => copy'[R][Flag] # Full
        BY <1>3, <2>1, <4>1, ShareParts DEF Settled
      <4>3. ReaderFlag'
        BY <4>2 DEF ReaderFlag
      <4>4. ReaderBlock'
        BY <4>2 DEF ReaderBlock
      <4>. QED  BY <1>2, <1>5, <1>6, <1>7, <2>2, <4>3, <4>4 DEF HandInv
    <3>2. CASE ~booted
      <4>1. /\ Flag \notin dirty[R] /\ rpc \notin {"drop", "read", "reset"}
            /\ rpc \notin {"poll", "dead"} => copy[R][Flag] # Full
        BY <2>1, <3>2, ShareParts DEF HandInv, ReaderFlag
      <4>2. ReaderFlag'
        BY <1>3, <2>1, <4>1, ShareParts DEF ReaderFlag
      <4>3. Whole(got)' <=> Whole(got)
        BY <2>1 DEF Whole
      <4>4. ReaderBlock'
        BY <1>3, <2>1, <3>2, <4>1, <4>3 DEF HandInv, ReaderBlock
      <4>. QED  BY <1>2, <1>5, <1>6, <1>7, <2>2, <4>2, <4>4 DEF HandInv
    <3>. QED  BY <3>1, <3>2 DEF HandInv, TypeOK
  <2>. QED  BY <2>3, <2>4
<1>10. CASE Sees(W, Flag) # Empty
  <2>1. /\ wpc' = "fill" /\ UNCHANGED <<source, left, booted, botched, engine, readerVars>>
    BY <1>1, <1>10
  <2>2. Whole(mem)' <=> Whole(mem)
    BY <1>3 DEF Whole
  <2>3. Whole(got)' <=> Whole(got)
    BY <2>1 DEF Whole
  <2>4. BlockHidden'
    BY <1>1, <1>3, <1>8, <2>1, <2>2, ShareParts DEF HandInv, BlockHidden
  <2>5. ReaderFlag'
    BY <1>3, <2>1, ShareParts DEF HandInv, ReaderFlag
  <2>6. ReaderBlock'
    BY <1>3, <2>1, <2>3, ShareParts DEF HandInv, ReaderBlock
  <2>. QED  BY <1>2, <1>5, <1>6, <1>7, <2>4, <2>5, <2>6 DEF HandInv
<1>. QED  BY <1>9, <1>10

\* The writer copies a line of its block, through its cache or past it.
LEMMA CopyChunkStep ==
    ASSUME HandInv, NEW l \in Chunks, CopyChunk(l)
    PROVE  HandInv'
<1>. USE DEF writerVars, readerVars, memVars, procVars
<1>1. /\ wpc = "copy" /\ l \in left /\ left' = left \ {l}
      /\ engine \in {"memcpy", "dsa"}
      /\ IF engine = "dsa" THEN DirectStore(W, l, source) ELSE Store(W, l, source)
      /\ wpc' = IF left' # {} THEN "copy" ELSE IF engine = "dsa" THEN "set" ELSE "flush"
      /\ UNCHANGED <<engine, source, readerVars, booted, botched>>
  BY DEF CopyChunk, HandInv, TypeOK
<1>2. l \in Line /\ l # Flag /\ source \in Value /\ source \in Content
  BY ShareParts DEF HandInv, TypeOK
<1>3. MemInv' /\ DirtyHasCopy'
  <2>1. CASE engine = "dsa"
    BY <1>1, <1>2, <2>1, ShareParts, DirectStoreLine DEF MemInv
  <2>2. CASE engine # "dsa"
    BY <1>1, <1>2, <2>2, ShareParts, StoreLine DEF MemInv
  <2>. QED  BY <2>1, <2>2
<1>4. /\ IF engine = "dsa"
         THEN mem'[l] = source /\ l \notin dirty'[W] /\ copy'[W][l] = NoCopy
         ELSE mem'[l] = mem[l] /\ l \in dirty'[W] /\ copy'[W][l] = source
      /\ \A k \in Line : k # l => /\ mem'[k] = mem[k] /\ copy'[W][k] = copy[W][k]
                                  /\ k \in dirty'[W] <=> k \in dirty[W]
      /\ \A k \in Line : copy'[R][k] = copy[R][k]
      /\ dirty'[R] = dirty[R]
  <2>1. CASE engine = "dsa"
    BY <1>1, <1>2, <2>1, ShareParts, DirectStoreLine
  <2>2. CASE engine # "dsa"
    BY <1>1, <1>2, <2>2, ShareParts, StoreLine
  <2>. QED  BY <2>1, <2>2
\* Nothing announces the block meanwhile.
<1>5. /\ mem[Flag] = Empty /\ ~WriterFull
      /\ mem'[Flag] = mem[Flag] /\ copy'[W][Flag] = copy[W][Flag]
      /\ Flag \in dirty'[W] <=> Flag \in dirty[W]
  BY <1>1, <1>2, <1>4, ShareParts DEF HandInv, BlockHidden
<1>6. Whole(got)' <=> Whole(got)
  BY <1>1 DEF Whole
<1>7. TypeOK'
  BY <1>1, <1>3, <1>4 DEF HandInv, TypeOK, MemInv
<1>8. LinesHold'
  BY <1>2, <1>4, <1>5, ShareParts DEF HandInv, LinesHold
<1>9. WriterFlag'
  BY <1>1, <1>5, ShareParts DEF HandInv, WriterFlag
<1>10. \A k \in Chunks \ left' : IF k \in dirty'[W] THEN copy'[W][k] = source' ELSE mem'[k] = source'
  BY <1>1, <1>2, <1>4, ShareParts DEF HandInv, BlockHidden
<1>11. engine = "dsa" => \A k \in Chunks : k \notin dirty'[W]
  BY <1>4, ShareParts DEF HandInv, BlockHidden
<1>12. BlockHidden'
  <2>1. wpc' # "copy" => left' = {}
    BY <1>1
  <2>2. wpc' = "set" => engine = "dsa" /\ \A k \in Chunks : mem'[k] = source'
    BY <1>1, <1>10, <1>11, <2>1
  <2>3. mem'[Flag] = Empty /\ ~WriterFull' /\ mem'[Flag] # Full
    BY <1>5, ShareParts DEF WriterFull
  <2>4. wpc' = "flush" => left' = {}
    BY <2>1
  <2>5. engine' = "dsa" \/ wpc' = "set" => \A k \in Chunks : k \notin dirty'[W]
    BY <1>1, <1>11, <2>2
  <2>. QED  BY <1>10, <2>2, <2>3, <2>4, <2>5 DEF BlockHidden
<1>13. ReaderFlag'
  BY <1>1, <1>4, <1>5, ShareParts DEF HandInv, ReaderFlag
<1>14. ReaderBlock'
  <2>1. SUFFICES ASSUME ~booted PROVE ReaderBlock'
    BY <1>1 DEF ReaderBlock
  <2>2. Flag \notin dirty'[R] /\ rpc' \notin {"drop", "read", "reset"}
    BY <1>1, <1>4, <1>5, <2>1, ShareParts DEF HandInv, ReaderFlag
  <2>3. rpc' = rpc /\ rbotched' = rbotched /\ booted' = booted
    BY <1>1
  <2>. QED  BY <1>6, <2>2, <2>3 DEF HandInv, ReaderBlock
<1>. QED  BY <1>3, <1>7, <1>8, <1>9, <1>12, <1>13, <1>14 DEF HandInv

\* Steps that leave memory and caches alone: the accelerator of the writer fails,
\* or a process is killed.
LEMMA NoAccessStep ==
    ASSUME HandInv, DsaWriteFails \/ RestartWriter \/ RestartReader \/ UNCHANGED vars
    PROVE  HandInv'
<1>. USE DEF writerVars, readerVars, memVars, procVars
<1>1. UNCHANGED <<memVars, engine, source, got, booted, rbotched>>
  BY DEF DsaWriteFails, RestartWriter, RestartReader, vars
<1>2. Whole(mem)' = Whole(mem) /\ Whole(got)' = Whole(got) /\ WriterFull' = WriterFull
  BY <1>1 DEF Whole, WriterFull
<1>3. CASE DsaWriteFails
  <2>1. /\ wpc = "copy" /\ engine = "dsa" /\ left' = {} /\ wpc' = "set" /\ botched' = TRUE
        /\ UNCHANGED <<rpc, todo>>
    BY <1>3 DEF DsaWriteFails
  <2>2. TypeOK'
    BY <1>1, <2>1 DEF HandInv, TypeOK, MemTypeOK
  <2>3. DirtyHasCopy' /\ LinesHold' /\ WriterFlag' /\ ReaderFlag'
    BY <1>1, <2>1 DEF HandInv, DirtyHasCopy, LinesHold, WriterFlag, ReaderFlag
  <2>4. BlockHidden'
    BY <1>1, <1>2, <2>1 DEF HandInv, BlockHidden
  <2>5. ~booted => rpc \notin {"drop", "read", "reset"} /\ Flag \notin dirty[R]
    BY <2>1, ShareParts DEF HandInv, BlockHidden, ReaderFlag
  <2>6. ReaderBlock'
    BY <1>1, <1>2, <2>1, <2>5 DEF HandInv, ReaderBlock
  <2>. QED  BY <2>2, <2>3, <2>4, <2>6 DEF HandInv
<1>4. CASE RestartWriter
  <2>1. wpc \notin {"boot", "bootflush"} /\ wpc' = "boot" /\ left' = {} /\ UNCHANGED <<rpc, todo, botched>>
    BY <1>4 DEF RestartWriter
  <2>2. TypeOK'
    BY <1>1, <2>1 DEF HandInv, TypeOK, MemTypeOK
  <2>3. DirtyHasCopy' /\ LinesHold' /\ WriterFlag' /\ ReaderFlag'
    BY <1>1, <2>1 DEF HandInv, DirtyHasCopy, LinesHold, WriterFlag, ReaderFlag
  <2>4. BlockHidden'
    BY <1>1, <1>2, <2>1 DEF HandInv, BlockHidden
  <2>5. ReaderBlock'
    BY <1>1, <1>2, <2>1 DEF HandInv, ReaderBlock
  <2>. QED  BY <2>2, <2>3, <2>4, <2>5 DEF HandInv
<1>5. CASE RestartReader
  <2>1. rpc # "poll" /\ rpc' = "poll" /\ todo' = {} /\ UNCHANGED <<wpc, left, botched>>
    BY <1>5 DEF RestartReader
  <2>2. TypeOK'
    BY <1>1, <2>1 DEF HandInv, TypeOK, MemTypeOK
  <2>3. DirtyHasCopy' /\ LinesHold' /\ WriterFlag' /\ ReaderFlag'
    BY <1>1, <2>1 DEF HandInv, DirtyHasCopy, LinesHold, WriterFlag, ReaderFlag
  <2>4. BlockHidden'
    BY <1>1, <1>2, <2>1 DEF HandInv, BlockHidden
  <2>5. ReaderBlock'
    BY <1>1, <1>2, <2>1 DEF HandInv, ReaderBlock
  <2>. QED  BY <2>2, <2>3, <2>4, <2>5 DEF HandInv
<1>6. CASE UNCHANGED vars
  <2>1. UNCHANGED <<wpc, left, rpc, todo, botched>>
    BY <1>6 DEF vars
  <2>2. TypeOK' /\ DirtyHasCopy' /\ LinesHold' /\ WriterFlag' /\ ReaderFlag'
    BY <1>1, <2>1 DEF HandInv, TypeOK, MemTypeOK, DirtyHasCopy, LinesHold, WriterFlag, ReaderFlag
  <2>3. BlockHidden' /\ ReaderBlock'
    BY <1>1, <1>2, <2>1 DEF HandInv, BlockHidden, ReaderBlock
  <2>. QED  BY <2>2, <2>3 DEF HandInv
<1>. QED  BY <1>3, <1>4, <1>5, <1>6

\* The reader copies a line of the block, by a load or past its cache.
LEMMA ReadChunkStep ==
    ASSUME HandInv, NEW l \in Chunks, ReadChunk(l)
    PROVE  HandInv'
<1>. USE DEF writerVars, readerVars, memVars, procVars
<1>1. /\ rpc = "read" /\ l \in todo /\ todo' = todo \ {l}
      /\ UNCHANGED memVars \/ Load(R, l)
      /\ got' = [got EXCEPT ![l] = Sees(R, l)]
      /\ rpc' = IF todo' = {} THEN "reset" ELSE "read"
      /\ UNCHANGED <<engine, rbotched, writerVars, booted, botched>>
  BY DEF ReadChunk
<1>2. l \in Line /\ l # Flag
  BY ShareParts
<1>3. MemInv' /\ DirtyHasCopy'
  <2>1. CASE UNCHANGED memVars
    BY <2>1 DEF HandInv, TypeOK, MemInv, MemTypeOK, DirtyHasCopy
  <2>2. CASE Load(R, l)
    BY <1>2, <2>2, ShareParts, LoadLine DEF MemInv
  <2>. QED  BY <1>1, <2>1, <2>2
<1>4. /\ mem' = mem /\ dirty' = dirty
      /\ copy'[R][l] \in {copy[R][l], Sees(R, l)}
      /\ \A k \in Line : k # l => copy'[R][k] = copy[R][k]
      /\ \A k \in Line : copy'[W][k] = copy[W][k]
  <2>1. CASE UNCHANGED memVars
    BY <2>1
  <2>2. CASE Load(R, l)
    BY <1>2, <2>2, ShareParts, LoadLine DEF Sees
  <2>. QED  BY <1>1, <2>1, <2>2
<1>5. /\ Sees(R, l) \in Content /\ (copy[R][l] \in {NoCopy, mem[l]} => Sees(R, l) = mem[l])
      /\ copy[R][Flag] = copy'[R][Flag] /\ copy'[W][Flag] = copy[W][Flag]
  BY <1>2, <1>4, ShareParts DEF HandInv, LinesHold, Sees
<1>6. /\ got' \in [Chunks -> Content] /\ got'[l] = Sees(R, l)
      /\ \A k \in Chunks : k # l => got'[k] = got[k]
  BY <1>1, <1>5 DEF HandInv, TypeOK
<1>7. TypeOK'
  BY <1>1, <1>3, <1>4, <1>6 DEF HandInv, TypeOK, MemInv
<1>8. LinesHold'
  BY <1>2, <1>4, <1>5, ShareParts DEF HandInv, LinesHold
<1>9. WriterFlag'
  BY <1>1, <1>4, <1>5 DEF HandInv, WriterFlag
<1>10. BlockHidden'
  <2>1. Whole(mem)' = Whole(mem) /\ WriterFull' = WriterFull
    BY <1>4, <1>5 DEF Whole, WriterFull
  <2>2. \A k \in Chunks : copy'[W][k] = copy[W][k]
    BY <1>4, ShareParts
  <2>. QED  BY <1>1, <1>4, <2>1, <2>2 DEF HandInv, BlockHidden
<1>11. ReaderFlag'
  BY <1>1, <1>4, <1>5 DEF HandInv, ReaderFlag
<1>12. ReaderBlock'
  <2>1. SUFFICES ASSUME ~booted, ~rbotched PROVE ReaderBlock'
    BY <1>1 DEF ReaderBlock
  <2>2. /\ mem[Flag] = Full /\ ~botched /\ Flag \notin dirty[R]
        /\ \A k \in Chunks : /\ copy[R][k] \in {NoCopy, mem[k]}
                             /\ k \notin todo => got[k] = mem[k]
    <3>1. ReaderFlag /\ ReaderBlock
      BY DEF HandInv
    <3>2. mem[Flag] = Full /\ Flag \notin dirty[R]
      BY <1>1, <2>1, <3>1 DEF ReaderFlag
    <3>. QED  BY <1>1, <2>1, <3>1, <3>2 DEF ReaderBlock
  <2>3. Whole(mem)
    BY <2>2 DEF HandInv, BlockHidden
  <2>4. \A k \in Chunks : /\ copy'[R][k] \in {NoCopy, mem'[k]}
                          /\ k \notin todo' => got'[k] = mem'[k]
    BY <1>1, <1>4, <1>5, <1>6, <2>2, ShareParts
  <2>5. rpc' = "reset" => \A k \in Chunks : got'[k] = mem[k]
    BY <1>1, <1>4, <2>4
  <2>6. rpc' = "reset" => Whole(got')
    BY <2>3, <2>5 DEF Whole
  <2>7. rpc' \in {"reset", "read"} /\ Flag \notin dirty'[R] /\ ~botched'
    BY <1>1, <1>4, <2>2
  <2>8. rpc' = "reset" => Whole(got)' /\ \A k \in Chunks : got'[k] = mem'[k]
    BY <1>4, <2>5, <2>6 DEF Whole
  <2>. QED  BY <2>4, <2>7, <2>8 DEF ReaderBlock
<1>. QED  BY <1>3, <1>7, <1>8, <1>9, <1>10, <1>11, <1>12 DEF HandInv

\* The accelerator of the reader fails, or the reader checks its block.
LEMMA ReaderLocalStep ==
    ASSUME HandInv, DsaReadFails \/ CheckCrc
    PROVE  HandInv'
<1>. USE DEF writerVars, readerVars, memVars, procVars
<1>1. UNCHANGED <<memVars, engine, writerVars, got, booted, botched>>
  BY DEF DsaReadFails, CheckCrc
<1>2. Whole(mem)' = Whole(mem) /\ Whole(got)' = Whole(got) /\ WriterFull' = WriterFull
  BY <1>1 DEF Whole, WriterFull
<1>3. /\ \/ rpc = "read" /\ rpc' = "reset" /\ rbotched' = TRUE /\ todo' = {}
         \/ rpc = "check" /\ rpc' \in {"poll", "dead"} /\ rbotched' = rbotched /\ todo' = todo
  BY DEF DsaReadFails, CheckCrc
<1>4. TypeOK'
  BY <1>1, <1>3 DEF HandInv, TypeOK, MemTypeOK
<1>5. DirtyHasCopy' /\ LinesHold' /\ WriterFlag'
  BY <1>1 DEF HandInv, DirtyHasCopy, LinesHold, WriterFlag
<1>6. BlockHidden'
  BY <1>1, <1>2 DEF HandInv, BlockHidden
<1>7. ReaderFlag' /\ ReaderBlock'
  BY <1>1, <1>2, <1>3 DEF HandInv, ReaderFlag, ReaderBlock
<1>. QED  BY <1>4, <1>5, <1>6, <1>7 DEF HandInv

\* A cache writes a line back and drops it, or fetches one.
LEMMA EvictStep ==
    ASSUME HandInv, NEW h \in Host, NEW l \in Line, Evict(h, l), UNCHANGED procVars
    PROVE  HandInv'
<1>. USE DEF writerVars, readerVars, memVars, procVars
<1>1. Flush(h, {l}) /\ UNCHANGED <<engine, wpc, source, left, rpc, got, todo, rbotched, booted, botched>>
  BY DEF Evict
<1>2. PICK g \in Host : g # h /\ \A f \in Host : f = h \/ f = g
  BY ShareParts
<1>3. MemInv' /\ DirtyHasCopy'
  BY <1>1, <1>2, FlushLine DEF MemInv
<1>4. /\ mem'[l] = IF l \in dirty[h] THEN copy[h][l] ELSE mem[l]
      /\ copy'[h][l] = NoCopy /\ l \notin dirty'[h]
      /\ \A k \in Line : k # l => /\ mem'[k] = mem[k] /\ copy'[h][k] = copy[h][k]
                                  /\ k \in dirty'[h] <=> k \in dirty[h]
      /\ \A k \in Line : copy'[g][k] = copy[g][k]
      /\ dirty'[g] = dirty[g]
  BY <1>1, <1>2, FlushLine
<1>5. Whole(got)' = Whole(got)
  BY <1>1 DEF Whole
<1>6. TypeOK'
  <2>1. dirty'[R] \subseteq {Flag}
    BY <1>2, <1>3, <1>4, ShareParts DEF HandInv, TypeOK, MemInv, MemTypeOK
  <2>. QED  BY <1>1, <1>3, <2>1 DEF HandInv, TypeOK, MemInv
<1>7. LinesHold'
  BY <1>2, <1>4, ShareParts DEF HandInv, LinesHold, DirtyHasCopy
<1>8. CASE h = W /\ l = Flag
  <2>1. /\ mem'[Flag] = IF Flag \in dirty[W] THEN copy[W][Flag] ELSE mem[Flag]
        /\ copy'[W][Flag] = NoCopy /\ Flag \notin dirty'[W]
        /\ \A k \in Chunks : /\ mem'[k] = mem[k] /\ copy'[W][k] = copy[W][k] /\ copy'[R][k] = copy[R][k]
                             /\ k \in dirty'[W] <=> k \in dirty[W]
        /\ copy'[R][Flag] = copy[R][Flag] /\ dirty'[R] = dirty[R]
    BY <1>2, <1>4, <1>8, ShareParts
  <2>2. Whole(mem)' <=> Whole(mem)
    BY <2>1 DEF Whole
  <2>3. WriterFlag'
    BY <1>1, <2>1, ShareParts DEF HandInv, WriterFlag
  <2>4. BlockHidden'
    BY <1>1, <2>1, <2>2, ShareParts DEF HandInv, BlockHidden, WriterFlag, WriterFull
  <2>5. ReaderFlag'
    BY <1>1, <2>1, ShareParts DEF HandInv, ReaderFlag, WriterFlag
  <2>6. ReaderBlock'
    BY <1>1, <1>5, <2>1 DEF HandInv, ReaderBlock
  <2>. QED  BY <1>3, <1>6, <1>7, <2>3, <2>4, <2>5, <2>6 DEF HandInv
<1>9. CASE h = R /\ l = Flag
  <2>1. /\ mem'[Flag] = IF Flag \in dirty[R] THEN Empty ELSE mem[Flag]
        /\ copy'[R][Flag] = NoCopy /\ Flag \notin dirty'[R]
        /\ \A k \in Chunks : mem'[k] = mem[k] /\ copy'[R][k] = copy[R][k] /\ copy'[W][k] = copy[W][k]
        /\ copy'[W][Flag] = copy[W][Flag] /\ dirty'[W] = dirty[W]
    BY <1>2, <1>4, <1>9, ShareParts DEF HandInv, ReaderFlag
  <2>2. Whole(mem)' <=> Whole(mem)
    BY <2>1 DEF Whole
  <2>3. WriterFlag'
    BY <1>1, <2>1, ShareParts DEF HandInv, WriterFlag
  <2>4. BlockHidden'
    BY <1>1, <2>1, <2>2, ShareParts DEF HandInv, BlockHidden, WriterFull
  <2>5. ReaderFlag'
    BY <1>1, <2>1, ShareParts DEF HandInv, ReaderFlag
  <2>6. ReaderBlock'
    BY <1>1, <1>5, <2>1 DEF HandInv, ReaderBlock
  <2>. QED  BY <1>3, <1>6, <1>7, <2>3, <2>4, <2>5, <2>6 DEF HandInv
<1>10. CASE h = W /\ l \in Chunks
  <2>1. /\ mem'[Flag] = mem[Flag] /\ copy'[W][Flag] = copy[W][Flag] /\ copy'[R][Flag] = copy[R][Flag]
        /\ Flag \in dirty'[W] <=> Flag \in dirty[W]
        /\ dirty'[R] = dirty[R]
        /\ mem'[l] = IF l \in dirty[W] THEN copy[W][l] ELSE mem[l]
        /\ l \notin dirty'[W]
        /\ \A k \in Chunks : /\ k # l => /\ mem'[k] = mem[k] /\ copy'[W][k] = copy[W][k]
                                         /\ k \in dirty'[W] <=> k \in dirty[W]
                             /\ copy'[R][k] = copy[R][k]
    BY <1>2, <1>4, <1>10, ShareParts
  <2>2. l \notin dirty[W] => \A k \in Chunks : mem'[k] = mem[k]
    BY <2>1
  <2>3. l \in dirty[W] => mem[Flag] = Empty /\ ~WriterFull
    BY <1>10 DEF HandInv, BlockHidden
  <2>4. l \notin dirty[W] => Whole(mem)' = Whole(mem)
    BY <2>2 DEF Whole
  <2>5. WriterFlag' /\ WriterFull' = WriterFull
    BY <1>1, <2>1 DEF HandInv, WriterFlag, WriterFull
  <2>6. BlockHidden'
    <3>1. CASE l \in dirty[W]
      BY <1>1, <1>10, <2>1, <2>3, <2>5, <3>1, ShareParts DEF HandInv, BlockHidden
    <3>2. CASE l \notin dirty[W]
      BY <1>1, <1>10, <2>1, <2>2, <2>4, <2>5, <3>2 DEF HandInv, BlockHidden
    <3>. QED  BY <3>1, <3>2
  <2>7. ReaderFlag'
    BY <1>1, <2>1 DEF HandInv, ReaderFlag
  <2>8. ReaderBlock'
    <3>1. CASE l \in dirty[W]
      <4>1. mem[Flag] # Full
        BY <2>3, <3>1, ShareParts
      <4>2. ~booted => Flag \notin dirty'[R] /\ rpc' \notin {"drop", "read", "reset"}
        BY <1>1, <2>1, <4>1 DEF HandInv, ReaderFlag
      <4>. QED  BY <1>1, <1>5, <4>2 DEF HandInv, ReaderBlock
    <3>2. CASE l \notin dirty[W]
      BY <1>1, <1>5, <2>1, <2>2, <3>2 DEF HandInv, ReaderBlock
    <3>. QED  BY <3>1, <3>2
  <2>. QED  BY <1>3, <1>6, <1>7, <2>5, <2>6, <2>7, <2>8 DEF HandInv
<1>11. CASE h = R /\ l \in Chunks
  <2>1. /\ mem'[Flag] = mem[Flag] /\ copy'[W][Flag] = copy[W][Flag] /\ copy'[R][Flag] = copy[R][Flag]
        /\ Flag \in dirty'[R] <=> Flag \in dirty[R]
        /\ dirty'[W] = dirty[W]
        /\ \A k \in Chunks : /\ mem'[k] = mem[k] /\ copy'[W][k] = copy[W][k]
                             /\ copy'[R][k] \in {NoCopy, copy[R][k]}
    BY <1>2, <1>4, <1>11, ShareParts DEF HandInv, TypeOK
  <2>2. Whole(mem)' <=> Whole(mem)
    BY <2>1 DEF Whole
  <2>3. WriterFlag' /\ WriterFull' = WriterFull /\ ReaderFlag'
    BY <1>1, <2>1 DEF HandInv, WriterFlag, WriterFull, ReaderFlag
  <2>4. BlockHidden'
    BY <1>1, <2>1, <2>2, <2>3 DEF HandInv, BlockHidden
  <2>5. \A k \in Chunks : copy[R][k] \in {NoCopy, mem[k]} => copy'[R][k] \in {NoCopy, mem'[k]}
    BY <2>1
  <2>6. ReaderBlock'
    BY <1>1, <1>5, <2>1, <2>5 DEF HandInv, ReaderBlock
  <2>. QED  BY <1>3, <1>6, <1>7, <2>3, <2>4, <2>6 DEF HandInv
<1>. QED  BY <1>8, <1>9, <1>10, <1>11, ShareParts

LEMMA PrefetchStep ==
    ASSUME HandInv, NEW h \in Host, NEW l \in Line, h = R \/ l = Flag,
           Prefetch(h, l), UNCHANGED procVars
    PROVE  HandInv'
<1>. USE DEF writerVars, readerVars, memVars, procVars
<1>1. /\ copy[h][l] = NoCopy /\ Load(h, l)
      /\ UNCHANGED <<engine, wpc, source, left, rpc, got, todo, rbotched, booted, botched>>
  BY DEF Prefetch
<1>2. PICK g \in Host : g # h /\ \A f \in Host : f = h \/ f = g
  BY ShareParts
<1>3. MemInv' /\ DirtyHasCopy'
  BY <1>1, <1>2, LoadLine DEF MemInv
<1>4. /\ mem' = mem /\ dirty' = dirty
      /\ copy'[h][l] = mem[l]
      /\ \A k \in Line : k # l => copy'[h][k] = copy[h][k]
      /\ \A k \in Line : copy'[g][k] = copy[g][k]
  BY <1>1, <1>2, LoadLine
<1>5. /\ l \notin dirty[h]
      /\ \A k \in Chunks : copy'[W][k] = copy[W][k] /\ copy'[R][k] \in {copy[R][k], mem[k]}
      /\ copy'[W][Flag] = copy[W][Flag] \/ (copy'[W][Flag] = mem[Flag] /\ Flag \notin dirty[W])
      /\ copy'[R][Flag] = copy[R][Flag] \/ (copy'[R][Flag] = mem[Flag] /\ Flag \notin dirty[R])
  <2>1. l \notin dirty[h]
    BY <1>1 DEF HandInv, DirtyHasCopy
  <2>2. \A k \in Chunks : copy'[W][k] = copy[W][k] /\ copy'[R][k] \in {copy[R][k], mem[k]}
    BY <1>2, <1>4, ShareParts
  <2>3. \A f \in Host : copy'[f][Flag] = copy[f][Flag] \/ (copy'[f][Flag] = mem[Flag] /\ Flag \notin dirty[f])
    BY <1>2, <1>4, <2>1, ShareParts
  <2>. QED  BY <2>1, <2>2, <2>3, ShareParts
<1>6. Whole(got)' = Whole(got) /\ Whole(mem)' = Whole(mem)
  BY <1>1, <1>4 DEF Whole
<1>7. TypeOK'
  BY <1>1, <1>3, <1>4 DEF HandInv, TypeOK, MemInv
<1>8. LinesHold'
  BY <1>4, <1>5, ShareParts DEF HandInv, LinesHold
<1>9. WriterFlag' /\ WriterFull' = WriterFull
  BY <1>1, <1>4, <1>5, ShareParts DEF HandInv, WriterFlag, WriterFull
<1>10. BlockHidden'
  BY <1>1, <1>4, <1>5, <1>6, <1>9 DEF HandInv, BlockHidden
<1>11. ReaderFlag'
  BY <1>1, <1>4, <1>5 DEF HandInv, ReaderFlag
<1>12. ReaderBlock'
  <2>1. \A k \in Chunks : copy[R][k] \in {NoCopy, mem[k]} => copy'[R][k] \in {NoCopy, mem'[k]}
    BY <1>4, <1>5
  <2>. QED  BY <1>1, <1>4, <1>6, <2>1 DEF HandInv, ReaderBlock
<1>. QED  BY <1>3, <1>7, <1>8, <1>9, <1>10, <1>11, <1>12 DEF HandInv

-----------------------------------------------------------------------------
(* The theorems.                                                           *)

\* The file is made with an empty flag before either program is started.
LEMMA HandInit == Init => HandInv
<1>. SUFFICES ASSUME Init PROVE HandInv
  OBVIOUS
<1>1. PICK c \in Content : /\ mem = [l \in Line |-> IF l = Flag THEN Empty ELSE c]
                           /\ source = c /\ got = [l \in Chunks |-> c]
  BY DEF Init
<1>2. mem \in [Line -> Value]
  BY <1>1, ShareParts
<1>3. MemInv
  BY <1>2, MemInitType DEF Init
<1>4. /\ mem[Flag] = Empty /\ \A l \in Chunks : mem[l] = c
      /\ \A h \in Host : dirty[h] = {} /\ \A l \in Line : copy[h][l] = NoCopy
  BY <1>1, ShareParts DEF Init, EmptyCaches
<1>5. TypeOK
  BY <1>1, <1>3, <1>4, ShareParts DEF Init, TypeOK, MemInv
<1>6. LinesHold /\ WriterFlag
  BY <1>4, ShareParts DEF Init, LinesHold, WriterFlag
<1>7. BlockHidden
  BY <1>4, ShareParts DEF Init, BlockHidden, WriterFull
<1>8. ReaderFlag /\ ReaderBlock
  BY <1>4, ShareParts DEF Init, ReaderFlag, ReaderBlock
<1>. QED  BY <1>3, <1>5, <1>6, <1>7, <1>8 DEF HandInv, MemInv

LEMMA HardwareStep ==
    ASSUME HandInv, Hardware
    PROVE  HandInv'
<1>1. UNCHANGED procVars
  BY DEF Hardware
<1>2. CASE \E h \in Host, l \in Line : Evict(h, l)
  BY <1>1, <1>2, EvictStep
<1>3. CASE Prefetch(W, Flag)
  BY <1>1, <1>3, ShareParts, PrefetchStep
<1>4. CASE \E l \in Line : Prefetch(R, l)
  BY <1>1, <1>4, ShareParts, PrefetchStep
<1>. QED  BY <1>2, <1>3, <1>4 DEF Hardware

LEMMA HandStep == HandInv /\ [Next]_vars => HandInv'
<1>. SUFFICES ASSUME HandInv, [Next]_vars PROVE HandInv'
  OBVIOUS
<1>1. CASE WriterStep
  BY <1>1, BootStoreStep, FlushFlagStep, TestEmptyStep, CopyChunkStep, NoAccessStep,
     FlushDataStep, SetFullStep DEF WriterStep
<1>2. CASE ReaderStep
  BY <1>2, PollStep, TestFullStep, DropStep, ReadChunkStep, ReaderLocalStep, SetEmptyStep
     DEF ReaderStep
<1>3. CASE RestartWriter \/ RestartReader \/ UNCHANGED vars
  BY <1>3, NoAccessStep
<1>4. CASE Hardware
  BY <1>4, HardwareStep
<1>. QED  BY <1>1, <1>2, <1>3, <1>4 DEF Next

\* The invariant that the other theorems rest on holds in every reachable state.
THEOREM HandInvariant == Spec => []HandInv
  BY HandInit, HandStep, PTL DEF Spec

\* The assert of meta_read and dsa_meta_read holds for blocks of any size and
\* for any interleaving of the two processes and their caches: a block that was
\* read while no start of the writer and no error of the accelerator was in the
\* way is one fill.
THEOREM ChecksumMatches == Spec => []CrcMatches
<1>1. HandInv => CrcMatches
  BY DEF HandInv, ReaderBlock, CrcMatches
<1>. QED  BY <1>1, HandInvariant, PTL

\* The flag in memory is full only over a block that is in memory as a whole,
\* even if either process is killed and started again anywhere.
THEOREM AnnouncedBlockWhole == Spec => []PublishedWhole
<1>1. HandInv => PublishedWhole
  BY DEF HandInv, BlockHidden, PublishedWhole
<1>. QED  BY <1>1, HandInvariant, PTL

\* Only the reader's empty flag takes an announcement back.
LEMMA FlagKept ==
    ASSUME HandInv, ~booted, mem[Flag] = Full, Next
    PROVE  mem'[Flag] = Full \/ Flag \in dirty[R]
<1>. USE DEF writerVars, readerVars, memVars, procVars
<1>1. /\ wpc \notin {"bootflush", "copy", "flush"}
      /\ Flag \in dirty[W] => copy[W][Flag] = Full
  BY ShareParts DEF HandInv, BlockHidden, WriterFlag, TypeOK
<1>3. ASSUME NEW h \in Host, NEW l \in Line, Flush(h, {l})
      PROVE  mem'[Flag] = Full \/ Flag \in dirty[R]
  <2>1. PICK g \in Host : g # h
    BY ShareParts
  <2>2. /\ mem'[l] = IF l \in dirty[h] THEN copy[h][l] ELSE mem[l]
        /\ \A k \in Line : k # l => mem'[k] = mem[k]
    BY <1>3, <2>1, FlushLine
  <2>. QED  BY <1>1, <2>2, ShareParts
<1>4. CASE Flush(R, Chunks)
  BY <1>4, ShareParts, FlushChunks
<1>5. CASE \E h \in Host, l \in Line : Flush(h, {l})
  BY <1>3, <1>5
<1>6. CASE mem' = mem
  BY <1>6
<1>7. CASE WriterStep
  <2>1. wpc \notin {"bootflush", "copy", "flush"}
    BY <1>1
  <2>2. mem' = mem \/ Flush(W, {Flag})
    BY <1>7, <2>1 DEF WriterStep, BootStore, BootFlush, Fill, TestEmpty, CopyChunk, DsaWriteFails,
       FlushData, SetFull, FlushFull, Store, Load
  <2>. QED  BY <1>3, <1>6, <2>2, ShareParts
<1>8. CASE ReaderStep
  <2>1. mem' = mem \/ Flush(R, {Flag}) \/ Flush(R, Chunks)
    BY <1>8 DEF ReaderStep, Poll, TestFull, DropStale, ReadChunk, DsaReadFails, SetEmpty,
       FlushEmpty, CheckCrc, Store, Load
  <2>. QED  BY <1>3, <1>4, <1>6, <2>1, ShareParts
<1>9. CASE RestartWriter \/ RestartReader
  BY <1>6, <1>9 DEF RestartWriter, RestartReader
<1>10. CASE Hardware
  BY <1>5, <1>6, <1>10 DEF Hardware, Evict, Prefetch, Load
<1>. QED  BY <1>7, <1>8, <1>9, <1>10 DEF Next

\* What a step other than SetFull does to the flag and the block: the writer's
\* cache gets no new full flag, only its full flag makes the one in memory full,
\* and a block that is announced, or about to be, stays as it is.
Kept ==
    /\ WriterFull' => WriterFull
    /\ mem'[Flag] = Full => mem[Flag] = Full \/ (WriterFull /\ ~WriterFull')
    /\ WriterFull \/ mem[Flag] = Full => \A l \in Chunks : mem'[l] = mem[l]

LEMMA FlushKeeps ==
    ASSUME HandInv, NEW h \in Host, NEW l \in Line, Flush(h, {l})
    PROVE  Kept
<1>1. PICK g \in Host : g # h
  BY ShareParts
<1>2. /\ mem'[l] = IF l \in dirty[h] THEN copy[h][l] ELSE mem[l]
      /\ l \notin dirty'[h]
      /\ \A k \in Line : k # l => /\ mem'[k] = mem[k] /\ copy'[h][k] = copy[h][k]
                                  /\ k \in dirty'[h] <=> k \in dirty[h]
      /\ \A k \in Line : copy'[g][k] = copy[g][k]
      /\ dirty'[g] = dirty[g]
  BY <1>1, FlushLine
<1>3. WriterFull' => WriterFull
  BY <1>1, <1>2, ShareParts DEF WriterFull
<1>4. mem'[Flag] = Full => mem[Flag] = Full \/ (WriterFull /\ ~WriterFull')
  BY <1>1, <1>2, ShareParts DEF WriterFull, HandInv, ReaderFlag
<1>5. WriterFull \/ mem[Flag] = Full => \A k \in Chunks : k \notin dirty[h]
  BY ShareParts DEF HandInv, BlockHidden, TypeOK
<1>6. WriterFull \/ mem[Flag] = Full => \A k \in Chunks : mem'[k] = mem[k]
  BY <1>2, <1>5, ShareParts
<1>. QED  BY <1>3, <1>4, <1>6 DEF Kept

LEMMA FlushBlockKeeps ==
    ASSUME HandInv, NEW h \in Host, Flush(h, Chunks)
    PROVE  Kept
<1>1. PICK g \in Host : g # h
  BY ShareParts
<1>2. /\ \A l \in Chunks : mem'[l] = IF l \in dirty[h] THEN copy[h][l] ELSE mem[l]
      /\ mem'[Flag] = mem[Flag] /\ copy'[h][Flag] = copy[h][Flag]
      /\ Flag \in dirty'[h] <=> Flag \in dirty[h]
      /\ \A k \in Line : copy'[g][k] = copy[g][k]
      /\ dirty'[g] = dirty[g]
  BY <1>1, FlushChunks
<1>3. WriterFull' = WriterFull
  BY <1>1, <1>2, ShareParts DEF WriterFull
<1>4. WriterFull \/ mem[Flag] = Full => \A k \in Chunks : k \notin dirty[h]
  BY ShareParts DEF HandInv, BlockHidden, TypeOK
<1>. QED  BY <1>2, <1>3, <1>4 DEF Kept

LEMMA LoadKeeps ==
    ASSUME HandInv, NEW h \in Host, NEW l \in Line, Load(h, l)
    PROVE  Kept /\ mem' = mem /\ WriterFull' = WriterFull
<1>1. PICK g \in Host : g # h
  BY ShareParts
<1>2. /\ mem' = mem /\ dirty' = dirty
      /\ copy'[h][l] = IF copy[h][l] # NoCopy THEN copy[h][l] ELSE mem[l]
      /\ \A k \in Line : k # l => copy'[h][k] = copy[h][k]
      /\ \A k \in Line : copy'[g][k] = copy[g][k]
  BY <1>1, LoadLine
<1>3. Flag \in dirty[W] => copy[W][Flag] # NoCopy
  BY ShareParts DEF HandInv, WriterFlag
<1>4. WriterFull' = WriterFull
  BY <1>1, <1>2, <1>3, ShareParts DEF WriterFull
<1>. QED  BY <1>2, <1>4 DEF Kept

LEMMA StoreKeeps ==
    ASSUME HandInv, NEW h \in Host, NEW l \in Line, NEW v \in Value, Store(h, l, v),
           h = W /\ l = Flag => v # Full
    PROVE  Kept
<1>1. PICK g \in Host : g # h
  BY ShareParts
<1>2. /\ mem' = mem
      /\ copy'[h][l] = v
      /\ \A k \in Line : k # l => /\ copy'[h][k] = copy[h][k]
                                  /\ k \in dirty'[h] <=> k \in dirty[h]
      /\ \A k \in Line : copy'[g][k] = copy[g][k]
      /\ dirty'[g] = dirty[g]
  BY <1>1, StoreLine
<1>3. WriterFull' => WriterFull
  BY <1>1, <1>2, ShareParts DEF WriterFull
<1>. QED  BY <1>2, <1>3 DEF Kept

LEMMA CopyKeeps ==
    ASSUME HandInv, NEW l \in Chunks, CopyChunk(l)
    PROVE  Kept
<1>1. source \in Value /\ l \in Line /\ l # Flag /\ W \in Host /\ R \in Host /\ W # R
  BY ShareParts DEF HandInv, TypeOK
<1>2. CASE Store(W, l, source)
  BY <1>1, <1>2, StoreKeeps
<1>3. CASE DirectStore(W, l, source)
  <2>1. /\ mem'[Flag] = mem[Flag] /\ copy'[W][Flag] = copy[W][Flag]
        /\ Flag \in dirty'[W] <=> Flag \in dirty[W]
    BY <1>1, <1>3, ShareParts, DirectStoreLine
  <2>2. WriterFull' = WriterFull
    BY <2>1 DEF WriterFull
  <2>3. ~WriterFull /\ mem[Flag] # Full
    BY ShareParts DEF CopyChunk, HandInv, BlockHidden
  <2>. QED  BY <2>1, <2>2, <2>3 DEF Kept
<1>. QED  BY <1>2, <1>3 DEF CopyChunk

LEMMA StepKeeps ==
    ASSUME HandInv, Next, ~SetFull
    PROVE  Kept
<1>. USE DEF writerVars, readerVars, memVars, procVars
<1>1. CASE UNCHANGED memVars
  BY <1>1 DEF Kept, WriterFull
<1>2. CASE WriterStep
  <2>1. ASSUME BootStore PROVE Kept
    BY <2>1, ShareParts, StoreKeeps DEF BootStore
  <2>2. ASSUME BootFlush \/ Fill \/ FlushFull PROVE Kept
    BY <2>2, ShareParts, FlushKeeps DEF BootFlush, Fill, FlushFull
  <2>3. ASSUME NEW c \in Content, TestEmpty(c) PROVE Kept
    BY <2>3, ShareParts, LoadKeeps DEF TestEmpty
  <2>4. ASSUME DsaWriteFails PROVE Kept
    BY <1>1, <2>4 DEF DsaWriteFails
  <2>5. ASSUME FlushData PROVE Kept
    BY <2>5, ShareParts, FlushBlockKeeps DEF FlushData
  <2>. QED  BY <1>2, <2>1, <2>2, <2>3, <2>4, <2>5, CopyKeeps DEF WriterStep
<1>3. CASE ReaderStep
  <2>1. ASSUME Poll \/ FlushEmpty PROVE Kept
    BY <2>1, ShareParts, FlushKeeps DEF Poll, FlushEmpty
  <2>2. ASSUME TestFull PROVE Kept
    BY <2>2, ShareParts, LoadKeeps DEF TestFull
  <2>3. ASSUME DropStale PROVE Kept
    BY <2>3, ShareParts, FlushBlockKeeps DEF DropStale
  <2>4. ASSUME NEW l \in Chunks, ReadChunk(l) PROVE Kept
    BY <1>1, <2>4, ShareParts, LoadKeeps DEF ReadChunk
  <2>5. ASSUME DsaReadFails \/ CheckCrc PROVE Kept
    BY <1>1, <2>5 DEF DsaReadFails, CheckCrc
  <2>6. ASSUME SetEmpty PROVE Kept
    BY <2>6, ShareParts, StoreKeeps DEF SetEmpty
  <2>. QED  BY <1>3, <2>1, <2>2, <2>3, <2>4, <2>5, <2>6 DEF ReaderStep
<1>4. CASE RestartWriter \/ RestartReader
  BY <1>1, <1>4 DEF RestartWriter, RestartReader
<1>5. CASE Hardware
  <2>1. ASSUME NEW h \in Host, NEW l \in Line, Evict(h, l) PROVE Kept
    BY <2>1, FlushKeeps DEF Evict
  <2>2. ASSUME NEW h \in Host, NEW l \in Line, Prefetch(h, l) PROVE Kept
    BY <2>2, LoadKeeps DEF Prefetch
  <2>. QED  BY <1>5, <2>1, <2>2, ShareParts DEF Hardware
<1>. QED  BY <1>2, <1>3, <1>4, <1>5 DEF Next

\* What SetFull does: the block is announced in the writer's cache only.
LEMMA SetFullKeeps ==
    ASSUME HandInv, SetFull
    PROVE  /\ wpc = "set" /\ wpc' = "setflush" /\ mem' = mem
           /\ source' = source /\ botched' = botched
<1>1. Store(W, Flag, Full)
  BY DEF SetFull
<1>2. mem' = mem
  BY <1>1, ShareParts, StoreLine
<1>. QED  BY <1>2 DEF SetFull

\* The writer's block is another one only when it begins to copy it, which it
\* does in front of a flag that is empty and with none to announce.
LEMMA BlockKnown ==
    ASSUME HandInv, Next
    PROVE  /\ wpc' \in {"copy", "flush", "set"} => wpc \in {"copy", "flush", "set"} \/ Begins
           /\ Begins => ~WriterFull /\ mem'[Flag] = mem[Flag]
           /\ WriterFull /\ ~Begins => source' = source /\ botched' = botched
<1>. USE DEF writerVars, readerVars, memVars, procVars
<1>1. CASE UNCHANGED <<writerVars, botched>>
  BY <1>1 DEF Begins
<1>2. CASE \E c \in Content : TestEmpty(c)
  <2>1. PICK c \in Content : TestEmpty(c)
    BY <1>2
  <2>2. /\ wpc = "test" /\ Load(W, Flag)
        /\ \/ Sees(W, Flag) = Empty /\ wpc' = "copy"
           \/ wpc' = "fill" /\ source' = source /\ botched' = botched
    BY <2>1 DEF TestEmpty, StartCopy
  <2>3. mem' = mem
    BY <2>2, ShareParts, LoadKeeps
  <2>4. Sees(W, Flag) = Empty => ~WriterFull
    BY ShareParts DEF Sees, WriterFull
  <2>. QED  BY <2>2, <2>3, <2>4 DEF Begins
<1>3. CASE DsaWriteFails
  BY <1>3 DEF DsaWriteFails, Begins, HandInv, BlockHidden
<1>4. CASE WriterStep /\ ~(\E c \in Content : TestEmpty(c)) /\ ~DsaWriteFails
  <2>1. /\ wpc' \in {"copy", "flush", "set"} => wpc \in {"copy", "flush"}
        /\ wpc' = "copy" => wpc = "copy"
        /\ source' = source /\ botched' = botched
    BY <1>4 DEF WriterStep, BootStore, BootFlush, Fill, CopyChunk, FlushData, SetFull, FlushFull
  <2>. QED  BY <2>1 DEF Begins
<1>5. CASE ReaderStep
  BY <1>1, <1>5 DEF ReaderStep, Poll, TestFull, DropStale, ReadChunk, DsaReadFails, SetEmpty,
     FlushEmpty, CheckCrc
<1>6. CASE RestartWriter
  BY <1>6 DEF RestartWriter, Begins
<1>7. CASE RestartReader \/ Hardware
  BY <1>1, <1>7 DEF RestartReader, Hardware
<1>. QED  BY <1>2, <1>3, <1>4, <1>5, <1>6, <1>7 DEF Next

LEMMA AnnounceStep == HandInv /\ AnnouncedOnce /\ [Next]_vars => AnnouncedOnce'
<1>. SUFFICES ASSUME HandInv, AnnouncedOnce, [Next]_vars PROVE AnnouncedOnce'
  OBVIOUS
<1>1. CASE UNCHANGED vars
  BY <1>1 DEF vars, memVars, procVars, writerVars, readerVars, AnnouncedOnce, WriterFull
<1>2. CASE Next
  <2>1. announced' = (~Begins /\ (announced \/ Announces))
    BY <1>2 DEF Next, Track
  <2>2. announced' \in BOOLEAN
    BY <2>1
  <2>3. Announces => WriterFull /\ ~WriterFull' /\ ~SetFull
    BY <1>2, StepKeeps, SetFullKeeps DEF Announces, Kept
  <2>4. wpc \in {"copy", "flush", "set"} => ~WriterFull
    BY ShareParts DEF HandInv, WriterFlag, WriterFull
  <2>5. wpc' \in {"copy", "flush", "set"} => ~announced'
    BY <1>2, <2>1, <2>3, <2>4, BlockKnown DEF AnnouncedOnce
  <2>6. WriterFull' => WriterFull \/ SetFull
    BY <1>2, StepKeeps DEF Kept
  <2>7. WriterFull' => ~announced'
    BY <2>1, <2>3, <2>6, SetFullKeeps DEF AnnouncedOnce
  <2>8. ASSUME WriterFull', ~botched' PROVE \A l \in Chunks : mem'[l] = source'
    <3>1. CASE SetFull
      BY <2>8, <3>1, SetFullKeeps DEF HandInv, BlockHidden
    <3>2. CASE ~SetFull
      <4>1. WriterFull /\ \A l \in Chunks : mem'[l] = mem[l]
        BY <1>2, <2>6, <2>8, <3>2, StepKeeps DEF Kept
      <4>2. source' = source /\ botched' = botched
        BY <1>2, <4>1, BlockKnown
      <4>. QED  BY <2>8, <4>1, <4>2 DEF AnnouncedOnce
    <3>. QED  BY <3>1, <3>2
  <2>. QED  BY <2>2, <2>5, <2>7, <2>8 DEF AnnouncedOnce
<1>. QED  BY <1>1, <1>2

\* What is about to be announced is always the writer's last block, which has
\* not been announced before.
THEOREM AnnouncedFirst == Spec => []AnnouncedOnce
<1>1. Init => AnnouncedOnce
  BY ShareParts DEF Init, EmptyCaches, AnnouncedOnce, WriterFull
<1>. QED  BY <1>1, HandInvariant, AnnounceStep, PTL DEF Spec

\* The file is a mailbox for one block: it is filled with the writer's last
\* block and only once with each, and unless the start of a writer is in the
\* way that block stays in it until the reader has copied exactly that block
\* (or its accelerator failed), so that none is lost or read twice.
THEOREM BlocksHandedOver == Spec => HandOver
<1>. DEFINE Filled == /\ Slot = Empty
                      /\ ~announced /\ (Slot' = [l \in Chunks |-> source] \/ botched)
            Emptied == Slot' = Empty /\ (got = Slot \/ rbotched \/ booted)
            Handed == Slot' # Slot => Filled \/ Emptied
<1>1. ASSUME HandInv, HandInv', AnnouncedOnce, Next PROVE Handed
  <2>. SUFFICES ASSUME Slot' # Slot PROVE Filled \/ Emptied
    OBVIOUS
  <2>1. SetFull => mem' = mem
    BY <1>1, SetFullKeeps
  <2>2. SetFull => Slot' = Slot
    BY <2>1 DEF Slot
  <2>3. Kept
    BY <1>1, <2>2, StepKeeps
  <2>4. CASE mem[Flag] # Full
    <3>1. Slot = Empty /\ mem'[Flag] = Full
      BY <2>4 DEF Slot
    <3>2. WriterFull /\ \A l \in Chunks : mem'[l] = mem[l]
      BY <2>3, <2>4, <3>1 DEF Kept
    <3>3. ~announced /\ (botched \/ \A l \in Chunks : mem'[l] = source)
      BY <1>1, <3>2 DEF AnnouncedOnce
    <3>4. Slot' = [l \in Chunks |-> mem'[l]]
      BY <3>1 DEF Slot
    <3>. QED  BY <3>1, <3>3, <3>4
  <2>5. CASE mem[Flag] = Full
    <3>1. \A l \in Chunks : mem'[l] = mem[l]
      BY <2>3, <2>5 DEF Kept
    <3>2. Slot = [l \in Chunks |-> mem[l]]
      BY <2>5 DEF Slot
    <3>3. mem'[Flag] # Full
      <4>1. SUFFICES ASSUME mem'[Flag] = Full PROVE FALSE
        OBVIOUS
      <4>2. Slot' = [l \in Chunks |-> mem'[l]]
        BY <4>1 DEF Slot
      <4>. QED  BY <3>1, <3>2, <4>2
    <3>4. Slot' = Empty
      BY <3>3 DEF Slot
    <3>5. booted \/ Flag \in dirty[R]
      BY <1>1, <2>5, <3>3, FlagKept
    <3>6. booted \/ rbotched \/ \A l \in Chunks : got[l] = mem[l]
      BY <1>1, <3>5 DEF HandInv, ReaderBlock
    <3>7. got = [l \in Chunks |-> got[l]]
      BY <1>1 DEF HandInv, TypeOK
    <3>8. got = Slot \/ rbotched \/ booted
      BY <3>2, <3>6, <3>7
    <3>. QED  BY <3>4, <3>8
  <2>. QED  BY <2>4, <2>5
<1>2. HandInv /\ HandInv' /\ AnnouncedOnce /\ [Next]_vars => [Handed]_vars
  BY <1>1
<1>. QED  BY <1>2, HandInvariant, AnnouncedFirst, PTL DEF Spec, HandOver
=============================================================================
