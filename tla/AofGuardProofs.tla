--------------------------- MODULE AofGuardProofs ---------------------------
(***************************************************************************)
(* Proofs about AofGuard, for every ring geometry, alphabet, set of        *)
(* records and bound.                                                      *)
(***************************************************************************)
EXTENDS AofGuard, TLAPS

-----------------------------------------------------------------------------
(* Arithmetic.                                                             *)

\* Quotient and remainder by the block size.
LEMMA DivMod ==
    ASSUME NEW n \in Nat, NEW b \in Nat \ {0}
    PROVE  /\ n \div b \in Nat
           /\ (n \div b) * b <= n
           /\ n % b \in Nat /\ n % b < b
           /\ n % b = n - (n \div b) * b
  OBVIOUS

\* Products compare as their first factors do.
LEMMA MulMono ==
    ASSUME NEW m \in Nat, NEW n \in Nat, NEW b \in Nat, m <= n
    PROVE  m * b <= n * b
  OBVIOUS

\* ... and the other way round.
LEMMA MulStrict ==
    ASSUME NEW m \in Nat, NEW n \in Nat, NEW b \in Nat \ {0}, m * b < n * b
    PROVE  m < n
  OBVIOUS

\* Taking whole blocks away does not change the remainder.
LEMMA ModSubtract ==
    ASSUME NEW n \in Nat, NEW k \in Nat, NEW b \in Nat \ {0}, k * b <= n
    PROVE  (n - k * b) % b = n % b
<1>. DEFINE q == n \div b
            r == n % b
            p == ((n - k * b) \div b) + k
            s == (n - k * b) % b
<1>1. /\ q \in Nat /\ r \in Nat /\ r < b /\ n = q * b + r
  BY DivMod
<1>2. n - k * b \in Nat
  OBVIOUS
<1>3. /\ p \in Nat /\ s \in Nat /\ s < b
      /\ n - k * b = (p - k) * b + s
  BY <1>2, DivMod, SMTT(30)
<1>4. (p - k) * b = p * b - k * b
  BY <1>3
<1>5. n = p * b + s
  BY <1>2, <1>3, <1>4
<1>. HIDE DEF p, q, r, s
<1>6. ~(q + 1 <= p)
  <2>1. ASSUME q + 1 <= p PROVE FALSE
    <3>1. (q + 1) * b <= p * b
      BY <1>1, <1>3, <2>1, MulMono
    <3>2. (q + 1) * b = q * b + b
      BY <1>1
    <3>. QED  BY <1>1, <1>3, <1>5, <3>1, <3>2
  <2>. QED  BY <2>1
<1>7. ~(p + 1 <= q)
  <2>1. ASSUME p + 1 <= q PROVE FALSE
    <3>1. (p + 1) * b <= q * b
      BY <1>1, <1>3, <2>1, MulMono
    <3>2. (p + 1) * b = p * b + b
      BY <1>3
    <3>. QED  BY <1>1, <1>3, <1>5, <3>1, <3>2
  <2>. QED  BY <2>1
<1>8. r = s
  BY <1>1, <1>3, <1>5, <1>6, <1>7
<1>. QED  BY <1>8 DEF r, s

\* The ring holds at least two blocks.
LEMMA CapacityType ==
    /\ BlockSize \in Nat \ {0} /\ BlockCount \in Nat /\ MaxBlocks \in Nat
    /\ 0 < BlockCount /\ BlockCount <= MaxBlocks
    /\ Capacity \in Nat /\ 2 <= Capacity /\ BlockSize <= Capacity
    /\ Capacity = BlockCount * BlockSize
  BY GeometryAssumption, MulMono DEF Capacity

\* Blocks that lie in the ring are at most BlockCount many.
LEMMA BlocksInRing ==
    ASSUME NEW n \in 0 .. Capacity
    PROVE  /\ n \div BlockSize \in 0 .. BlockCount
           /\ (n \div BlockSize) * BlockSize \in 0 .. n
           /\ n < Capacity => n \div BlockSize < BlockCount
           /\ BlockSize <= n => 0 < n \div BlockSize
<1>1. CASE n = Capacity
  BY <1>1, CapacityType, DivMod
<1>2. CASE n < Capacity
  BY <1>2, CapacityType, DivMod, MulStrict
<1>. QED  BY <1>1, <1>2, CapacityType

\* RING_BUF_FORWARD stays in the ring (its assert).
LEMMA RingForwardType ==
    ASSUME NEW v \in Pos, NEW a \in 0 .. Capacity
    PROVE  RingForward(v, a) \in Pos
  BY CapacityType DEF RingForward, Pos

\* The mixed word has the type of meta.
LEMMA MixedMetaType ==
    ASSUME NEW f \in Nat, NEW s \in Pos
    PROVE  /\ MakeMixedMeta(f, s) \in [fsync_len : Nat, start_block : 0 .. BlockCount - 1]
           /\ MakeMixedMeta(f, s).start_block = s \div BlockSize
           /\ MakeMixedMeta(f, s).fsync_len = f
<1>1. s \div BlockSize \in 0 .. BlockCount - 1
  BY CapacityType, BlocksInRing DEF Pos
<1>2. (s \div BlockSize) % MaxBlocks = s \div BlockSize
  BY <1>1, CapacityType
<1>. QED  BY <1>1, <1>2 DEF MakeMixedMeta

\* What aofguard_init loads is a position and a length of the ring.
LEMMA LoadType ==
    ASSUME NEW m \in [fsync_len : Nat, start_block : 0 .. BlockCount - 1],
           NEW e \in Pos
    PROVE  /\ GetBufStart(m) \in Pos
           /\ LenBetween(GetBufStart(m), e) \in 0 .. Capacity - 1
<1>1. /\ m.start_block \in Nat /\ m.start_block + 1 <= BlockCount
      /\ (m.start_block + 1) * BlockSize = m.start_block * BlockSize + BlockSize
  BY CapacityType
<1>2. (m.start_block + 1) * BlockSize <= Capacity
  BY <1>1, CapacityType, MulMono
<1>3. m.start_block * BlockSize \in Nat
  BY <1>1, CapacityType
<1>. QED  BY <1>1, <1>2, <1>3, CapacityType DEF GetBufStart, LenBetween, Pos

-----------------------------------------------------------------------------
(* Files and buffers.                                                      *)

\* write(2) at an offset inside the file.
LEMMA OverwriteType ==
    ASSUME NEW f \in Seq(Cell), NEW at \in 0 .. Len(f), NEW d \in Seq(Cell)
    PROVE  /\ Overwrite(f, at, d) \in Seq(Cell)
           /\ Len(Overwrite(f, at, d)) =
                IF at + Len(d) > Len(f) THEN at + Len(d) ELSE Len(f)
           /\ \A i \in 1 .. Len(Overwrite(f, at, d)) :
                Overwrite(f, at, d)[i] =
                  IF at < i /\ i <= at + Len(d) THEN d[i - at] ELSE f[i]
  BY DEF Overwrite

\* A piece of the ring is a sequence of cells.
LEMMA RingBytesType ==
    ASSUME data \in [Pos -> Cell], NEW s \in Pos, NEW n \in 0 .. Capacity
    PROVE  /\ RingBytes(s, n) \in Seq(Cell)
           /\ Len(RingBytes(s, n)) = n
           /\ \A i \in 1 .. n : RingBytes(s, n)[i] = data[RingForward(s, i - 1)]
<1>1. \A i \in 1 .. n : i - 1 \in 0 .. Capacity
  BY CapacityType
<1>2. \A i \in 1 .. n : RingForward(s, i - 1) \in Pos
  BY <1>1, RingForwardType
<1>. QED  BY <1>2, CapacityType DEF RingBytes

\* A record is split at the physical end of the ring.
LEMMA FrontType ==
    ASSUME NEW s \in Pos, NEW n \in 0 .. Capacity
    PROVE  /\ Front(s, n) \in 0 .. n
           /\ n - Front(s, n) \in 0 .. n
           /\ s + Front(s, n) <= Capacity
           /\ n - Front(s, n) <= s
           /\ s + n <= Capacity => Front(s, n) = n
  BY CapacityType DEF Front, Pos

\* A copy of part of rec, complete or torn, leaves the ring a ring.
LEMMA CopiedType ==
    ASSUME data \in [Pos -> Cell], rec \in Seq(Byte),
           NEW first \in Nat, NEW n \in Nat, NEW at \in Nat, NEW done,
           1 <= first, first + n - 1 <= Len(rec)
    PROVE  Copied(first, n, at, done) \in [Pos -> Cell]
  BY CapacityType DEF Copied, Pos, Cell

-----------------------------------------------------------------------------
(* Type correctness.                                                       *)

\* update_after_fsync for blocks that are in the ring: the asserts of
\* RING_BUF_FORWARD and of the function hold.
LEMMA UpdateType ==
    ASSUME TypeOK, NEW n \in 0 .. BlockCount, n * BlockSize <= len,
           UpdateAfterFsync(n)
    PROVE  /\ start' \in Pos /\ fsync_len' \in Nat
           /\ len' = len - n * BlockSize /\ len' \in 0 .. Capacity
           /\ fsync_len' = fsync_len + n * BlockSize
           /\ meta' \in [fsync_len : Nat, start_block : 0 .. BlockCount - 1]
           /\ len' % BlockSize = len % BlockSize
<1>1. n * BlockSize \in 0 .. Capacity /\ len \in Nat /\ n \in Nat
  BY CapacityType DEF TypeOK
<1>2. RingForward(start, n * BlockSize) \in Pos
  BY <1>1, RingForwardType DEF TypeOK
<1>3. (len - n * BlockSize) % BlockSize = len % BlockSize
  BY <1>1, ModSubtract, CapacityType
<1>4. CASE n = 0
  BY <1>4, CapacityType DEF UpdateAfterFsync, bufVars, TypeOK
<1>5. CASE n # 0
  <2>1. MakeMixedMeta(fsync_len + n * BlockSize, RingForward(start, n * BlockSize))
           \in [fsync_len : Nat, start_block : 0 .. BlockCount - 1]
    BY <1>1, <1>2, MixedMetaType, SMTT(30) DEF TypeOK
  <2>2. /\ start' = RingForward(start, n * BlockSize)
        /\ len' = len - n * BlockSize
        /\ fsync_len' = fsync_len + n * BlockSize
        /\ meta' = MakeMixedMeta(fsync_len + n * BlockSize,
                                 RingForward(start, n * BlockSize))
    BY <1>5 DEF UpdateAfterFsync
  <2>3. fsync_len \in Nat /\ len \in 0 .. Capacity
    BY DEF TypeOK
  <2>4. len' \in 0 .. Capacity
    BY <1>1, <2>2, <2>3, CapacityType
  <2>5. fsync_len' \in Nat
    BY <1>1, <2>2, <2>3
  <2>. QED  BY <1>2, <1>3, <2>1, <2>2, <2>4, <2>5
<1>. QED  BY <1>4, <1>5

\* sem_done is consumed: the request is gone with it.
LEMMA TakeDoneType ==
    ASSUME TypeInv, pc \in Session, TakeDone
    PROVE  /\ start' \in Pos /\ fsync_len' \in Nat
           /\ len' = len - block_count * BlockSize /\ len' \in 0 .. Capacity
           /\ fsync_len' = fsync_len + block_count * BlockSize
           /\ meta' \in [fsync_len : Nat, start_block : 0 .. BlockCount - 1]
           /\ len' % BlockSize = len % BlockSize
           /\ block_count' = 0 /\ sem_start' = 0 /\ sem_done' = 0
           /\ sem_start = 0 /\ thread' = thread /\ thread = "waiting"
           /\ target' = target
<1>1. /\ block_count \in 0 .. BlockCount /\ block_count * BlockSize <= len
      /\ UpdateAfterFsync(block_count)
  BY DEF TypeInv, TypeOK, AfsyncHandshake, TakeDone
<1>2. /\ sem_start = 0 /\ thread = "waiting"
  BY DEF TypeInv, TypeOK, AfsyncHandshake, SessionShape, TakeDone
<1>3. TypeOK
  BY DEF TypeInv
<1>. QED  BY <1>1, <1>2, <1>3, UpdateType DEF TakeDone

\* A process that has not opened the file yet satisfies the type invariant.
THEOREM TypeInit == Init => TypeInv
<1>. SUFFICES ASSUME Init PROVE TypeInv
  OBVIOUS
<1>1. file \in Seq(Cell) /\ file \in Seq(Byte)
  BY DataAssumption DEF Init, Cell
<1>2. data \in [Pos -> Cell]
  BY DEF Init, Cell
<1>3. meta \in [fsync_len : Nat, start_block : 0 .. BlockCount - 1]
  BY CapacityType DEF Init
<1>4. rec \in Seq(Byte) /\ synced \in Nat
  BY <1>1 DEF Init
<1>5. TypeOK
  BY <1>1, <1>2, <1>3, <1>4, CapacityType DEF Init, TypeOK, Pos
<1>6. pos <= Len(file)
  BY <1>1 DEF Init
<1>. QED  BY <1>5, <1>6 DEF Init, TypeInv, AfsyncHandshake, RoomForRecord,
            SessionShape, Session

\* write(2) keeps the file a file and the offset inside it.
LEMMA SyscallWriteType ==
    ASSUME TypeInv, NEW d \in Seq(Cell), SyscallWrite(d)
    PROVE  /\ file' \in Seq(Cell)
           /\ pos' \in Nat /\ pos' <= Len(file')
           /\ synced' = synced /\ append' = append
<1>1. WritePos \in 0 .. Len(file)
  BY DEF TypeInv, TypeOK, SessionShape, WritePos
<1>2. file \in Seq(Cell)
  BY DEF TypeInv, TypeOK
<1>3. /\ Overwrite(file, WritePos, d) \in Seq(Cell)
      /\ Len(Overwrite(file, WritePos, d)) >= WritePos + Len(d)
  BY <1>1, <1>2, OverwriteType
<1>. QED  BY <1>1, <1>3 DEF SyscallWrite

\* However the process stops, what it leaves is well typed.
LEMMA StopType ==
    ASSUME TypeInv, Stop,
           file' \in Seq(Cell), synced' \in Nat, data' \in [Pos -> Cell]
    PROVE  TypeInv'
<1>1. damaged' \in BOOLEAN
  BY DEF Stop
<1>2. /\ nvm' = nvm /\ meta' = meta /\ buf_end' = buf_end /\ log' = log
      /\ rec' = <<>> /\ pc' = "closed" /\ thread' = "none"
      /\ pos' = 0 /\ append' = FALSE /\ target' = 0
      /\ fsync_len' = 0 /\ start' = 0 /\ len' = 0
      /\ block_count' = 0 /\ sem_start' = 0 /\ sem_done' = 0
  BY DEF Stop
<1>3. rec' \in Seq(Byte)
  BY <1>2
<1>4. append' \in BOOLEAN /\ 0 \in Pos /\ 0 \in 0 .. BlockCount
  BY <1>2, CapacityType DEF Pos
<1>5. TypeOK'
  <2>1. /\ meta \in [fsync_len : Nat, start_block : 0 .. BlockCount - 1]
        /\ nvm \in {"absent", "short", "ok"} /\ buf_end \in Pos
        /\ log \in Seq(Byte)
    BY DEF TypeInv, TypeOK
  <2>2. /\ pos' \in Nat /\ target' \in Nat /\ fsync_len' \in Nat
        /\ len' \in 0 .. Capacity /\ block_count' \in 0 .. BlockCount
        /\ sem_start' \in {0, 1} /\ sem_done' \in {0, 1} /\ start' \in Pos
    BY <1>2, <1>4, CapacityType
  <2>. QED  BY <1>1, <1>2, <1>3, <1>4, <2>1, <2>2 DEF TypeOK
<1>. QED  BY <1>2, <1>5 DEF TypeInv, AfsyncHandshake, RoomForRecord,
            SessionShape, Session

\* Both parts of a copy stay inside of the record and of the ring, whichever of
\* their bytes have arrived.
LEMMA CopyType ==
    ASSUME TypeInv, pc \in {"copy", "copy2"}, NEW done
    PROVE  /\ Copied(1, FrontOfRec, RingBufEnd, done) \in [Pos -> Cell]
           /\ Copied(FrontOfRec + 1, Len(rec) - FrontOfRec, 0, done) \in [Pos -> Cell]
<1>1. /\ RingBufEnd \in Pos /\ data \in [Pos -> Cell] /\ rec \in Seq(Byte)
      /\ Len(rec) \in Nat /\ Len(rec) <= Capacity
  <2>1. /\ start \in Pos /\ len \in 0 .. Capacity /\ data \in [Pos -> Cell]
        /\ rec \in Seq(Byte) /\ len + Len(rec) <= Capacity
    BY DEF TypeInv, TypeOK, RoomForRecord
  <2>2. RingBufEnd \in Pos
    BY <2>1, RingForwardType DEF RingBufEnd
  <2>3. Len(rec) \in Nat
    BY <2>1
  <2>. QED  BY <2>1, <2>2, <2>3, CapacityType
<1>2. FrontOfRec \in 0 .. Len(rec)
  <2>1. Len(rec) \in 0 .. Capacity
    BY <1>1, CapacityType
  <2>. QED  BY <1>1, <2>1, FrontType DEF FrontOfRec
<1>. DEFINE k == FrontOfRec
<1>3. /\ k \in Nat /\ 1 + k - 1 <= Len(rec)
      /\ k + 1 \in Nat /\ 1 <= k + 1
      /\ Len(rec) - k \in Nat /\ (k + 1) + (Len(rec) - k) - 1 <= Len(rec)
  BY <1>1, <1>2
<1>4. RingBufEnd \in Nat
  BY <1>1, CapacityType DEF Pos
<1>. HIDE DEF k
<1>5. Copied(1, k, RingBufEnd, done) \in [Pos -> Cell]
  BY <1>1, <1>3, <1>4, CopiedType
<1>6. Copied(k + 1, Len(rec) - k, 0, done) \in [Pos -> Cell]
  BY <1>1, <1>3, CopiedType
<1>. QED  BY <1>5, <1>6 DEF k

\* The bytes a stop leaves in the ring: those of a copy that was going on are
\* there or not.
LEMMA TornDataType ==
    ASSUME TypeInv, TornData
    PROVE  data' \in [Pos -> Cell]
<1>1. CASE pc \in {"copy", "copy2"}
  BY <1>1, CopyType DEF TornData, TornCopy
<1>2. CASE pc \notin {"copy", "copy2"}
  BY <1>2 DEF TornData, TypeInv, TypeOK
<1>. QED  BY <1>1, <1>2

\* Every step preserves the types, one case per action.
LEMMA TypeStep ==
    ASSUME TypeInv, [Next]_vars
    PROVE  TypeInv'
<1>a. /\ Front(start, len) \in 0 .. Capacity
      /\ len - Front(start, len) \in 0 .. Capacity /\ 0 \in Pos
  <2>1. start \in Pos /\ len \in 0 .. Capacity
    BY DEF TypeInv, TypeOK
  <2>2. Front(start, len) \in 0 .. len /\ len - Front(start, len) \in 0 .. len
    BY <2>1, FrontType
  <2>. QED  BY <2>1, <2>2, CapacityType DEF Pos
<1>b. /\ len \div BlockSize \in 0 .. BlockCount
      /\ (len \div BlockSize) * BlockSize <= len
      /\ len % BlockSize = len - (len \div BlockSize) * BlockSize
  <2>1. len \in 0 .. Capacity /\ len \in Nat
    BY CapacityType DEF TypeInv, TypeOK
  <2>. QED  BY <2>1, BlocksInRing, DivMod, CapacityType
<1>c. /\ GetBufStart(meta) \in Pos
      /\ LenBetween(GetBufStart(meta), buf_end) \in 0 .. Capacity
  <2>1. /\ meta \in [fsync_len : Nat, start_block : 0 .. BlockCount - 1]
        /\ buf_end \in Pos
    BY DEF TypeInv, TypeOK
  <2>. QED  BY <2>1, LoadType, CapacityType
<1>. USE DEF diskVars, fdVars, nvmVars, bufVars, afsyncVars, appVars, history,
         TypeInv, TypeOK, AfsyncHandshake, RoomForRecord, SessionShape,
         Session, Setup, Replaying
<1>0. CASE UNCHANGED vars
  BY <1>0 DEF vars
<1>1. CASE CreateNvmFile
  BY <1>1, DataAssumption DEF CreateNvmFile
<1>2. CASE SizeNvmFile
  BY <1>2 DEF SizeNvmFile
<1>3. CASE ResetMeta
  BY <1>3, CapacityType, MixedMetaType, SMTT(30) DEF ResetMeta, Pos
<1>4. CASE ResetEnd
  BY <1>4, CapacityType DEF ResetEnd, StartAfsync, Pos
<1>5. CASE OpenFails
  BY <1>5 DEF OpenFails
<1>6. CASE OpenExisting
  <2>1. /\ SubSeq(file, 1, meta.fsync_len) \in Seq(Cell)
        /\ meta.fsync_len \in Nat
    BY <1>6 DEF OpenExisting, Broken
  <2>2. TypeOK'
    BY <1>6, <1>c, <2>1, DataAssumption DEF OpenExisting
  <2>. QED  BY <1>6, <2>1, <2>2 DEF OpenExisting
<1>7. CASE ReplayFront
  <2>2. RingBytes(start, Front(start, len)) \in Seq(Cell)
    BY <1>a, RingBytesType
  <2>3. /\ file' \in Seq(Cell) /\ pos' \in Nat /\ pos' <= Len(file')
        /\ synced' = synced /\ append' = append
    BY <1>7, <2>2, SyscallWriteType DEF ReplayFront
  <2>4. CASE start + len <= Capacity
    BY <1>7, <2>3, <2>4, CapacityType DEF ReplayFront, StartAfsync
  <2>5. CASE ~(start + len <= Capacity)
    BY <1>7, <2>3, <2>5 DEF ReplayFront
  <2>. QED  BY <2>4, <2>5
<1>8. CASE ReplayBack
  <2>2. RingBytes(0, len - Front(start, len)) \in Seq(Cell)
    BY <1>a, RingBytesType
  <2>3. /\ file' \in Seq(Cell) /\ pos' \in Nat /\ pos' <= Len(file')
        /\ synced' = synced /\ append' = append
    BY <1>8, <2>2, SyscallWriteType DEF ReplayBack
  <2>. QED  BY <1>8, <2>3, CapacityType DEF ReplayBack, StartAfsync
<1>9. ASSUME NEW n \in 0 .. len, ReplayFails(n) PROVE TypeInv'
  <2>1. /\ n \in 0 .. Capacity /\ 0 \in Pos
    BY CapacityType DEF Pos
  <2>2. RingBytes(start, n) \in Seq(Cell) /\ RingBytes(0, n) \in Seq(Cell)
    BY <2>1, RingBytesType
  <2>3. /\ file' \in Seq(Cell) /\ pos' \in Nat /\ pos' <= Len(file')
        /\ synced' = synced /\ append' = append
    BY <1>9, <2>2, SyscallWriteType DEF ReplayFails
  <2>. QED  BY <1>9, <2>1, <2>3, CapacityType DEF ReplayFails
<1>10. ASSUME NEW f \in Files, RenameOver(f) PROVE TypeInv'
  <2>1. f \in Seq(Byte) /\ f \in Seq(Cell)
    BY DataAssumption DEF Cell
  <2>2. /\ file' = f /\ synced' = Len(f) /\ log' = f /\ damaged' = FALSE
        /\ append' \in BOOLEAN /\ pos' = Len(f)
        /\ UNCHANGED <<meta, buf_end, data, bufVars, afsyncVars, rec>>
    BY <1>10, DataAssumption DEF RenameOver
  <2>3. /\ nvm' \in {"absent", "short", "ok"}
        /\ pc' \in {"create", "meta", "failed"} /\ pc = "closed"
    BY <1>10 DEF RenameOver
  <2>4. TypeOK'
    <3>1. /\ file' \in Seq(Cell) /\ log' \in Seq(Byte) /\ synced' \in Nat
          /\ pos' \in Nat
      BY <2>1, <2>2
    <3>2. damaged' \in BOOLEAN
      BY <2>2
    <3>. QED  BY <2>2, <2>3, <3>1, <3>2
  <2>5. pos' <= Len(file')
    BY <2>1, <2>2
  <2>. QED  BY <2>2, <2>3, <2>4, <2>5
<1>11. ASSUME NEW r \in Records, WriteCall(r) PROVE TypeInv'
  <2>1. r \in Seq(Byte)
    BY DataAssumption
  <2>2. CASE block_count > 0 /\ sem_done = 1
    <3>1. TakeDone /\ pc = "idle" /\ pc' = "check" /\ rec' = r
      BY <1>11, <2>2 DEF WriteCall, HandleAfsyncIfFinish
    <3>2. /\ start' \in Pos /\ fsync_len' \in Nat /\ len' \in 0 .. Capacity
          /\ meta' \in [fsync_len : Nat, start_block : 0 .. BlockCount - 1]
          /\ block_count' = 0 /\ sem_start' = 0 /\ sem_done' = 0
          /\ thread' = "waiting" /\ target' = target
      BY <3>1, TakeDoneType
    <3>3. UNCHANGED <<diskVars, fdVars, nvm, buf_end, data, history>>
      BY <1>11 DEF WriteCall
    <3>. QED  BY <2>1, <3>1, <3>2, <3>3, CapacityType
  <2>3. CASE ~(block_count > 0 /\ sem_done = 1)
    BY <1>11, <2>1, <2>3 DEF WriteCall, HandleAfsyncIfFinish
  <2>. QED  BY <2>2, <2>3
<1>12. CASE WriteFits
  BY <1>12 DEF WriteFits, Fits
<1>13. CASE WriteTooBig
  BY <1>13 DEF WriteTooBig, Return
<1>14. CASE WaitAfsyncDone
  <2>1. CASE block_count = 0 /\ UNCHANGED <<bufVars, meta, afsyncVars>>
    <3>1. TypeOK'
      BY <1>14, <2>1 DEF WaitAfsyncDone
    <3>2. (len' % BlockSize) + Len(rec') <= Capacity
      BY <1>14, <1>b, <2>1, CapacityType DEF WaitAfsyncDone, TooBig
    <3>. QED  BY <1>14, <2>1, <3>1, <3>2 DEF WaitAfsyncDone
  <2>2. CASE TakeDone
    <3>1. /\ start' \in Pos /\ fsync_len' \in Nat /\ len' \in 0 .. Capacity
          /\ meta' \in [fsync_len : Nat, start_block : 0 .. BlockCount - 1]
          /\ block_count' = 0 /\ sem_start' = 0 /\ sem_done' = 0
          /\ thread' = "waiting" /\ target' = target
          /\ len' % BlockSize = len % BlockSize
      BY <1>14, <2>2, TakeDoneType DEF WaitAfsyncDone
    <3>2. /\ pc = "check" /\ pc' = "fsync"
          /\ UNCHANGED <<diskVars, fdVars, nvm, buf_end, data, rec, history>>
          /\ (len % BlockSize) + Len(rec) <= Capacity
      BY <1>14, <1>b, CapacityType DEF WaitAfsyncDone, TooBig
    <3>. QED  BY <3>1, <3>2, CapacityType
  <2>. QED  BY <1>14, <2>1, <2>2 DEF WaitAfsyncDone
<1>15. CASE DoFsync
  <2>1. CASE Fits
    BY <1>15, <2>1 DEF DoFsync, Fits
  <2>2. CASE ~Fits
    <3>3. /\ start' \in Pos /\ fsync_len' \in Nat
          /\ len' = len % BlockSize /\ len' \in 0 .. Capacity
          /\ meta' \in [fsync_len : Nat, start_block : 0 .. BlockCount - 1]
      BY <1>15, <1>b, <2>2, UpdateType DEF DoFsync
    <3>. QED  BY <1>15, <2>2, <3>3, CapacityType DEF DoFsync
  <2>. QED  BY <2>1, <2>2
<1>16. CASE DoFsyncFails
  BY <1>16 DEF DoFsyncFails, Return
<1>17. CASE WriteFile
  <2>1. rec \in Seq(Cell)
    BY DEF Cell
  <2>2. /\ file' \in Seq(Cell) /\ pos' \in Nat /\ pos' <= Len(file')
        /\ synced' = synced /\ append' = append
    BY <1>17, <2>1, SyscallWriteType DEF WriteFile
  <2>3. damaged' \in BOOLEAN
    BY <1>17 DEF WriteFile
  <2>. QED  BY <1>17, <2>2, <2>3 DEF WriteFile
<1>18. ASSUME NEW n \in 0 .. Len(rec), WriteFileFails(n) PROVE TypeInv'
  <2>1. SubSeq(rec, 1, n) \in Seq(Cell)
    BY DEF Cell
  <2>2. /\ file' \in Seq(Cell) /\ pos' \in Nat /\ pos' <= Len(file')
        /\ synced' = synced /\ append' = append
    BY <1>18, <2>1, SyscallWriteType DEF WriteFileFails
  <2>. QED  BY <1>18, <2>2 DEF WriteFileFails, Return
<1>19. CASE CopyFront \/ CopyBack
  <2>1. data' \in [Pos -> Cell]
    BY <1>19, CopyType DEF CopyFront, CopyBack
  <2>. QED  BY <1>19, <2>1, SMTT(30) DEF CopyFront, CopyBack
<1>20. CASE FinishWrite
  <2>1. len + Len(rec) \in 0 .. Capacity
    BY <1>20 DEF FinishWrite
  <2>2. /\ (len + Len(rec)) \div BlockSize \in 0 .. BlockCount
        /\ ((len + Len(rec)) \div BlockSize) * BlockSize <= len + Len(rec)
        /\ BlockSize <= len + Len(rec) => 0 < (len + Len(rec)) \div BlockSize
    BY <2>1, BlocksInRing
  <2>3. RingForward(start, len + Len(rec)) \in Pos
    BY <2>1, RingForwardType
  <2>4. log \o rec \in Seq(Byte)
    OBVIOUS
  <2>5. TypeOK'
    BY <1>20, <2>1, <2>2, <2>3, <2>4 DEF FinishWrite, Return
  <2>6. AfsyncHandshake'
    <3>1. /\ len' = len + Len(rec) /\ pc = "finish"
          /\ UNCHANGED <<sem_done, thread>>
      BY <1>20 DEF FinishWrite
    <3>2. CASE len' >= BlockSize /\ block_count = 0
      <4>1. /\ block_count' = (len + Len(rec)) \div BlockSize
            /\ sem_start' = sem_start + 1
        BY <1>20, <3>1, <3>2 DEF FinishWrite
      <4>2. block_count' > 0 /\ block_count' * BlockSize <= len'
        BY <2>2, <3>1, <3>2, <4>1, CapacityType
      <4>. QED  BY <3>1, <3>2, <4>1, <4>2
    <3>3. CASE ~(len' >= BlockSize /\ block_count = 0)
      <4>1. UNCHANGED <<block_count, sem_start>>
        BY <1>20, <3>1, <3>3 DEF FinishWrite
      <4>2. block_count * BlockSize \in Nat /\ Len(rec) \in Nat
        BY CapacityType
      <4>. QED  BY <3>1, <4>1, <4>2
    <3>. QED  BY <3>2, <3>3
  <2>. QED  BY <1>20, <2>5, <2>6 DEF FinishWrite, Return
<1>21. CASE AfsyncBegin
  BY <1>21 DEF AfsyncBegin
<1>22. CASE AfsyncDone
  BY <1>22 DEF AfsyncDone
<1>23. CASE AfsyncFails
  BY <1>23 DEF AfsyncFails
<1>24. CASE Deinit
  BY <1>24, StopType DEF Deinit
<1>25. CASE Kill
  BY <1>25, StopType, TornDataType DEF Kill
<1>26. CASE PowerFailure
  <2>1. file' \in Seq(Cell) /\ synced' \in Nat
    BY <1>26 DEF PowerFailure, Cell
  <2>. QED  BY <1>26, <2>1, StopType, TornDataType DEF PowerFailure
<1>. QED  BY <1>0, <1>1, <1>2, <1>3, <1>4, <1>5, <1>6, <1>7, <1>8, <1>9,
            <1>10, <1>11, <1>12, <1>13, <1>14, <1>15, <1>16, <1>17, <1>18,
            <1>19, <1>20, <1>21, <1>22, <1>23, <1>24, <1>25, <1>26
         DEF Next, Open, WriterStep, AfsyncStep

\* The words in the persistent memory always decode to places of the ring,
\* and no assert of aofguard.c fails: a finished fsync never frees more than
\* the ring holds, and a record that is being written fits.
THEOREM TypeCorrect == Spec => [](TypeOK /\ AfsyncHandshake /\ RoomForRecord)
<1>1. Init => TypeInv
  BY TypeInit
<1>2. TypeInv /\ [Next]_vars => TypeInv'
  BY TypeStep
<1>3. TypeInv => TypeOK /\ AfsyncHandshake /\ RoomForRecord
  BY DEF TypeInv
<1>. QED  BY <1>1, <1>2, <1>3, PTL DEF Spec

-----------------------------------------------------------------------------
(* The log is recoverable.                                                 *)

\* The mixed word gives back the start it was made from: starts are multiples
\* of the block size, before and after whole blocks are freed.
LEMMA BlockStart ==
    ASSUME NEW k \in 0 .. BlockCount - 1, NEW n \in 0 .. BlockCount, NEW f \in Nat
    PROVE  LET s == RingForward(k * BlockSize, n * BlockSize)
           IN  GetBufStart(MakeMixedMeta(f, s)) = s
<1>. DEFINE j == IF k + n >= BlockCount THEN k + n - BlockCount ELSE k + n
<1>1. j \in 0 .. BlockCount - 1
  BY CapacityType
<1>2. RingForward(k * BlockSize, n * BlockSize) = j * BlockSize
  <2>1. k * BlockSize + n * BlockSize = (k + n) * BlockSize
    BY CapacityType
  <2>2. CASE k + n >= BlockCount
    <3>1. (k + n) * BlockSize >= Capacity
      BY <2>2, CapacityType, MulMono
    <3>2. (k + n) * BlockSize - Capacity = (k + n - BlockCount) * BlockSize
      BY CapacityType
    <3>3. k * BlockSize + n * BlockSize >= Capacity
      BY <2>1, <3>1
    <3>4. RingForward(k * BlockSize, n * BlockSize)
            = k * BlockSize + n * BlockSize - Capacity
      BY <3>3, Zenon DEF RingForward
    <3>5. k * BlockSize + n * BlockSize - Capacity = (k + n) * BlockSize - Capacity
      BY <2>1, CapacityType
    <3>. QED  BY <2>2, <3>2, <3>4, <3>5
  <2>3. CASE ~(k + n >= BlockCount)
    <3>1. k + n \in Nat /\ k + n + 1 <= BlockCount
      BY <2>3, CapacityType
    <3>2. (k + n + 1) * BlockSize <= Capacity
      BY <3>1, CapacityType, MulMono
    <3>3. (k + n + 1) * BlockSize = (k + n) * BlockSize + BlockSize
      BY <3>1, CapacityType
    <3>4. (k + n) * BlockSize < Capacity /\ (k + n) * BlockSize \in Nat
      BY <3>1, <3>2, <3>3, CapacityType
    <3>. QED  BY <2>1, <2>3, <3>4, CapacityType DEF RingForward
  <2>. QED  BY <2>2, <2>3
<1>3. j * BlockSize \in Pos
  <2>1. j \in Nat /\ j + 1 <= BlockCount
    BY <1>1, CapacityType
  <2>2. (j + 1) * BlockSize <= Capacity
    BY <2>1, CapacityType, MulMono
  <2>3. (j + 1) * BlockSize = j * BlockSize + BlockSize /\ j * BlockSize \in Nat
    BY <2>1, CapacityType
  <2>. QED  BY <2>2, <2>3, CapacityType DEF Pos
<1>4. (j * BlockSize) \div BlockSize = j
  <2>1. j \in Nat
    BY <1>1, CapacityType
  <2>. HIDE DEF j
  <2>. QED  BY <2>1, CapacityType
<1>5. MakeMixedMeta(f, j * BlockSize).start_block = j
  BY <1>3, <1>4, MixedMetaType
<1>. QED  BY <1>2, <1>5 DEF GetBufStart

\* The length aofguard_init computes gives back buf_end.
LEMMA LenBetweenEnd ==
    ASSUME NEW s \in Pos, NEW e \in Pos
    PROVE  /\ RingForward(s, LenBetween(s, e)) = e
           /\ LenBetween(s, e) \in 0 .. Capacity - 1
  BY CapacityType DEF RingForward, LenBetween, Pos

\* A ring that is not full decodes to its own length.
LEMMA LenBetweenForward ==
    ASSUME NEW s \in Pos, NEW n \in 0 .. Capacity - 1
    PROVE  LenBetween(s, RingForward(s, n)) = n
  BY CapacityType DEF RingForward, LenBetween, Pos

\* Going forward twice is going forward once.
LEMMA RingForwardTwice ==
    ASSUME NEW s \in Pos, NEW m \in 0 .. Capacity, NEW n \in 0 .. Capacity,
           m + n < Capacity
    PROVE  RingForward(RingForward(s, m), n) = RingForward(s, m + n)
  BY CapacityType DEF RingForward, Pos

\* Freeing blocks keeps struct and words in agreement.
LEMMA UpdateWords ==
    ASSUME TypeOK, start = GetBufStart(meta), fsync_len = meta.fsync_len,
           NEW n \in 0 .. BlockCount, n * BlockSize <= len, UpdateAfterFsync(n),
           buf_end = RingForward(start, len)
    PROVE  /\ start' = GetBufStart(meta') /\ fsync_len' = meta'.fsync_len
           /\ start' = RingForward(start, n * BlockSize)
           /\ buf_end = RingForward(start', len')
<1>1. /\ start \in Pos /\ len \in 0 .. Capacity /\ fsync_len \in Nat
      /\ n * BlockSize \in 0 .. Capacity /\ n \in Nat
  BY CapacityType DEF TypeOK
<1>2. CASE n = 0
  <2>1. /\ start' = start /\ len' = len /\ fsync_len' = fsync_len
        /\ meta' = meta /\ n * BlockSize = 0
    BY <1>2, CapacityType DEF UpdateAfterFsync, bufVars
  <2>2. RingForward(start, 0) = start
    BY <1>1, CapacityType DEF RingForward, Pos
  <2>. QED  BY <2>1, <2>2
<1>3. CASE n # 0
  <2>1. /\ start' = RingForward(start, n * BlockSize)
        /\ len' = len - n * BlockSize
        /\ meta' = MakeMixedMeta(fsync_len + n * BlockSize, start')
        /\ fsync_len' = fsync_len + n * BlockSize
    BY <1>3 DEF UpdateAfterFsync
  <2>2. meta.start_block \in 0 .. BlockCount - 1
    BY DEF TypeOK
  <2>3. start' = GetBufStart(meta')
    BY <1>1, <2>1, <2>2, BlockStart DEF GetBufStart
  <2>4. meta'.fsync_len = fsync_len'
    BY <2>1 DEF MakeMixedMeta
  <2>5. RingForward(RingForward(start, n * BlockSize), len - n * BlockSize)
          = RingForward(start, len)
    BY <1>1, <1>3, CapacityType DEF RingForward, Pos
  <2>. QED  BY <2>1, <2>3, <2>4, <2>5
<1>. QED  BY <1>2, <1>3

\* Struct and words agree after every step, one case per action.
LEMMA WordsStep ==
    ASSUME TypeInv, WordsInForce, AppendModes = {TRUE}, [Next]_vars
    PROVE  WordsInForce'
<1>. USE DEF diskVars, fdVars, nvmVars, bufVars, afsyncVars, appVars, history,
         Session, Setup, Replaying
<1>0. CASE UNCHANGED vars
  BY <1>0 DEF vars, WordsInForce
<1>1. CASE CreateNvmFile \/ SizeNvmFile \/ OpenFails
  BY <1>1 DEF CreateNvmFile, SizeNvmFile, OpenFails, WordsInForce
<1>2. CASE ResetMeta
  <2>1. Len(file) \in Nat /\ 0 \in Pos /\ 0 \div BlockSize = 0
    BY CapacityType DEF TypeInv, TypeOK, Pos
  <2>2. /\ MakeMixedMeta(Len(file), 0).start_block = 0
        /\ MakeMixedMeta(Len(file), 0).fsync_len = Len(file)
    BY <2>1, MixedMetaType
  <2>. QED  BY <1>2, <2>2 DEF ResetMeta, WordsInForce
<1>3. CASE ResetEnd
  <2>1. GetBufStart(meta) = 0 /\ RingForward(0, 0) = 0
    BY <1>3, CapacityType DEF ResetEnd, WordsInForce, GetBufStart, RingForward
  <2>. QED  BY <1>3, <2>1 DEF ResetEnd, StartAfsync, WordsInForce
<1>4. CASE OpenExisting
  BY <1>4 DEF OpenExisting, WordsInForce
<1>5. CASE ReplayFront \/ ReplayBack
  <2>1. buf_end \in Pos /\ start \in Pos
    BY DEF TypeInv, TypeOK
  <2>2. RingForward(start, LenBetween(start, buf_end)) = buf_end
    BY <2>1, LenBetweenEnd
  <2>3. UNCHANGED <<nvmVars, bufVars, append>>
    BY <1>5 DEF ReplayFront, ReplayBack, SyscallWrite
  <2>4. pc \in Replaying /\ pc' \in {"replay2", "idle"}
    BY <1>5 DEF ReplayFront, ReplayBack, StartAfsync
  <2>. QED  BY <2>2, <2>3, <2>4 DEF WordsInForce
<1>6. ASSUME NEW n \in 0 .. len, ReplayFails(n) PROVE WordsInForce'
  BY <1>6 DEF ReplayFails, WordsInForce
<1>7. ASSUME NEW f \in Files, RenameOver(f) PROVE WordsInForce'
  BY <1>7 DEF RenameOver, WordsInForce, TypeInv, TypeOK
<1>8. ASSUME pc \in Session, TakeDone, UNCHANGED <<nvm, buf_end, append>>,
             pc' \in {"check", "fsync"}
      PROVE  WordsInForce'
  <2>1. /\ TypeOK /\ block_count \in 0 .. BlockCount
        /\ block_count * BlockSize <= len
    BY <1>8 DEF TypeInv, TypeOK, AfsyncHandshake
  <2>2. /\ start' = GetBufStart(meta') /\ fsync_len' = meta'.fsync_len
        /\ buf_end = RingForward(start', len')
    BY <1>8, <2>1, UpdateWords DEF TakeDone, WordsInForce
  <2>. QED  BY <1>8, <2>2 DEF WordsInForce
<1>9. ASSUME NEW r \in Records, WriteCall(r) PROVE WordsInForce'
  <2>1. CASE block_count > 0 /\ sem_done = 1
    BY <1>8, <1>9, <2>1 DEF WriteCall, HandleAfsyncIfFinish
  <2>2. CASE ~(block_count > 0 /\ sem_done = 1)
    BY <1>9, <2>2 DEF WriteCall, HandleAfsyncIfFinish, WordsInForce
  <2>. QED  BY <2>1, <2>2
<1>10. CASE WriteFits \/ WriteTooBig \/ DoFsyncFails
  BY <1>10 DEF WriteFits, WriteTooBig, DoFsyncFails, Return, WordsInForce
<1>11. CASE WaitAfsyncDone
  <2>1. CASE block_count = 0 /\ UNCHANGED <<bufVars, meta, afsyncVars>>
    BY <1>11, <2>1 DEF WaitAfsyncDone, WordsInForce
  <2>2. CASE TakeDone
    BY <1>8, <1>11, <2>2 DEF WaitAfsyncDone
  <2>. QED  BY <1>11, <2>1, <2>2 DEF WaitAfsyncDone
<1>12. CASE DoFsync
  <2>1. CASE Fits
    BY <1>12, <2>1 DEF DoFsync, WordsInForce
  <2>2. CASE ~Fits
    <3>1. /\ TypeOK /\ len \div BlockSize \in 0 .. BlockCount
          /\ (len \div BlockSize) * BlockSize <= len
      BY BlocksInRing DEF TypeInv, TypeOK
    <3>2. /\ start' = GetBufStart(meta') /\ fsync_len' = meta'.fsync_len
          /\ buf_end = RingForward(start', len')
      BY <1>12, <2>2, <3>1, UpdateWords DEF DoFsync, WordsInForce
    <3>. QED  BY <1>12, <3>2 DEF DoFsync, WordsInForce
  <2>. QED  BY <2>1, <2>2
<1>13. ASSUME WriteFile \/ \E n \in 0 .. Len(rec) : WriteFileFails(n)
       PROVE  WordsInForce'
  BY <1>13 DEF WriteFile, WriteFileFails, Return, SyscallWrite, WordsInForce
<1>14. CASE CopyFront \/ CopyBack
  BY <1>14 DEF CopyFront, CopyBack, WordsInForce
<1>15. CASE FinishWrite
  BY <1>15 DEF FinishWrite, Return, WordsInForce
<1>16. CASE AfsyncStep
  BY <1>16 DEF AfsyncStep, AfsyncBegin, AfsyncDone, AfsyncFails, WordsInForce
<1>17. CASE Deinit \/ Kill \/ PowerFailure
  BY <1>17 DEF Deinit, Kill, PowerFailure, Stop, WordsInForce
<1>. QED  BY <1>0, <1>1, <1>2, <1>3, <1>4, <1>5, <1>6, <1>7, <1>9, <1>10,
            <1>11, <1>12, <1>13, <1>14, <1>15, <1>16, <1>17
         DEF Next, Open, WriterStep

\* The cells a record is copied to are not those of the log.
LEMMA CellsApart ==
    ASSUME NEW s \in Pos, NEW n \in 0 .. Capacity, NEW m \in 0 .. Capacity,
           n + m <= Capacity, NEW i \in 1 .. n
    PROVE  LET e == RingForward(s, n)
               q == RingForward(s, i - 1)
           IN  /\ q \in Pos
               /\ ~(e <= q /\ q < e + Front(e, m))
               /\ ~(0 <= q /\ q < m - Front(e, m))
  BY CapacityType DEF RingForward, Front, Pos

\* Where the bytes of the two pieces of a record end up.
LEMMA PiecePositions ==
    ASSUME NEW s \in Pos, NEW n \in 0 .. Capacity, NEW m \in 0 .. Capacity,
           n + m <= Capacity, NEW i \in 1 .. m
    PROVE  LET e == RingForward(s, n)
               q == RingForward(s, n + i - 1)
           IN  /\ q \in Pos
               /\ i <= Front(e, m) => q = e + i - 1
               /\ i > Front(e, m) => /\ q = i - 1 - Front(e, m)
                                     /\ Front(e, m) = Capacity - e
                                     /\ q < e
  BY CapacityType DEF RingForward, Front, Pos

\* A copy, complete or torn, leaves the log's cells alone.
LEMMA CopyKeepsLog ==
    ASSUME TypeInv, pc \in {"copy", "copy2"}, NEW done, NEW i \in 1 .. len
    PROVE  LET q == RingForward(start, i - 1)
           IN  /\ Copied(1, FrontOfRec, RingBufEnd, done)[q] = data[q]
               /\ Copied(FrontOfRec + 1, Len(rec) - FrontOfRec, 0, done)[q] = data[q]
<1>1. /\ start \in Pos /\ len \in 0 .. Capacity /\ Len(rec) \in 0 .. Capacity
      /\ len + Len(rec) <= Capacity
  BY CapacityType DEF TypeInv, TypeOK, RoomForRecord
<1>. DEFINE q == RingForward(start, i - 1)
<1>2. /\ q \in Pos
      /\ ~(RingBufEnd <= q /\ q < RingBufEnd + FrontOfRec)
      /\ ~(0 <= q /\ q < Len(rec) - FrontOfRec)
  BY <1>1, CellsApart DEF FrontOfRec, RingBufEnd
<1>3. /\ FrontOfRec \in Int /\ Len(rec) \in Int
  BY <1>1, FrontType, RingForwardType, CapacityType DEF FrontOfRec, RingBufEnd
<1>. HIDE DEF q
<1>4. Copied(1, FrontOfRec, RingBufEnd, done)[q] = data[q]
  BY <1>2 DEF Copied
<1>5. Copied(FrontOfRec + 1, Len(rec) - FrontOfRec, 0, done)[q] = data[q]
  BY <1>2, <1>3 DEF Copied
<1>. QED  BY <1>4, <1>5 DEF q

\* Freeing blocks that were fsynced moves bytes from the ring to the prefix.
LEMMA UpdateLog ==
    ASSUME TypeOK, MakeUp(file, data, fsync_len, start, len, log),
           Len(log) <= Len(file), \A i \in 1 .. Len(log) : file[i] = log[i],
           NEW n \in 0 .. BlockCount, n * BlockSize <= len, UpdateAfterFsync(n),
           start' = RingForward(start, n * BlockSize)
    PROVE  MakeUp(file, data, fsync_len', start', len', log)
<1>1. /\ len' = len - n * BlockSize /\ fsync_len' = fsync_len + n * BlockSize
      /\ n * BlockSize \in 0 .. Capacity /\ n * BlockSize \in Nat
      /\ fsync_len \in Nat /\ len \in 0 .. Capacity /\ start \in Pos
  BY UpdateType, CapacityType DEF TypeOK
<1>2. Len(log) = fsync_len + len
  BY DEF MakeUp
<1>3. ASSUME NEW i \in 1 .. fsync_len' PROVE file[i] = log[i]
  BY <1>1, <1>2
<1>4. ASSUME NEW i \in 1 .. len' PROVE data[RingForward(start', i - 1)] = log[fsync_len' + i]
  <2>. DEFINE k == n * BlockSize
  <2>1. k \in 0 .. Capacity /\ i - 1 \in 0 .. Capacity /\ k + (i - 1) < Capacity
    BY <1>1, CapacityType
  <2>2. RingForward(RingForward(start, k), i - 1) = RingForward(start, k + (i - 1))
    BY <1>1, <2>1, RingForwardTwice
  <2>3. k + i \in 1 .. len /\ k + (i - 1) = (k + i) - 1
    BY <1>1, <2>1
  <2>4. data[RingForward(start, (k + i) - 1)] = log[fsync_len + (k + i)]
    BY <2>3 DEF MakeUp
  <2>. QED  BY <1>1, <2>2, <2>3, <2>4, SMTT(30)
<1>. QED  BY <1>1, <1>2, <1>3, <1>4 DEF MakeUp

\* In a session, and while the ring is replayed, LogCore is about the struct.
LEMMA LoadedLog ==
    ASSUME LogCore, WordsInForce, pc \in Session \cup Replaying
    PROVE  /\ fsync_len <= synced /\ synced <= Len(file)
           /\ MakeUp(file, data, fsync_len, start, len, log)
  BY DEF LogCore, WordsInForce, GuardedLog, CurFsyncLen, CurStart, CurLen, Loaded,
         Session, Replaying, Setup

\* Opening a file that has no ring yet.
LEMMA LogSetup ==
    ASSUME TypeInv, WordsInForce, LogCore, ~damaged,
           CreateNvmFile \/ SizeNvmFile \/ ResetMeta \/ ResetEnd \/ OpenFails
    PROVE  LogCore'
<1>. USE DEF diskVars, fdVars, nvmVars, bufVars, afsyncVars, appVars, history,
         Session, Setup, Replaying
<1>1. CASE CreateNvmFile
  BY <1>1 DEF CreateNvmFile, LogCore, UnguardedLog, GuardedLog, FileHoldsLog,
       RecordInProgress, ReplayProgress, FsyncCovers
<1>2. CASE SizeNvmFile
  BY <1>2 DEF SizeNvmFile, LogCore, UnguardedLog, GuardedLog, FileHoldsLog,
       RecordInProgress, ReplayProgress, FsyncCovers
<1>3. CASE ResetMeta
  BY <1>3 DEF ResetMeta, LogCore, UnguardedLog, GuardedLog, FileHoldsLog,
       RecordInProgress, ReplayProgress, FsyncCovers
<1>4. CASE ResetEnd
  <2>1. /\ log = file /\ synced = Len(file) /\ nvm = "ok"
        /\ fsync_len = Len(file) /\ len = 0 /\ Len(file) \in Nat
    BY <1>4 DEF ResetEnd, LogCore, UnguardedLog, WordsInForce, TypeInv, TypeOK
  <2>2. /\ pc' = "idle" /\ thread' = "waiting" /\ sem_done' = 0
        /\ UNCHANGED <<file, synced, data, nvm, fsync_len, start, len, log>>
    BY <1>4 DEF ResetEnd, StartAfsync
  <2>3. CurFsyncLen' = fsync_len /\ CurStart' = start /\ CurLen' = len
    BY <2>2 DEF CurFsyncLen, CurStart, CurLen, Loaded
  <2>4. MakeUp(file, data, fsync_len, start, len, log)
    BY <2>1 DEF MakeUp
  <2>5. MakeUp(file', data', CurFsyncLen', CurStart', CurLen', log')
    BY <2>2, <2>3, <2>4
  <2>6. GuardedLog' /\ UnguardedLog' /\ FileHoldsLog'
    BY <2>1, <2>2, <2>3, <2>5 DEF GuardedLog, UnguardedLog, FileHoldsLog
  <2>. QED  BY <2>1, <2>2, <2>6 DEF LogCore, RecordInProgress, ReplayProgress,
              FsyncCovers
<1>5. CASE OpenFails
  <2>1. /\ CurFsyncLen' = CurFsyncLen /\ CurStart' = CurStart
        /\ CurLen' = CurLen
    BY <1>5 DEF OpenFails, CurFsyncLen, CurStart, CurLen, Loaded
  <2>2. /\ pc = "closed" /\ pc' = "failed"
        /\ UNCHANGED <<file, synced, data, nvm, log>>
    BY <1>5 DEF OpenFails
  <2>3. GuardedLog'
    <3>1. MakeUp(file, data, CurFsyncLen, CurStart, CurLen, log)
            => MakeUp(file', data', CurFsyncLen', CurStart', CurLen', log')
      BY <2>1, <2>2
    <3>. QED  BY <2>1, <2>2, <3>1 DEF LogCore, GuardedLog
  <2>. QED  BY <2>2, <2>3 DEF LogCore, UnguardedLog, FileHoldsLog, RecordInProgress,
              ReplayProgress, FsyncCovers
<1>. QED  BY <1>1, <1>2, <1>3, <1>4, <1>5

\* write(2) with O_APPEND.
LEMMA AppendWrite ==
    ASSUME TypeInv, append, NEW d \in Seq(Cell), SyscallWrite(d)
    PROVE  /\ Len(file') = Len(file) + Len(d)
           /\ \A i \in 1 .. Len(file) : file'[i] = file[i]
           /\ \A i \in 1 .. Len(d) : file'[Len(file) + i] = d[i]
           /\ synced' = synced
<1>1. file \in Seq(Cell) /\ WritePos = Len(file) /\ Len(file) \in 0 .. Len(file)
  BY DEF TypeInv, TypeOK, WritePos
<1>2. file' = Overwrite(file, Len(file), d) /\ synced' = synced
  BY <1>1 DEF SyscallWrite
<1>. DEFINE w == Overwrite(file, Len(file), d)
<1>3. /\ Len(w) = IF Len(file) + Len(d) > Len(file) THEN Len(file) + Len(d)
                                                     ELSE Len(file)
      /\ \A i \in 1 .. Len(w) :
            w[i] = IF Len(file) < i /\ i <= Len(file) + Len(d)
                   THEN d[i - Len(file)] ELSE file[i]
  BY <1>1, OverwriteType
<1>4. Len(file) \in Nat /\ Len(d) \in Nat
  BY <1>1
<1>. HIDE DEF w
<1>5. Len(w) = Len(file) + Len(d)
  BY <1>3, <1>4
<1>6. \A i \in 1 .. Len(file) : w[i] = file[i]
  BY <1>3, <1>4, <1>5
<1>7. ASSUME NEW i \in 1 .. Len(d) PROVE w[Len(file) + i] = d[i]
  <2>1. Len(file) + i \in 1 .. Len(w) /\ (Len(file) + i) - Len(file) = i
    BY <1>4, <1>5
  <2>. QED  BY <1>3, <1>4, <2>1
<1>. QED  BY <1>2, <1>5, <1>6, <1>7 DEF w

\* Cutting the file back and replaying the ring.
LEMMA LogReplay ==
    ASSUME TypeInv, WordsInForce, WordsInForce', LogCore, ~damaged,
           \/ OpenExisting \/ ReplayFront \/ ReplayBack
           \/ \E n \in 0 .. len : ReplayFails(n)
    PROVE  LogCore'
<1>. USE DEF diskVars, fdVars, nvmVars, bufVars, afsyncVars, appVars, history,
         Session, Setup, Replaying
<1>0. /\ file \in Seq(Cell) /\ log \in Seq(Byte) /\ data \in [Pos -> Cell]
      /\ fsync_len \in Nat /\ start \in Pos /\ len \in 0 .. Capacity /\ synced \in Nat
      /\ 0 \in Pos /\ Capacity \in Nat
  BY CapacityType DEF TypeInv, TypeOK, Pos
<1>a. /\ Front(start, len) \in Nat /\ Front(start, len) <= len
      /\ Front(start, len) \in 0 .. Capacity /\ len - Front(start, len) \in 0 .. Capacity
      /\ start + len <= Capacity => Front(start, len) = len
  <2>1. start \in Pos /\ len \in 0 .. Capacity
    BY <1>0
  <2>2. /\ Front(start, len) \in 0 .. len
        /\ start + len <= Capacity => Front(start, len) = len
    BY <2>1, FrontType
  <2>. QED  BY <2>1, <2>2, CapacityType
<1>1. CASE OpenExisting
  <2>1. /\ CurFsyncLen = meta.fsync_len /\ CurStart = GetBufStart(meta)
        /\ CurLen = LenBetween(GetBufStart(meta), buf_end)
    BY <1>1 DEF OpenExisting, CurFsyncLen, CurStart, CurLen, Loaded
  <2>2. /\ CurFsyncLen' = fsync_len' /\ CurStart' = start' /\ CurLen' = len'
        /\ fsync_len' = CurFsyncLen /\ start' = CurStart /\ len' = CurLen
        /\ pc' = "replay" /\ pc = "closed" /\ nvm = "ok"
        /\ UNCHANGED <<data, nvm, log>>
    BY <1>1, <2>1 DEF OpenExisting, CurFsyncLen, CurStart, CurLen, Loaded
  <2>3. /\ CurFsyncLen <= synced /\ synced <= Len(file) /\ CurFsyncLen \in Nat
        /\ MakeUp(file, data, CurFsyncLen, CurStart, CurLen, log)
    BY <2>1, <2>2 DEF LogCore, GuardedLog, TypeInv, TypeOK
  <2>4. /\ file' = SubSeq(file, 1, CurFsyncLen) /\ synced' = CurFsyncLen
    BY <1>0, <1>1, <2>1, <2>3 DEF OpenExisting
  <2>5. /\ Len(file') = CurFsyncLen
        /\ \A i \in 1 .. CurFsyncLen : file'[i] = file[i]
    BY <1>0, <2>3, <2>4
  <2>6. MakeUp(file', data', CurFsyncLen', CurStart', CurLen', log')
    BY <2>2, <2>3, <2>5 DEF MakeUp
  <2>7. GuardedLog' /\ ReplayProgress' /\ synced' <= Len(file')
    BY <2>2, <2>3, <2>4, <2>5, <2>6 DEF GuardedLog, ReplayProgress
  <2>. QED  BY <2>2, <2>7 DEF LogCore, UnguardedLog, FileHoldsLog, RecordInProgress,
              FsyncCovers
<1>2. ASSUME pc \in Replaying
      PROVE  /\ fsync_len <= synced /\ synced <= Len(file) /\ append /\ nvm = "ok"
             /\ MakeUp(file, data, fsync_len, start, len, log)
             /\ fsync_len = meta.fsync_len /\ start = GetBufStart(meta)
             /\ len = LenBetween(start, buf_end)
  BY <1>2, LoadedLog DEF WordsInForce
<1>3. ASSUME NEW d \in Seq(Cell), SyscallWrite(d), pc \in Replaying,
             UNCHANGED <<data, log>>
      PROVE  /\ MakeUp(file', data', fsync_len, start, len, log')
             /\ fsync_len <= synced' /\ synced' <= Len(file')
  <2>1. /\ Len(file') = Len(file) + Len(d) /\ synced' = synced
        /\ \A i \in 1 .. Len(file) : file'[i] = file[i]
    BY <1>2, <1>3, AppendWrite
  <2>2. /\ fsync_len <= synced /\ synced <= Len(file)
        /\ MakeUp(file, data, fsync_len, start, len, log)
    BY <1>2, <1>3
  <2>3. Len(file) \in Nat /\ Len(d) \in Nat
    BY <1>0
  <2>4. ASSUME NEW i \in 1 .. fsync_len PROVE file'[i] = log[i]
    <3>1. i \in 1 .. Len(file)
      BY <1>0, <2>2, <2>3
    <3>. QED  BY <2>1, <2>2, <3>1 DEF MakeUp
  <2>5. MakeUp(file', data, fsync_len, start, len, log)
    BY <2>2, <2>4 DEF MakeUp
  <2>. QED  BY <1>0, <1>3, <2>1, <2>2, <2>3, <2>5
<1>4. ASSUME NEW n \in 0 .. len, ReplayFails(n) PROVE LogCore'
  <2>1. RingBytes(start, n) \in Seq(Cell) /\ RingBytes(0, n) \in Seq(Cell)
    BY <1>0, RingBytesType
  <2>2. /\ pc \in Replaying /\ pc' = "failed"
        /\ UNCHANGED <<meta, buf_end, data, nvm, log>>
    BY <1>4 DEF ReplayFails
  <2>3. /\ MakeUp(file', data', fsync_len, start, len, log')
        /\ fsync_len <= synced' /\ synced' <= Len(file')
    BY <1>3, <1>4, <2>1, <2>2 DEF ReplayFails
  <2>4. /\ CurFsyncLen' = fsync_len /\ CurStart' = start /\ CurLen' = len
        /\ nvm = "ok"
    BY <1>2, <2>2 DEF CurFsyncLen, CurStart, CurLen, Loaded
  <2>. QED  BY <2>2, <2>3, <2>4 DEF LogCore, UnguardedLog, GuardedLog, FileHoldsLog,
              RecordInProgress, ReplayProgress, FsyncCovers
<1>5. ASSUME UNCHANGED <<data, log, bufVars, nvm>>, pc \in Replaying,
             pc' = "idle", thread' = "waiting", sem_done' = 0,
             MakeUp(file', data', fsync_len, start, len, log'),
             fsync_len <= synced', synced' <= Len(file'), Len(log) <= Len(file'),
             \A i \in 1 .. Len(log) : file'[i] = log[i]
      PROVE  LogCore'
  <2>1. /\ CurFsyncLen' = fsync_len /\ CurStart' = start /\ CurLen' = len
        /\ nvm' = "ok"
    BY <1>2, <1>5 DEF CurFsyncLen, CurStart, CurLen, Loaded
  <2>. QED  BY <1>5, <2>1 DEF LogCore, UnguardedLog, GuardedLog, FileHoldsLog,
              RecordInProgress, ReplayProgress, FsyncCovers
<1>6. CASE ReplayFront
  <2>. DEFINE n == Front(start, len)
  <2>1. /\ n \in 0 .. Capacity /\ n <= len /\ n \in Nat
        /\ start + len <= Capacity => n = len
    BY <1>a
  <2>2. /\ RingBytes(start, n) \in Seq(Cell) /\ Len(RingBytes(start, n)) = n
        /\ \A i \in 1 .. n : RingBytes(start, n)[i] = data[RingForward(start, i - 1)]
    BY <1>0, <2>1, RingBytesType
  <2>3. /\ pc = "replay" /\ SyscallWrite(RingBytes(start, n))
        /\ UNCHANGED <<data, log, bufVars, nvm>>
    BY <1>6 DEF ReplayFront
  <2>. HIDE DEF n
  <2>4. /\ MakeUp(file', data', fsync_len, start, len, log')
        /\ fsync_len <= synced' /\ synced' <= Len(file')
    BY <1>3, <2>2, <2>3
  <2>5. /\ Len(file) = fsync_len /\ append
        /\ MakeUp(file, data, fsync_len, start, len, log)
    BY <1>2, <2>3 DEF LogCore, ReplayProgress
  <2>6. /\ Len(file') = fsync_len + n
        /\ \A i \in 1 .. n : file'[fsync_len + i] = data[RingForward(start, i - 1)]
    BY <2>2, <2>3, <2>5, AppendWrite
  <2>7. \A i \in 1 .. n : file'[fsync_len + i] = log[fsync_len + i]
    <3>. TAKE i \in 1 .. n
    <3>1. i \in 1 .. len
      BY <1>0, <2>1
    <3>2. data[RingForward(start, i - 1)] = log[fsync_len + i]
      BY <2>5, <3>1 DEF MakeUp
    <3>. QED  BY <2>6, <3>2
  <2>8. CASE start + len <= Capacity
    <3>1. pc' = "idle" /\ thread' = "waiting" /\ sem_done' = 0
      BY <1>6, <2>8 DEF ReplayFront, StartAfsync
    <3>2. n = len /\ Len(log) = fsync_len + len /\ Len(log) <= Len(file')
      BY <1>0, <2>1, <2>5, <2>6, <2>8 DEF MakeUp
    <3>3. ASSUME NEW i \in 1 .. Len(log) PROVE file'[i] = log[i]
      <4>1. CASE i <= fsync_len
        BY <1>0, <2>3, <2>4, <4>1 DEF MakeUp
      <4>2. CASE i > fsync_len
        <5>1. i - fsync_len \in 1 .. n /\ fsync_len + (i - fsync_len) = i
          BY <1>0, <2>1, <3>2, <4>2
        <5>. QED  BY <2>7, <5>1
      <4>. QED  BY <1>0, <4>1, <4>2
    <3>. QED  BY <1>5, <2>3, <2>4, <3>1, <3>2, <3>3
  <2>9. CASE ~(start + len <= Capacity)
    <3>1. pc' = "replay2"
      BY <1>6, <2>9 DEF ReplayFront
    <3>2. ReplayProgress'
      <4>1. /\ Front(start', len') = n /\ fsync_len' = fsync_len /\ log' = log
            /\ start' + len' > Capacity
        BY <1>0, <2>3, <2>9 DEF n, Pos
      <4>. QED  BY <2>6, <2>7, <3>1, <4>1 DEF ReplayProgress
    <3>3. /\ CurFsyncLen' = fsync_len /\ CurStart' = start /\ CurLen' = len
          /\ nvm' = "ok"
      BY <1>2, <2>3, <3>1 DEF CurFsyncLen, CurStart, CurLen, Loaded
    <3>. QED  BY <2>4, <3>1, <3>2, <3>3 DEF LogCore, UnguardedLog, GuardedLog,
                FileHoldsLog, RecordInProgress, FsyncCovers
  <2>. QED  BY <2>8, <2>9
<1>7. CASE ReplayBack
  <2>. DEFINE n == Front(start, len)
              m == len - n
  <2>1. /\ n \in Nat /\ m \in 0 .. Capacity /\ m \in Nat /\ n + m = len
    BY <1>0, <1>a
  <2>2. /\ RingBytes(0, m) \in Seq(Cell) /\ Len(RingBytes(0, m)) = m
        /\ \A i \in 1 .. m : RingBytes(0, m)[i] = data[RingForward(0, i - 1)]
    BY <1>0, <2>1, RingBytesType
  <2>3. /\ pc = "replay2" /\ SyscallWrite(RingBytes(0, m))
        /\ UNCHANGED <<data, log, bufVars, nvm>>
        /\ pc' = "idle" /\ thread' = "waiting" /\ sem_done' = 0
    BY <1>7 DEF ReplayBack, StartAfsync
  <2>4. /\ start + len > Capacity /\ Len(file) = fsync_len + n /\ append
        /\ \A i \in 1 .. n : file[fsync_len + i] = log[fsync_len + i]
        /\ MakeUp(file, data, fsync_len, start, len, log)
    BY <1>2, <2>3 DEF LogCore, ReplayProgress
  <2>5. \A i \in 1 .. m : RingForward(0, i - 1) = RingForward(start, n + i - 1)
    BY <1>0, <2>1, <2>4 DEF RingForward, Front, Pos
  <2>. HIDE DEF n, m
  <2>6. /\ MakeUp(file', data', fsync_len, start, len, log')
        /\ fsync_len <= synced' /\ synced' <= Len(file')
    BY <1>3, <2>2, <2>3
  <2>7. /\ Len(file') = fsync_len + n + m
        /\ \A i \in 1 .. Len(file) : file'[i] = file[i]
        /\ \A i \in 1 .. m : file'[Len(file) + i] = RingBytes(0, m)[i]
    BY <1>0, <2>1, <2>2, <2>3, <2>4, AppendWrite
  <2>8. ASSUME NEW i \in 1 .. m PROVE file'[fsync_len + n + i] = log[fsync_len + n + i]
    <3>1. file'[fsync_len + n + i] = data[RingForward(start, n + i - 1)]
      BY <2>2, <2>4, <2>5, <2>7
    <3>2. n + i \in 1 .. len /\ fsync_len + (n + i) = fsync_len + n + i
      BY <1>0, <2>1
    <3>3. data[RingForward(start, (n + i) - 1)] = log[fsync_len + (n + i)]
      BY <2>4, <3>2 DEF MakeUp
    <3>. QED  BY <1>0, <2>1, <3>1, <3>2, <3>3
  <2>9. Len(log) = fsync_len + len /\ Len(log) <= Len(file')
    BY <1>0, <2>1, <2>4, <2>7 DEF MakeUp
  <2>10. ASSUME NEW i \in 1 .. Len(log) PROVE file'[i] = log[i]
    <3>1. CASE i <= fsync_len
      BY <1>0, <2>3, <2>6, <3>1 DEF MakeUp
    <3>2. CASE i > fsync_len /\ i <= fsync_len + n
      <4>1. /\ i - fsync_len \in 1 .. n /\ fsync_len + (i - fsync_len) = i
            /\ i \in 1 .. Len(file)
        BY <1>0, <2>1, <2>4, <3>2
      <4>. QED  BY <2>4, <2>7, <4>1
    <3>3. CASE i > fsync_len + n
      <4>1. /\ i - fsync_len - n \in 1 .. m
            /\ fsync_len + n + (i - fsync_len - n) = i
        BY <1>0, <2>1, <2>9, <3>3
      <4>. QED  BY <2>8, <4>1
    <3>. QED  BY <1>0, <2>1, <3>1, <3>2, <3>3
  <2>. QED  BY <1>5, <2>3, <2>6, <2>9, <2>10
<1>. QED  BY <1>1, <1>4, <1>6, <1>7

\* A step inside a session that moves neither the file nor the ring's bytes.
LEMMA SessionLog ==
    ASSUME LogCore, WordsInForce', ~damaged, pc \in Session,
           pc' \in {"idle", "check", "fsync", "file"},
           UNCHANGED <<file, data, log, nvm>>, synced' <= Len(file),
           MakeUp(file, data, fsync_len', start', len', log), fsync_len' <= synced',
           FsyncCovers'
    PROVE  LogCore'
<1>1. pc' \in Session /\ pc' \notin Replaying /\ pc' \notin Setup /\ nvm' = "ok"
  BY DEF Session, Replaying, Setup, WordsInForce
<1>2. CurFsyncLen' = fsync_len' /\ CurStart' = start' /\ CurLen' = len'
  BY <1>1 DEF CurFsyncLen, CurStart, CurLen, Loaded
<1>3. GuardedLog' /\ UnguardedLog'
  BY <1>1, <1>2 DEF GuardedLog, UnguardedLog
<1>4. FileHoldsLog'
  BY DEF LogCore, FileHoldsLog
<1>. QED  BY <1>3, <1>4 DEF LogCore, RecordInProgress, ReplayProgress

\* The first half of aofguard_write: making room in the ring.
LEMMA LogMakeRoom ==
    ASSUME TypeInv, WordsInForce, WordsInForce', LogCore, ~damaged,
           \/ \E r \in Records : WriteCall(r)
           \/ WriteFits \/ WriteTooBig \/ WaitAfsyncDone \/ DoFsync \/ DoFsyncFails
    PROVE  LogCore'
<1>. USE DEF diskVars, fdVars, nvmVars, bufVars, afsyncVars, appVars, history
<1>1. /\ pc \in Session /\ pc' \in {"idle", "check", "fsync", "file"}
      /\ UNCHANGED <<file, data, log, nvm>>
  BY DEF WriteCall, WriteFits, WriteTooBig, WaitAfsyncDone, DoFsync, DoFsyncFails,
         Return, Session
<1>2. /\ fsync_len <= synced /\ synced <= Len(file)
      /\ MakeUp(file, data, fsync_len, start, len, log)
      /\ Len(log) <= Len(file) /\ \A i \in 1 .. Len(log) : file[i] = log[i]
      /\ start = GetBufStart(meta) /\ fsync_len = meta.fsync_len
      /\ buf_end = RingForward(start, len)
  BY <1>1, LoadedLog DEF LogCore, FileHoldsLog, WordsInForce
<1>3. /\ file \in Seq(Cell) /\ Len(file) \in Nat /\ log \in Seq(Byte)
      /\ synced \in Nat /\ fsync_len \in Nat /\ len \in 0 .. Capacity
  BY DEF TypeInv, TypeOK
<1>4. ASSUME UNCHANGED <<synced, bufVars, afsyncVars>> PROVE LogCore'
  <2>1. FsyncCovers'
    BY <1>1, <1>4 DEF LogCore, FsyncCovers
  <2>. QED  BY <1>1, <1>2, <1>4, <2>1, SessionLog
<1>5. ASSUME NEW n \in 0 .. BlockCount, n * BlockSize <= len, UpdateAfterFsync(n),
             fsync_len + n * BlockSize <= synced', synced' <= Len(file),
             thread' # "syncing", sem_done' = 0
      PROVE  LogCore'
  <2>1. TypeOK
    BY DEF TypeInv
  <2>2. start' = RingForward(start, n * BlockSize)
    BY <1>2, <1>5, <2>1, UpdateWords
  <2>3. MakeUp(file, data, fsync_len', start', len', log)
    BY <1>2, <1>5, <2>1, <2>2, UpdateLog
  <2>4. fsync_len' <= synced'
    BY <1>5, <2>1, UpdateType
  <2>5. FsyncCovers'
    BY <1>5 DEF FsyncCovers
  <2>. QED  BY <1>1, <1>5, <2>3, <2>4, <2>5, SessionLog
<1>6. ASSUME TakeDone, synced' = synced PROVE LogCore'
  <2>1. /\ block_count \in 0 .. BlockCount /\ block_count * BlockSize <= len
        /\ UpdateAfterFsync(block_count) /\ sem_done = 1
    BY <1>1, <1>6 DEF TakeDone, TypeInv, TypeOK, AfsyncHandshake
  <2>2. fsync_len + block_count * BlockSize <= synced
    BY <1>1, <2>1 DEF LogCore, FsyncCovers
  <2>3. thread' = "waiting" /\ sem_done' = 0
    BY <1>1, <1>6, TakeDoneType
  <2>. QED  BY <1>2, <1>5, <1>6, <2>1, <2>2, <2>3
<1>7. ASSUME NEW r \in Records, WriteCall(r) PROVE LogCore'
  BY <1>4, <1>6, <1>7 DEF WriteCall, HandleAfsyncIfFinish
<1>8. CASE WriteFits \/ WriteTooBig \/ DoFsyncFails
  BY <1>4, <1>8 DEF WriteFits, WriteTooBig, DoFsyncFails
<1>9. CASE WaitAfsyncDone
  BY <1>4, <1>6, <1>9 DEF WaitAfsyncDone
<1>10. CASE DoFsync
  <2>1. CASE Fits
    BY <1>4, <1>10, <2>1 DEF DoFsync
  <2>2. CASE ~Fits
    <3>1. /\ len \div BlockSize \in 0 .. BlockCount
          /\ (len \div BlockSize) * BlockSize \in 0 .. len
      BY <1>3, BlocksInRing
    <3>2. /\ synced' = Len(file) /\ UpdateAfterFsync(len \div BlockSize)
          /\ UNCHANGED <<thread, sem_done>>
      BY <1>10, <2>2 DEF DoFsync
    <3>3. thread # "syncing" /\ sem_done = 0
      BY <1>10 DEF DoFsync, TypeInv, TypeOK, SessionShape, AfsyncHandshake, Session
    <3>4. fsync_len + (len \div BlockSize) * BlockSize <= Len(file)
      BY <1>2, <1>3, <3>1 DEF MakeUp
    <3>. QED  BY <1>3, <1>5, <3>1, <3>2, <3>3, <3>4
  <2>. QED  BY <2>1, <2>2
<1>. QED  BY <1>7, <1>8, <1>9, <1>10

\* write(2) of the record, complete or cut short.
LEMMA LogWriteFile ==
    ASSUME TypeInv, WordsInForce, LogCore, ~damaged, ~damaged',
           WriteFile \/ \E n \in 0 .. Len(rec) : WriteFileFails(n)
    PROVE  LogCore'
<1>. USE DEF diskVars, fdVars, nvmVars, bufVars, afsyncVars, appVars, history,
         Session, Setup, Replaying
<1>1. /\ pc = "file" /\ pc' \in {"idle", "copy"} /\ append /\ nvm = "ok"
      /\ UNCHANGED <<data, log, nvm, fsync_len, start, len, afsyncVars>>
  BY DEF WriteFile, WriteFileFails, Return, WordsInForce
<1>2. /\ fsync_len <= synced /\ synced <= Len(file)
      /\ MakeUp(file, data, fsync_len, start, len, log)
      /\ Len(log) <= Len(file) /\ \A i \in 1 .. Len(log) : file[i] = log[i]
  BY <1>1, LoadedLog DEF LogCore, FileHoldsLog
<1>3. /\ file \in Seq(Cell) /\ Len(file) \in Nat /\ log \in Seq(Byte)
      /\ Len(log) \in Nat /\ Len(log) = fsync_len + len
      /\ synced \in Nat /\ fsync_len \in Nat /\ len \in Nat /\ rec \in Seq(Cell)
      /\ \A n \in 0 .. Len(rec) : SubSeq(rec, 1, n) \in Seq(Cell)
  BY <1>2, CapacityType, SMTT(30) DEF TypeInv, TypeOK, MakeUp, Cell
<1>4. PICK d \in Seq(Cell) : SyscallWrite(d) /\ (WriteFile => d = rec)
  BY <1>3 DEF WriteFile, WriteFileFails
<1>5. /\ Len(file') = Len(file) + Len(d) /\ synced' = synced
      /\ \A i \in 1 .. Len(file) : file'[i] = file[i]
      /\ \A i \in 1 .. Len(d) : file'[Len(file) + i] = d[i]
  BY <1>1, <1>4, AppendWrite
<1>6. Len(d) \in Nat /\ Len(file) <= Len(file')
  BY <1>3, <1>5
<1>7. \A i \in 1 .. Len(log) : file'[i] = log[i]
  <2>1. ASSUME NEW i \in 1 .. Len(log) PROVE file'[i] = log[i]
    <3>1. i \in 1 .. Len(file)
      BY <1>2, <1>3
    <3>. QED  BY <1>2, <1>5, <3>1
  <2>. QED  BY <2>1
<1>8. MakeUp(file', data', fsync_len, start, len, log')
  BY <1>1, <1>2, <1>3, <1>7 DEF MakeUp
<1>9. CurFsyncLen' = fsync_len /\ CurStart' = start /\ CurLen' = len
  BY <1>1 DEF CurFsyncLen, CurStart, CurLen, Loaded
<1>10. GuardedLog' /\ UnguardedLog' /\ synced' <= Len(file')
  BY <1>1, <1>2, <1>3, <1>5, <1>6, <1>8, <1>9 DEF GuardedLog, UnguardedLog
<1>11. FileHoldsLog'
  BY <1>1, <1>2, <1>3, <1>6, <1>7 DEF FileHoldsLog
<1>12. FsyncCovers'
  <2>1. target \in Nat
    BY DEF TypeInv, TypeOK
  <2>. QED  BY <1>1, <1>3, <1>5, <1>6, <2>1 DEF LogCore, FsyncCovers
<1>13. RecordInProgress'
  <2>1. CASE pc' = "copy"
    <3>1. WriteFile /\ rec' = rec /\ d = rec
      BY <1>4, <2>1 DEF WriteFile, WriteFileFails, Return
    <3>2. Len(file) = Len(log)
      <4>1. ~Misaligned
        BY <3>1 DEF WriteFile
      <4>. QED  BY <1>3, <4>1 DEF Misaligned
    <3>. QED  BY <1>1, <1>5, <2>1, <3>1, <3>2 DEF RecordInProgress
  <2>2. CASE pc' # "copy"
    BY <1>1, <2>2 DEF RecordInProgress
  <2>. QED  BY <2>1, <2>2
<1>. QED  BY <1>1, <1>10, <1>11, <1>12, <1>13 DEF LogCore, ReplayProgress

\* Copying the record into the ring.
LEMMA LogCopy ==
    ASSUME TypeInv, WordsInForce, LogCore, ~damaged, CopyFront \/ CopyBack
    PROVE  LogCore'
<1>. USE DEF diskVars, fdVars, nvmVars, bufVars, afsyncVars, appVars, history,
         Session, Setup, Replaying
<1>1. /\ pc \in {"copy", "copy2"} /\ pc' \in {"copy2", "finish"} /\ nvm = "ok"
      /\ UNCHANGED <<diskVars, log, damaged, nvm, fsync_len, start, len, rec, afsyncVars>>
  BY DEF CopyFront, CopyBack, WordsInForce
<1>2. /\ fsync_len <= synced /\ MakeUp(file, data, fsync_len, start, len, log)
  BY <1>1, LoadedLog
<1>3. \A i \in 1 .. len : data'[RingForward(start, i - 1)] = data[RingForward(start, i - 1)]
  BY <1>1, CopyKeepsLog DEF CopyFront, CopyBack
<1>4. MakeUp(file', data', fsync_len, start, len, log')
  BY <1>1, <1>2, <1>3 DEF MakeUp
<1>5. CurFsyncLen' = fsync_len /\ CurStart' = start /\ CurLen' = len
  BY <1>1 DEF CurFsyncLen, CurStart, CurLen, Loaded
<1>6. GuardedLog' /\ UnguardedLog' /\ FileHoldsLog' /\ FsyncCovers' /\ ReplayProgress'
  BY <1>1, <1>2, <1>4, <1>5 DEF LogCore, GuardedLog, UnguardedLog, FileHoldsLog,
       FsyncCovers, ReplayProgress
<1>7. /\ start \in Pos /\ len \in 0 .. Capacity /\ Len(rec) \in 0 .. Capacity
      /\ len + Len(rec) <= Capacity /\ Len(rec) \in Nat /\ RingBufEnd \in Pos
      /\ FrontOfRec \in 0 .. Len(rec)
  <2>1. /\ start \in Pos /\ len \in 0 .. Capacity /\ Len(rec) \in 0 .. Capacity
        /\ len + Len(rec) <= Capacity /\ Len(rec) \in Nat
    BY <1>1, CapacityType DEF TypeInv, TypeOK, RoomForRecord
  <2>2. RingBufEnd \in Pos
    BY <2>1, RingForwardType DEF RingBufEnd
  <2>. QED  BY <2>1, <2>2, FrontType DEF FrontOfRec
<1>8. ASSUME NEW i \in 1 .. Len(rec)
      PROVE  LET q == RingForward(start, len + i - 1)
             IN  /\ q \in Pos
                 /\ i <= FrontOfRec => q = RingBufEnd + i - 1
                 /\ i > FrontOfRec => /\ q = i - 1 - FrontOfRec
                                      /\ FrontOfRec = Capacity - RingBufEnd
                                      /\ q < RingBufEnd
  BY <1>7, PiecePositions DEF FrontOfRec, RingBufEnd
<1>9. CASE CopyFront
  <2>1. ASSUME NEW i \in 1 .. FrontOfRec
        PROVE  data'[RingForward(start, len + i - 1)] = rec[i]
    <3>. DEFINE q == RingForward(start, len + i - 1)
    <3>0. i \in 1 .. Len(rec) /\ i <= FrontOfRec
      BY <1>7
    <3>1. q \in Pos /\ q = RingBufEnd + i - 1
      BY <1>8, <3>0
    <3>. HIDE DEF q
    <3>2. RingBufEnd <= q /\ q < RingBufEnd + FrontOfRec /\ 1 + q - RingBufEnd = i
      BY <1>7, <3>0, <3>1 DEF Pos
    <3>3. data' = Copied(1, FrontOfRec, RingBufEnd, Pos)
      BY <1>9 DEF CopyFront
    <3>4. data'[q] = rec[i]
      BY <3>1, <3>2, <3>3 DEF Copied
    <3>. QED  BY <3>4 DEF q
  <2>2. FrontOfRec' = FrontOfRec
    BY <1>1 DEF FrontOfRec, RingBufEnd
  <2>3. pc' = IF FrontOfRec = Len(rec) THEN "finish" ELSE "copy2"
    BY <1>9 DEF CopyFront
  <2>4. RecordInProgress'
    BY <1>1, <2>1, <2>2, <2>3 DEF LogCore, RecordInProgress
  <2>. QED  BY <1>1, <1>6, <2>4 DEF LogCore
<1>10. CASE CopyBack
  <2>. DEFINE m == Len(rec) - FrontOfRec
  <2>1. /\ pc = "copy2" /\ pc' = "finish" /\ data' = Copied(FrontOfRec + 1, m, 0, Pos)
        /\ FrontOfRec # Len(rec)
        /\ \A i \in 1 .. FrontOfRec : data[RingForward(start, len + i - 1)] = rec[i]
    BY <1>10 DEF CopyBack, LogCore, RecordInProgress
  <2>2. ASSUME NEW i \in 1 .. Len(rec)
        PROVE  data'[RingForward(start, len + i - 1)] = rec[i]
    <3>. DEFINE q == RingForward(start, len + i - 1)
    <3>0. /\ q \in Pos
          /\ i <= FrontOfRec => q = RingBufEnd + i - 1
          /\ i > FrontOfRec => q = i - 1 - FrontOfRec
      BY <1>8
    <3>1. FrontOfRec = Capacity - RingBufEnd /\ m <= RingBufEnd
      <4>1. Len(rec) \in 1 .. Len(rec) /\ Len(rec) > FrontOfRec
        BY <1>7, <2>1
      <4>2. /\ FrontOfRec = Capacity - RingBufEnd
            /\ RingForward(start, len + Len(rec) - 1) = Len(rec) - 1 - FrontOfRec
            /\ RingForward(start, len + Len(rec) - 1) < RingBufEnd
        BY <1>8, <4>1
      <4>. QED  BY <1>7, <4>2, CapacityType DEF Pos
    <3>2. CASE i <= FrontOfRec
      <4>1. q = RingBufEnd + i - 1 /\ ~(q < 0 + m)
        BY <1>7, <3>0, <3>1, <3>2 DEF Pos
      <4>2. data'[q] = data[q]
        BY <2>1, <3>0, <4>1 DEF Copied
      <4>3. i \in 1 .. FrontOfRec
        BY <1>7, <3>2
      <4>. QED  BY <2>1, <4>2, <4>3
    <3>3. CASE i > FrontOfRec
      <4>1. q = i - 1 - FrontOfRec
        BY <3>0, <3>3
      <4>2. 0 <= q /\ q < 0 + m /\ FrontOfRec + 1 + q - 0 = i /\ q \in Pos
        BY <1>7, <3>0, <3>3, <4>1
      <4>3. data'[q] = rec[i]
        <5>. HIDE DEF q, m
        <5>. QED  BY <2>1, <4>2 DEF Copied
      <4>. QED  BY <4>3
    <3>. QED  BY <1>7, <3>2, <3>3
  <2>3. RecordInProgress'
    BY <1>1, <2>1, <2>2 DEF LogCore, RecordInProgress
  <2>. QED  BY <1>1, <1>6, <2>3 DEF LogCore
<1>. QED  BY <1>9, <1>10

\* The store to buf_end makes the record part of the log.
LEMMA LogFinish ==
    ASSUME TypeInv, TypeInv', WordsInForce, LogCore, ~damaged, FinishWrite
    PROVE  LogCore'
<1>. USE DEF diskVars, fdVars, nvmVars, bufVars, afsyncVars, appVars, history,
         Session, Setup, Replaying
<1>1. /\ pc = "finish" /\ pc' = "idle" /\ nvm = "ok" /\ len' = len + Len(rec)
      /\ log' = log \o rec
      /\ UNCHANGED <<diskVars, damaged, nvm, data, fsync_len, start, thread, target,
                     sem_done>>
  BY DEF FinishWrite, Return, WordsInForce
<1>2. /\ fsync_len <= synced /\ MakeUp(file, data, fsync_len, start, len, log)
      /\ Len(log) <= Len(file) /\ \A i \in 1 .. Len(log) : file[i] = log[i]
      /\ Len(file) = Len(log) + Len(rec)
      /\ \A i \in 1 .. Len(rec) : file[Len(log) + i] = rec[i]
      /\ \A i \in 1 .. Len(rec) : data[RingForward(start, len + i - 1)] = rec[i]
  BY <1>1, LoadedLog DEF LogCore, FileHoldsLog, RecordInProgress
<1>3. /\ log \in Seq(Byte) /\ rec \in Seq(Byte) /\ Len(log) \in Nat
      /\ Len(rec) \in Nat /\ Len(log) = fsync_len + len
      /\ synced \in Nat /\ fsync_len \in Nat /\ len \in Nat
  BY <1>2, CapacityType DEF TypeInv, TypeOK, MakeUp
<1>4. /\ Len(log') = Len(log) + Len(rec)
      /\ \A i \in 1 .. Len(log) : log'[i] = log[i]
      /\ \A i \in 1 .. Len(rec) : log'[Len(log) + i] = rec[i]
  <2>1. log \in Seq(Byte) /\ rec \in Seq(Byte) /\ log' = log \o rec
    BY <1>1, <1>3
  <2>2. Len(log') = Len(log) + Len(rec) /\ \A i \in 1 .. Len(log) : log'[i] = log[i]
    BY <2>1
  <2>3. ASSUME NEW i \in 1 .. Len(rec) PROVE log'[Len(log) + i] = rec[i]
    <3>1. /\ Len(log) + i \in 1 .. Len(log) + Len(rec) /\ Len(log) + i > Len(log)
          /\ (Len(log) + i) - Len(log) = i
      BY <1>3
    <3>. QED  BY <2>1, <3>1
  <2>. QED  BY <2>2, <2>3
<1>5. ASSUME NEW i \in 1 .. Len(log') PROVE file'[i] = log'[i]
  <2>1. CASE i <= Len(log)
    BY <1>1, <1>2, <1>3, <1>4, <2>1
  <2>2. CASE i > Len(log)
    <3>1. i - Len(log) \in 1 .. Len(rec) /\ Len(log) + (i - Len(log)) = i
      BY <1>3, <1>4, <2>2
    <3>. QED  BY <1>1, <1>2, <1>4, <3>1
  <2>. QED  BY <1>3, <1>4, <2>1, <2>2
<1>6. ASSUME NEW i \in 1 .. len'
      PROVE  data[RingForward(start, i - 1)] = log'[fsync_len + i]
  <2>1. CASE i <= len
    <3>1. i \in 1 .. len /\ fsync_len + i \in 1 .. Len(log)
      BY <1>3, <2>1
    <3>. QED  BY <1>2, <1>4, <3>1 DEF MakeUp
  <2>2. CASE i > len
    <3>1. /\ i - len \in 1 .. Len(rec) /\ len + (i - len) - 1 = i - 1
          /\ Len(log) + (i - len) = fsync_len + i
      BY <1>1, <1>3, <2>2
    <3>. QED  BY <1>2, <1>4, <3>1
  <2>. QED  BY <1>1, <1>3, <2>1, <2>2
<1>7. MakeUp(file', data', fsync_len', start', len', log')
  <2>1. \A i \in 1 .. fsync_len : file'[i] = log'[i]
    BY <1>3, <1>4, <1>5
  <2>2. Len(log') = fsync_len + len'
    BY <1>1, <1>3, <1>4
  <2>. QED  BY <1>1, <1>6, <2>1, <2>2 DEF MakeUp
<1>8. CurFsyncLen' = fsync_len' /\ CurStart' = start' /\ CurLen' = len'
  BY <1>1 DEF CurFsyncLen, CurStart, CurLen, Loaded
<1>9. GuardedLog' /\ UnguardedLog'
  BY <1>1, <1>2, <1>7, <1>8 DEF GuardedLog, UnguardedLog
<1>10. FileHoldsLog'
  BY <1>1, <1>2, <1>3, <1>4, <1>5 DEF FileHoldsLog
<1>11. FsyncCovers'
  <2>1. CASE len' >= BlockSize /\ block_count = 0
    <3>1. thread # "syncing" /\ sem_done = 0
      BY <1>1, <2>1 DEF TypeInv, TypeOK, AfsyncHandshake
    <3>. QED  BY <1>1, <3>1 DEF FsyncCovers
  <2>2. CASE ~(len' >= BlockSize /\ block_count = 0)
    <3>1. block_count' = block_count
      BY <2>2 DEF FinishWrite
    <3>. QED  BY <1>1, <3>1 DEF LogCore, FsyncCovers
  <2>. QED  BY <2>1, <2>2
<1>. QED  BY <1>1, <1>9, <1>10, <1>11 DEF LogCore, RecordInProgress, ReplayProgress

\* The background fsync.
LEMMA LogAfsync ==
    ASSUME TypeInv, TypeInv', WordsInForce, LogCore, ~damaged, AfsyncStep
    PROVE  LogCore'
<1>. USE DEF diskVars, fdVars, nvmVars, bufVars, afsyncVars, appVars, history
<1>1. /\ pc \in Session
      /\ UNCHANGED <<file, nvmVars, bufVars, block_count, pc, rec, log, damaged>>
  BY DEF AfsyncStep, AfsyncBegin, AfsyncDone, AfsyncFails, TypeInv, SessionShape
<1>2. /\ fsync_len <= synced /\ synced <= Len(file)
      /\ MakeUp(file, data, fsync_len, start, len, log) /\ Len(log) <= Len(file)
      /\ block_count * BlockSize <= len
  BY <1>1, LoadedLog DEF LogCore, FileHoldsLog, TypeInv, AfsyncHandshake
<1>3. /\ Len(file) \in Nat /\ synced \in Nat /\ fsync_len \in Nat /\ len \in Nat
      /\ target \in Nat /\ block_count * BlockSize \in Nat
      /\ Len(log) = fsync_len + len
  <2>1. block_count \in Nat /\ block_count * BlockSize \in Nat
    BY CapacityType DEF TypeInv, TypeOK
  <2>2. Len(log) = fsync_len + len
    BY <1>2 DEF MakeUp
  <2>3. /\ Len(file) \in Nat /\ synced \in Nat /\ fsync_len \in Nat
        /\ len \in Nat /\ target \in Nat
    BY CapacityType DEF TypeInv, TypeOK
  <2>. QED  BY <2>1, <2>2, <2>3
<1>4. /\ synced <= synced' /\ synced' <= Len(file) /\ FsyncCovers'
  <2>1. CASE AfsyncBegin
    <3>1. sem_done' = 0
      BY <1>1, <2>1 DEF AfsyncBegin, TypeInv, TypeOK, AfsyncHandshake
    <3>2. fsync_len + block_count * BlockSize <= Len(file)
      BY <1>2, <1>3
    <3>. QED  BY <1>1, <1>2, <1>3, <2>1, <3>1, <3>2 DEF AfsyncBegin, FsyncCovers
  <2>2. CASE AfsyncDone
    <3>1. /\ target <= Len(file) /\ fsync_len + block_count * BlockSize <= target
      BY <1>1, <2>2 DEF AfsyncDone, LogCore, FsyncCovers
    <3>2. synced' >= target /\ synced' >= synced /\ synced' <= Len(file)
      BY <1>2, <1>3, <2>2, <3>1 DEF AfsyncDone
    <3>3. fsync_len' + block_count' * BlockSize <= synced'
      BY <1>1, <1>3, <3>1, <3>2 DEF TypeInv, TypeOK
    <3>. QED  BY <2>2, <3>2, <3>3 DEF AfsyncDone, FsyncCovers
  <2>3. CASE AfsyncFails
    BY <1>1, <1>2, <1>3, <2>3 DEF AfsyncFails, LogCore, FsyncCovers
  <2>. QED  BY <2>1, <2>2, <2>3 DEF AfsyncStep
<1>5. CurFsyncLen' = CurFsyncLen /\ CurStart' = CurStart /\ CurLen' = CurLen
  BY <1>1 DEF CurFsyncLen, CurStart, CurLen, Loaded
<1>6. CurFsyncLen = fsync_len
  BY <1>1 DEF CurFsyncLen, Loaded
<1>7. GuardedLog' /\ UnguardedLog'
  <2>1. MakeUp(file, data, CurFsyncLen, CurStart, CurLen, log)
          => MakeUp(file', data', CurFsyncLen', CurStart', CurLen', log')
    BY <1>1, <1>5
  <2>2. CurFsyncLen' <= synced'
    BY <1>2, <1>3, <1>4, <1>5, <1>6 DEF TypeInv, TypeOK
  <2>3. nvm = "ok" /\ pc \notin Setup
    BY <1>1 DEF WordsInForce, Session, Setup
  <2>. QED  BY <1>1, <2>1, <2>2, <2>3 DEF LogCore, GuardedLog, UnguardedLog
<1>8. RecordInProgress'
  BY <1>1 DEF LogCore, RecordInProgress, FrontOfRec, RingBufEnd
<1>. QED  BY <1>1, <1>4, <1>7, <1>8 DEF LogCore, FileHoldsLog, ReplayProgress

\* What a stop leaves in the ring: the log's cells are as they were.
LEMMA TornKeepsLog ==
    ASSUME TypeInv, TornData, NEW i \in 1 .. len
    PROVE  data'[RingForward(start, i - 1)] = data[RingForward(start, i - 1)]
<1>1. CASE pc \in {"copy", "copy2"}
  BY <1>1, CopyKeepsLog DEF TornData, TornCopy
<1>2. CASE pc \notin {"copy", "copy2"}
  BY <1>2 DEF TornData
<1>. QED  BY <1>1, <1>2

\* Outside the loss windows, a stop changes nothing of the stored log.
LEMMA LogStop ==
    ASSUME TypeInv, WordsInForce, LogCore, ~damaged, ~damaged',
           Deinit \/ Kill \/ PowerFailure
    PROVE  LogCore'
<1>. USE DEF Session, Setup, Replaying
<1>0. /\ file \in Seq(Cell) /\ log \in Seq(Byte) /\ synced \in Nat /\ Len(file) \in Nat
      /\ fsync_len \in Nat /\ start \in Pos /\ len \in 0 .. Capacity
      /\ meta.fsync_len \in Nat /\ buf_end \in Pos
      /\ GetBufStart(meta) \in Pos
      /\ pc \in {"closed", "failed"} \cup Setup \cup Replaying \cup Session
  BY LoadType DEF TypeInv, TypeOK
<1>1. /\ pc' = "closed" /\ ~LossWindow /\ UNCHANGED <<nvm, meta, buf_end, log>>
  BY DEF Deinit, Kill, PowerFailure, Stop
<1>2. /\ synced' \in Nat /\ Len(file') \in Nat
      /\ synced <= synced' /\ synced' <= Len(file') /\ Len(file') <= Len(file)
      /\ \A i \in 1 .. synced : file'[i] = file[i]
      /\ synced = Len(file) => file' = file
  BY <1>0 DEF Deinit, Kill, PowerFailure, diskVars, LogCore
<1>3. \A i \in 1 .. len : data'[RingForward(start, i - 1)] = data[RingForward(start, i - 1)]
  BY TornKeepsLog DEF Deinit, Kill, PowerFailure
<1>4. pc \notin {"copy", "copy2"} => data' = data
  BY DEF Deinit, Kill, PowerFailure, TornData
<1>5. /\ CurFsyncLen' = meta.fsync_len /\ CurStart' = GetBufStart(meta)
      /\ CurLen' = LenBetween(GetBufStart(meta), buf_end)
  BY <1>1 DEF CurFsyncLen, CurStart, CurLen, Loaded
<1>6. ASSUME NEW fl \in Nat, NEW s, NEW n \in Nat, fl <= synced,
             MakeUp(file, data, fl, s, n, log),
             \A i \in 1 .. n : data'[RingForward(s, i - 1)] = data[RingForward(s, i - 1)]
      PROVE  fl <= synced' /\ MakeUp(file', data', fl, s, n, log')
  <2>1. fl <= synced' /\ \A i \in 1 .. fl : i \in 1 .. synced
    BY <1>0, <1>2, <1>6
  <2>2. \A i \in 1 .. fl : file'[i] = log[i]
    BY <1>2, <1>6, <2>1 DEF MakeUp
  <2>. QED  BY <1>1, <1>6, <2>1, <2>2 DEF MakeUp
<1>7. UnguardedLog'
  <2>1. CASE nvm # "ok"
    BY <1>0, <1>1, <1>2, <2>1 DEF LogCore, UnguardedLog
  <2>2. CASE nvm = "ok"
    BY <1>1, <2>2 DEF UnguardedLog
  <2>. QED  BY <2>1, <2>2
<1>8. ASSUME nvm = "ok"
      PROVE  /\ CurFsyncLen' <= synced'
             /\ MakeUp(file', data', CurFsyncLen', CurStart', CurLen', log')
  <2>1. CASE pc \in Session \cup Replaying
    <3>1. /\ fsync_len <= synced /\ MakeUp(file, data, fsync_len, start, len, log)
          /\ fsync_len = meta.fsync_len /\ start = GetBufStart(meta)
      BY <2>1, LoadedLog DEF WordsInForce
    <3>2. LenBetween(start, buf_end) = len
      <4>1. CASE pc \in Session
        <5>1. len # Capacity /\ buf_end = RingForward(start, len)
          BY <1>1, <4>1 DEF LossWindow, WordsInForce
        <5>2. len \in 0 .. Capacity - 1
          BY <1>0, <5>1, CapacityType
        <5>. QED  BY <1>0, <5>1, <5>2, LenBetweenForward
      <4>2. CASE pc \in Replaying
        BY <4>2 DEF WordsInForce
      <4>. QED  BY <2>1, <4>1, <4>2
    <3>3. len \in Nat
      BY <1>0, CapacityType
    <3>4. fsync_len <= synced' /\ MakeUp(file', data', fsync_len, start, len, log')
      BY <1>0, <1>3, <1>6, <3>1, <3>3
    <3>. QED  BY <1>5, <3>1, <3>2, <3>4
  <2>2. CASE pc \in {"meta", "end"}
    <3>1. log = file /\ synced = Len(file)
      BY <2>2 DEF LogCore, UnguardedLog
    <3>2. meta.fsync_len = Len(file) /\ buf_end = GetBufStart(meta)
      <4>1. CASE pc = "meta"
        BY <1>1, <4>1 DEF LossWindow
      <4>2. CASE pc = "end"
        <5>1. meta.fsync_len = Len(file) /\ meta.start_block = 0 /\ buf_end = 0
          BY <1>1, <4>2 DEF LossWindow, WordsInForce
        <5>. QED  BY <5>1, CapacityType DEF GetBufStart
      <4>. QED  BY <2>2, <4>1, <4>2
    <3>3. LenBetween(GetBufStart(meta), buf_end) = 0
      BY <1>0, <3>2, CapacityType DEF LenBetween, Pos
    <3>4. MakeUp(file, data, meta.fsync_len, GetBufStart(meta), 0, log)
      BY <1>0, <3>1, <3>2 DEF MakeUp
    <3>5. /\ meta.fsync_len <= synced'
          /\ MakeUp(file', data', meta.fsync_len, GetBufStart(meta), 0, log')
      BY <1>0, <1>6, <3>1, <3>2, <3>4
    <3>. QED  BY <1>5, <3>3, <3>5
  <2>3. CASE pc \in {"closed", "failed"}
    <3>1. /\ CurFsyncLen = meta.fsync_len /\ CurStart = GetBufStart(meta)
          /\ CurLen = LenBetween(GetBufStart(meta), buf_end)
      BY <2>3 DEF CurFsyncLen, CurStart, CurLen, Loaded
    <3>2. CurFsyncLen <= synced /\ MakeUp(file, data, CurFsyncLen, CurStart, CurLen, log)
      BY <1>8, <2>3 DEF LogCore, GuardedLog
    <3>3. CurFsyncLen \in Nat /\ CurLen \in Nat
      BY <1>0, <3>1, LenBetweenEnd, CapacityType
    <3>4. data' = data
      BY <1>4, <2>3
    <3>5. /\ CurFsyncLen <= synced'
          /\ MakeUp(file', data', CurFsyncLen, CurStart, CurLen, log')
      BY <1>6, <3>2, <3>3, <3>4
    <3>. QED  BY <1>5, <3>1, <3>5
  <2>4. pc # "create"
    BY <1>8 DEF WordsInForce
  <2>. QED  BY <1>0, <2>1, <2>2, <2>3, <2>4
<1>9. GuardedLog'
  BY <1>1, <1>8 DEF GuardedLog
<1>. QED  BY <1>1, <1>2, <1>7, <1>9 DEF LogCore, FileHoldsLog, RecordInProgress,
            ReplayProgress, FsyncCovers

\* A rename starts a new log, whatever became of the old one.
LEMMA LogRename ==
    ASSUME TypeInv, NEW f \in Files, RenameOver(f)
    PROVE  LogCore'
<1>1. /\ pc' \in {"create", "failed", "meta"} /\ (nvm' = "ok" => pc' = "meta")
      /\ file' = f /\ synced' = Len(f) /\ log' = f
  BY DEF RenameOver, TypeInv, TypeOK
<1>2. Len(f) \in Nat
  BY DataAssumption
<1>. QED  BY <1>1, <1>2 DEF LogCore, UnguardedLog, GuardedLog, FileHoldsLog,
            RecordInProgress, ReplayProgress, FsyncCovers, Session, Setup, Replaying

\* A file that was never guarded is its own log.
LEMMA LogInit ==
    ASSUME Init
    PROVE  LogInv
<1>1. WordsInForce
  BY DEF Init, WordsInForce, Session, Setup, Replaying
<1>2. /\ pc = "closed" /\ nvm = "absent" /\ log = file /\ synced = Len(file)
      /\ Len(file) \in Nat
  BY DataAssumption DEF Init
<1>3. LogCore
  BY <1>2 DEF LogCore, UnguardedLog, GuardedLog, FileHoldsLog, RecordInProgress,
       ReplayProgress, FsyncCovers, Session, Setup, Replaying
<1>. QED  BY <1>1, <1>3 DEF LogInv

\* Every step of aofguard.c, of its thread and of the environment keeps LogInv.
LEMMA LogStep ==
    ASSUME AppendModes = {TRUE}, TypeInv, LogInv, [Next]_vars
    PROVE  LogInv'
<1>1. TypeInv' /\ WordsInForce /\ WordsInForce'
  BY TypeStep, WordsStep DEF LogInv
<1>2. SUFFICES ASSUME ~damaged' PROVE LogCore'
  BY <1>1 DEF LogInv
<1>3. CASE UNCHANGED vars
  <2>1. ~damaged /\ LogCore
    BY <1>2, <1>3 DEF vars, history, LogInv
  <2>2. UNCHANGED <<CurFsyncLen, CurStart, CurLen, FrontOfRec>>
    BY <1>3 DEF vars, diskVars, fdVars, nvmVars, bufVars, afsyncVars, appVars, history,
         CurFsyncLen, CurStart, CurLen, Loaded, FrontOfRec, RingBufEnd
  <2>3. /\ UNCHANGED <<file, synced, nvm, data, fsync_len, start, len, block_count>>
        /\ UNCHANGED <<sem_done, thread, target, pc, rec, log, damaged>>
    BY <1>3 DEF vars, diskVars, fdVars, nvmVars, bufVars, afsyncVars, appVars, history
  <2>4. GuardedLog'
    <3>1. MakeUp(file, data, CurFsyncLen, CurStart, CurLen, log)
            => MakeUp(file', data', CurFsyncLen', CurStart', CurLen', log')
      BY <2>2, <2>3
    <3>. QED  BY <2>1, <2>2, <2>3, <3>1 DEF LogCore, GuardedLog
  <2>. QED  BY <2>1, <2>2, <2>3, <2>4 DEF LogCore, UnguardedLog, FileHoldsLog,
              RecordInProgress, ReplayProgress, FsyncCovers
<1>4. CASE \E f \in Files : RenameOver(f)
  BY <1>4, LogRename
<1>5. CASE Deinit \/ Kill \/ PowerFailure
  <2>1. ~damaged
    BY <1>2, <1>5 DEF Deinit, Kill, PowerFailure, Stop, TypeInv, TypeOK
  <2>. QED  BY <1>1, <1>2, <1>5, <2>1, LogStop DEF LogInv
<1>6. CASE WriteFile \/ \E n \in 0 .. Len(rec) : WriteFileFails(n)
  <2>1. ~damaged
    BY <1>2, <1>6 DEF WriteFile, WriteFileFails, history, TypeInv, TypeOK
  <2>. QED  BY <1>1, <1>2, <1>6, <2>1, LogWriteFile DEF LogInv
<1>7. CASE Open
  <2>1. ~damaged
    BY <1>2, <1>7 DEF Open, CreateNvmFile, SizeNvmFile, ResetMeta, ResetEnd, OpenFails,
         OpenExisting, ReplayFront, ReplayBack, ReplayFails, history
  <2>. QED  BY <1>1, <1>7, <2>1, LogSetup, LogReplay DEF LogInv, Open
<1>8. CASE \/ \E r \in Records : WriteCall(r)
           \/ WriteFits \/ WriteTooBig \/ WaitAfsyncDone \/ DoFsync \/ DoFsyncFails
  <2>1. ~damaged
    BY <1>2, <1>8 DEF WriteCall, WriteFits, WriteTooBig, WaitAfsyncDone, DoFsync,
         DoFsyncFails, history
  <2>. QED  BY <1>1, <1>8, <2>1, LogMakeRoom DEF LogInv
<1>9. CASE CopyFront \/ CopyBack \/ FinishWrite
  <2>1. ~damaged
    BY <1>2, <1>9 DEF CopyFront, CopyBack, FinishWrite, history
  <2>. QED  BY <1>1, <1>9, <2>1, LogCopy, LogFinish DEF LogInv
<1>10. CASE AfsyncStep
  <2>1. ~damaged
    BY <1>2, <1>10 DEF AfsyncStep, AfsyncBegin, AfsyncDone, AfsyncFails, history
  <2>. QED  BY <1>1, <1>10, <2>1, LogAfsync DEF LogInv
<1>. QED  BY <1>3, <1>4, <1>5, <1>6, <1>7, <1>8, <1>9, <1>10 DEF Next, WriterStep

\* The invariant describes StoredLog byte by byte; so the two are equal.
LEMMA LogIsStored ==
    ASSUME TypeInv, LogInv
    PROVE  Recoverable /\ FsyncLenIsDurable /\ FileHoldsLog
<1>1. SUFFICES ASSUME ~damaged PROVE Recoverable /\ FsyncLenIsDurable /\ FileHoldsLog
  BY DEF Recoverable, FsyncLenIsDurable, FileHoldsLog
<1>2. LogCore /\ WordsInForce
  BY <1>1 DEF LogInv
<1>3. /\ file \in Seq(Cell) /\ log \in Seq(Byte) /\ log \in Seq(Cell)
      /\ synced \in Nat /\ Len(file) \in Nat
      /\ CurFsyncLen \in Nat /\ CurStart \in Pos /\ CurLen \in 0 .. Capacity
  <2>1. /\ file \in Seq(Cell) /\ log \in Seq(Byte) /\ synced \in Nat /\ Len(file) \in Nat
        /\ meta.fsync_len \in Nat /\ fsync_len \in Nat /\ start \in Pos
        /\ len \in 0 .. Capacity /\ GetBufStart(meta) \in Pos /\ buf_end \in Pos
    BY LoadType DEF TypeInv, TypeOK
  <2>2. LenBetween(GetBufStart(meta), buf_end) \in 0 .. Capacity
    BY <2>1, LenBetweenEnd, CapacityType
  <2>3. log \in Seq(Cell)
    BY <2>1 DEF Cell
  <2>. QED  BY <2>1, <2>2, <2>3 DEF CurFsyncLen, CurStart, CurLen
<1>4. FsyncLenIsDurable
  <2>1. nvm = "ok" /\ pc \notin Setup => CurFsyncLen <= synced
    BY <1>2 DEF LogCore, GuardedLog
  <2>2. CurFsyncLen = meta.fsync_len
    BY <1>2 DEF WordsInForce, CurFsyncLen, Loaded
  <2>. QED  BY <2>1, <2>2 DEF FsyncLenIsDurable
<1>5. StoredLog = log
  <2>1. CASE nvm # "ok" \/ pc \in Setup
    BY <1>2, <2>1 DEF LogCore, UnguardedLog, StoredLog
  <2>2. CASE nvm = "ok" /\ pc \notin Setup
    <3>. DEFINE p == SubSeq(file, 1, CurFsyncLen)
                r == RingBytes(CurStart, CurLen)
    <3>1. /\ CurFsyncLen <= synced /\ synced <= Len(file)
          /\ MakeUp(file, data, CurFsyncLen, CurStart, CurLen, log)
      BY <1>2, <2>2 DEF LogCore, GuardedLog
    <3>2. StoredLog = p \o r
      BY <1>3, <2>2, <3>1 DEF StoredLog
    <3>3. /\ p \in Seq(Cell) /\ Len(p) = CurFsyncLen
          /\ \A i \in 1 .. CurFsyncLen : p[i] = file[i]
      BY <1>3, <3>1
    <3>4. /\ r \in Seq(Cell) /\ Len(r) = CurLen
          /\ \A i \in 1 .. CurLen : r[i] = data[RingForward(CurStart, i - 1)]
      BY <1>3, RingBytesType DEF TypeInv, TypeOK
    <3>. HIDE DEF p, r
    <3>5. /\ p \o r \in Seq(Cell) /\ Len(p \o r) = CurFsyncLen + CurLen
          /\ \A i \in 1 .. CurFsyncLen : (p \o r)[i] = p[i]
          /\ \A i \in 1 .. CurLen : (p \o r)[CurFsyncLen + i] = r[i]
      <4>0. p \in Seq(Cell) /\ r \in Seq(Cell)
        BY <3>3, <3>4
      <4>1. p \o r \in Seq(Cell) /\ Len(p \o r) = Len(p) + Len(r)
        BY ONLY <4>0
      <4>2. \A i \in 1 .. Len(p) : (p \o r)[i] = p[i]
        BY <3>3, <3>4
      <4>3. ASSUME NEW i \in 1 .. Len(r) PROVE (p \o r)[Len(p) + i] = r[i]
        <5>1. /\ Len(p) + i \in 1 .. Len(p) + Len(r) /\ Len(p) + i > Len(p)
              /\ (Len(p) + i) - Len(p) = i
          BY <3>3, <3>4
        <5>. QED  BY <3>3, <3>4, <5>1
      <4>. QED  BY <3>3, <3>4, <4>1, <4>2, <4>3
    <3>6. CurLen \in Nat
      BY <1>3, CapacityType
    <3>. DEFINE w == p \o r
    <3>7. /\ w \in Seq(Cell) /\ Len(w) = Len(log)
          /\ \A i \in 1 .. CurFsyncLen : w[i] = log[i]
          /\ \A i \in 1 .. CurLen : w[CurFsyncLen + i] = log[CurFsyncLen + i]
      BY <3>1, <3>3, <3>4, <3>5 DEF MakeUp
    <3>8. Len(log) = CurFsyncLen + CurLen
      BY <3>1 DEF MakeUp
    <3>. HIDE DEF w
    <3>9. ASSUME NEW i \in 1 .. Len(log) PROVE w[i] = log[i]
      <4>1. CASE i <= CurFsyncLen
        BY <1>3, <3>6, <3>7, <3>8, <4>1
      <4>2. CASE i > CurFsyncLen
        <5>1. i - CurFsyncLen \in 1 .. CurLen /\ CurFsyncLen + (i - CurFsyncLen) = i
          BY <1>3, <3>6, <3>8, <4>2
        <5>. QED  BY <3>7, <5>1
      <4>. QED  BY <1>3, <4>1, <4>2
    <3>10. w = log
      BY <1>3, <3>7, <3>9
    <3>. QED  BY <3>2, <3>10 DEF w
  <2>. QED  BY <2>1, <2>2
<1>. QED  BY <1>2, <1>4, <1>5 DEF Recoverable, LogCore

\* The central claim about aofguard.c, for every block size, ring size, record
\* and file: if the guarded file is opened with O_APPEND, then outside the loss
\* windows the fsynced prefix of the file and the ring hold exactly the bytes of
\* the completed writes, the stored length never runs ahead of the disk, and
\* after open() the file starts with those bytes - across any number of kills,
\* power failures, failed fsyncs, short writes and interrupted replays.
THEOREM LogRecoverable ==
    ASSUME AppendModes = {TRUE}
    PROVE  Spec => [](Recoverable /\ FsyncLenIsDurable /\ FileHoldsLog)
<1>1. Init => TypeInv /\ LogInv
  BY TypeInit, LogInit
<1>2. TypeInv /\ LogInv /\ [Next]_vars => TypeInv' /\ LogInv'
  BY TypeStep, LogStep
<1>3. TypeInv /\ LogInv => Recoverable /\ FsyncLenIsDurable /\ FileHoldsLog
  BY LogIsStored
<1>. QED  BY <1>1, <1>2, <1>3, PTL DEF Spec

\* The stored length is durable: aofguard_init never calls the file broken
\* after a power failure, and cuts it back to bytes that were fsynced.
THEOREM StoredLengthDurable ==
    ASSUME AppendModes = {TRUE}
    PROVE  Spec => []FsyncLenIsDurable
BY LogRecoverable, PTL

\* What read() sees of an open guarded file starts with the whole log.
THEOREM OpenFileHoldsLog ==
    ASSUME AppendModes = {TRUE}
    PROVE  Spec => []FileHoldsLog
BY LogRecoverable, PTL

\* The handshake of aofguard_write with its thread never loses or doubles a
\* request, and the first assert of update_after_fsync never fails.
THEOREM RequestInOnePlace == Spec => []AfsyncHandshake
BY TypeCorrect, PTL

\* The assert of aofguard_write never fails: the record fits in the ring.
THEOREM RecordFits == Spec => []RoomForRecord
BY TypeCorrect, PTL

-----------------------------------------------------------------------------
(* AofGuard implements DurableLog.                                         *)

\* Who changes the log: FinishWrite adds its record, RenameOver replaces it;
\* and only RenameOver makes a damaged log whole again.
LEMMA LogChanges ==
    ASSUME TypeInv, [Next]_vars
    PROVE  \/ damaged'
           \/ ~damaged /\ log' = log /\ Writing' = Writing /\ Place' = Place
           \/ ~damaged /\ log' = log /\ Writing' = {}
           \/ /\ ~damaged /\ log' = log /\ Place = "open" /\ Place' = "open"
              /\ Writing = {} /\ \E r \in Records : Writing' = {r}
           \/ /\ ~damaged /\ Writing' = {} /\ Place' = Place
              /\ \E r \in Writing : log' = log \o r
           \/ /\ Place = "closed" /\ Place' = "opening" /\ Writing' = {}
              /\ \E f \in Files : log' = f
<1>. USE DEF history
<1>1. CASE UNCHANGED vars
  BY <1>1 DEF vars, appVars, Writing, Place, TypeInv, TypeOK
<1>2. CASE Open
  <2>1. log' = log /\ damaged' = damaged
    BY <1>2 DEF Open, CreateNvmFile, SizeNvmFile, ResetMeta, ResetEnd, OpenFails,
         OpenExisting, ReplayFront, ReplayBack, ReplayFails
  <2>2. pc' \in {"create", "meta", "end", "idle", "failed", "replay", "replay2"}
    BY <1>2 DEF Open, CreateNvmFile, SizeNvmFile, ResetMeta, ResetEnd, OpenFails,
         OpenExisting, ReplayFront, ReplayBack, ReplayFails, StartAfsync
  <2>3. Writing' = {}
    BY <2>2 DEF Writing, Session
  <2>. QED  BY <2>1, <2>3 DEF TypeInv, TypeOK
<1>3. CASE \E f \in Files : RenameOver(f)
  <2>1. PICK f \in Files : RenameOver(f)
    BY <1>3
  <2>2. log' = f /\ pc = "closed" /\ pc' \in {"create", "failed", "meta"}
    BY <2>1 DEF RenameOver, TypeInv, TypeOK
  <2>. QED  BY <2>2 DEF Writing, Place, Session, Setup
<1>4. CASE \E r \in Records : WriteCall(r)
  <2>1. PICK r \in Records : WriteCall(r)
    BY <1>4
  <2>2. log' = log /\ damaged' = damaged /\ pc = "idle" /\ pc' = "check" /\ rec' = r
    BY <2>1 DEF WriteCall
  <2>. QED  BY <2>2 DEF Writing, Place, Session, Setup, TypeInv, TypeOK
<1>5. CASE FinishWrite
  <2>1. log' = log \o rec /\ damaged' = damaged /\ pc = "finish" /\ pc' = "idle"
    BY <1>5 DEF FinishWrite, Return
  <2>. QED  BY <2>1 DEF Writing, Place, Session, Setup, TypeInv, TypeOK
<1>6. CASE WriterStep /\ ~FinishWrite
  <2>1. log' = log /\ (damaged => damaged')
    <3>1. CASE WriteFile
      <4>1. log' = log /\ damaged' = (damaged \/ Misaligned)
        BY <3>1 DEF WriteFile
      <4>. QED  BY <4>1
    <3>2. CASE ~WriteFile
      <4>1. log' = log /\ damaged' = damaged
        BY <1>6, <3>2 DEF WriterStep, WriteFits, WriteTooBig, WaitAfsyncDone, DoFsync,
             DoFsyncFails, WriteFileFails, CopyFront, CopyBack
      <4>. QED  BY <4>1
    <3>. QED  BY <3>1, <3>2
  <2>2. CASE WriteTooBig \/ DoFsyncFails \/ \E n \in 0 .. Len(rec) : WriteFileFails(n)
    <3>1. Writing' = {}
      BY <2>2 DEF WriteTooBig, DoFsyncFails, WriteFileFails, Return, Writing
    <3>. QED  BY <2>1, <3>1 DEF TypeInv, TypeOK
  <2>3. CASE WriteFits \/ WaitAfsyncDone \/ DoFsync \/ WriteFile \/ CopyFront \/ CopyBack
    <3>1. /\ rec' = rec /\ pc \in Session \ {"idle"} /\ pc' \in Session \ {"idle"}
      BY <2>3 DEF WriteFits, WaitAfsyncDone, DoFsync, WriteFile, CopyFront, CopyBack, Session
    <3>2. Writing' = Writing
      BY <3>1 DEF Writing
    <3>3. Place' = Place
      BY <3>1 DEF Place, Session, Setup
    <3>. QED  BY <2>1, <3>2, <3>3 DEF TypeInv, TypeOK
  <2>. QED  BY <1>6, <2>2, <2>3 DEF WriterStep
<1>7. CASE AfsyncStep
  <2>1. UNCHANGED <<appVars, history>>
    BY <1>7 DEF AfsyncStep, AfsyncBegin, AfsyncDone, AfsyncFails
  <2>. QED  BY <2>1 DEF appVars, Writing, Place, TypeInv, TypeOK
<1>8. CASE Deinit \/ Kill \/ PowerFailure
  <2>1. log' = log /\ (damaged => damaged') /\ pc' = "closed"
    BY <1>8 DEF Deinit, Kill, PowerFailure, Stop
  <2>. QED  BY <2>1 DEF Writing, Session, TypeInv, TypeOK
<1>. QED  BY <1>1, <1>2, <1>3, <1>4, <1>5, <1>6, <1>7, <1>8 DEF Next

\* The accelerator is a durable log, for every ring geometry, record and file:
\* what the disk and the nvm file hold between them changes once in a write(),
\* by its record, and by a rename of a closed file - by no fsync, reuse of
\* blocks, replay, close, kill or power failure.
THEOREM IsDurableLog ==
    ASSUME AppendModes = {TRUE}
    PROVE  Spec => ImplementsDurableLog
<1>. DEFINE Inv == TypeInv /\ LogInv
<1>1. Init => Inv
  BY TypeInit, LogInit
<1>2. Inv /\ [Next]_vars => Inv'
  BY TypeStep, LogStep
<1>3. Init => Promise!Init
  <2>. SUFFICES ASSUME Init PROVE Promise!Init
    OBVIOUS
  <2>1. ~damaged /\ StoredLog = log
    BY TypeInit, LogInit, LogIsStored DEF Init, Recoverable
  <2>2. Writing = {} /\ Place = "closed"
    BY DEF Init, Writing, Place, Session
  <2>. QED  BY <2>1, <2>2 DEF Promise!Init, Init
<1>4. Inv => Recoverable
  BY LogIsStored
<1>5. (Inv => Recoverable)'
  BY <1>4, PTL
<1>6. Inv /\ Inv' /\ [Next]_vars => [Promise!Next]_(Promise!vars)
  <2>. SUFFICES ASSUME Inv, Inv', [Next]_vars PROVE [Promise!Next]_(Promise!vars)
    OBVIOUS
  <2>1. ~damaged => StoredLog = log
    BY LogIsStored DEF Recoverable
  <2>2. ~damaged' => StoredLog' = log'
    BY <1>5 DEF Recoverable
  <2>3. damaged \in BOOLEAN /\ damaged' \in BOOLEAN
    BY DEF TypeInv, TypeOK
  <2>4. CASE damaged'
    BY <2>3, <2>4 DEF Promise!Next, Promise!Damage
  <2>5. CASE ~damaged' /\ ~damaged /\ log' = log /\ Writing' = Writing /\ Place' = Place
    BY <2>1, <2>2, <2>3, <2>5 DEF Promise!vars
  <2>6. CASE ~damaged' /\ ~damaged /\ log' = log /\ Writing' = {}
    <3>1. Place' \in {"closed", "opening", "open"}
      BY DEF Place
    <3>. QED  BY <2>1, <2>2, <2>3, <2>6, <3>1 DEF Promise!Next, Promise!Move, Promise!Places
  <2>7. CASE /\ ~damaged' /\ ~damaged /\ log' = log /\ Place = "open" /\ Place' = "open"
             /\ Writing = {} /\ \E r \in Records : Writing' = {r}
    BY <2>1, <2>2, <2>3, <2>7 DEF Promise!Next, Promise!Begin
  <2>8. CASE /\ ~damaged' /\ ~damaged /\ Writing' = {} /\ Place' = Place
             /\ \E r \in Writing : log' = log \o r
    BY <2>1, <2>2, <2>3, <2>8 DEF Promise!Next, Promise!AppendRecord
  <2>9. CASE /\ ~damaged' /\ Place = "closed" /\ Place' = "opening" /\ Writing' = {}
             /\ \E f \in Files : log' = f
    BY <2>2, <2>3, <2>9 DEF Promise!Next, Promise!Replace
  <2>. QED  BY <2>4, <2>5, <2>6, <2>7, <2>8, <2>9, LogChanges
<1>. QED  BY <1>1, <1>2, <1>3, <1>6, PTL DEF Spec, ImplementsDurableLog, Promise!Spec
=============================================================================
