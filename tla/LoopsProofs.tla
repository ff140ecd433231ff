---------------------------- MODULE LoopsProofs -----------------------------
(***************************************************************************)
(* Proofs about FlushRange, DsaMove and RandNamespace, for any size of a   *)
(* line, a block or a page and any length of the range, the copy or the    *)
(* mapping; and about Crc, for any checksum and any buffer.                *)
(***************************************************************************)
EXTENDS Crc, FlushRange, DsaMove, RandNamespace, FiniteSetTheorems, SequenceTheorems,
        WellFoundedInduction, TLAPS

LEMMA MulOrder ==
    ASSUME NEW s \in Nat, NEW m \in Int, NEW n \in Int, m < n
    PROVE  m * s \in Int /\ n * s \in Int /\ m * s + s <= n * s
<1>1. (n - m - 1) * s >= 0
  OBVIOUS
<1>. QED  BY <1>1

LEMMA LineParts ==
    ASSUME NEW a \in Nat
    PROVE  \E k \in Nat : LineOf(a) = k * LineSize /\ k * LineSize <= a /\ a < k * LineSize + LineSize
<1>1. LineSize \in Nat /\ LineSize > 0
  BY FlushAssumption
<1>2. a \div LineSize \in Nat /\ a % LineSize \in 0 .. LineSize - 1
  BY <1>1
<1>3. a = LineSize * (a \div LineSize) + (a % LineSize)
  BY <1>1
<1>. QED  BY <1>1, <1>2, <1>3 DEF LineOf

\* A multiple of the line size begins a line.
LEMMA LineOfMultiple ==
    ASSUME NEW k \in Nat
    PROVE  LineOf(k * LineSize) = k * LineSize
<1>1. LineSize \in Nat /\ LineSize > 0 /\ k * LineSize \in Nat
  BY FlushAssumption
<1>2. PICK j \in Nat : /\ LineOf(k * LineSize) = j * LineSize /\ j * LineSize <= k * LineSize
                       /\ k * LineSize < j * LineSize + LineSize
  BY <1>1, LineParts
<1>3. ~(j < k)
  BY <1>1, <1>2, MulOrder
<1>4. ~(k < j)
  BY <1>1, <1>2, MulOrder
<1>5. j = k
  BY <1>3, <1>4
<1>. QED  BY <1>2, <1>5

\* The lines of a range are multiples of the line size, in order.
LEMMA LineAtKnown ==
    ASSUME faddr \in Nat
    PROVE  \E q \in Nat :
              /\ LineOf(faddr) = q * LineSize /\ q * LineSize \in Nat
              /\ q * LineSize <= faddr /\ faddr < q * LineSize + LineSize
              /\ \A i \in Nat \ {0} : /\ LineAt(i) = (q + i - 1) * LineSize /\ LineAt(i) \in Nat
                                      /\ LineOf(LineAt(i)) = LineAt(i)
                                      /\ LineAt(i + 1) = LineAt(i) + LineSize
<1>1. LineSize \in Nat /\ LineSize > 0
  BY FlushAssumption
<1>2. PICK q \in Nat : /\ LineOf(faddr) = q * LineSize
                       /\ q * LineSize <= faddr /\ faddr < q * LineSize + LineSize
  BY LineParts
<1>3. ASSUME NEW i \in Nat \ {0}
      PROVE  /\ LineAt(i) = (q + i - 1) * LineSize /\ LineAt(i) \in Nat
             /\ LineOf(LineAt(i)) = LineAt(i)
             /\ LineAt(i + 1) = LineAt(i) + LineSize
  <2>1. q + i - 1 \in Nat /\ q + i - 1 = q + (i - 1)
    OBVIOUS
  <2>2. (q + i - 1) * LineSize = q * LineSize + (i - 1) * LineSize
    BY <1>1, <2>1
  <2>3. LineAt(i) = (q + i - 1) * LineSize /\ LineAt(i) \in Nat
    BY <1>1, <1>2, <2>1, <2>2 DEF LineAt
  <2>4. LineOf(LineAt(i)) = LineAt(i)
    BY <2>1, <2>3, LineOfMultiple
  <2>5. LineAt(i + 1) = LineAt(i) + LineSize
    BY <1>1, <1>2 DEF LineAt
  <2>. QED  BY <2>3, <2>4, <2>5
<1>4. q * LineSize \in Nat
  BY <1>1
<1>. QED  BY <1>2, <1>3, <1>4

\* Addresses in a line have its beginning in common.
LEMMA LineOfShifted ==
    ASSUME NEW k \in Nat, NEW d \in 0 .. LineSize - 1
    PROVE  LineOf(k * LineSize + d) = k * LineSize
<1>1. LineSize \in Nat /\ LineSize > 0 /\ k * LineSize \in Nat /\ d \in Nat /\ d < LineSize
  BY FlushAssumption
<1>2. PICK j \in Nat : /\ LineOf(k * LineSize + d) = j * LineSize /\ j * LineSize <= k * LineSize + d
                       /\ k * LineSize + d < j * LineSize + LineSize
  BY <1>1, LineParts
<1>3. ~(j < k)
  BY <1>1, <1>2, MulOrder
<1>4. ~(k < j)
  BY <1>1, <1>2, MulOrder
<1>5. j = k
  BY <1>3, <1>4
<1>. QED  BY <1>2, <1>5

LEMMA ShiftKnown ==
    ASSUME faddr \in Nat
    PROVE  /\ Shift \in 0 .. LineSize - 1 /\ Shift \in Nat /\ Shift < LineSize
           /\ LineOf(faddr) + Shift <= faddr /\ LineOf(faddr) \in Nat
           /\ routine = "processor_cache" => LineOf(faddr) + Shift = faddr
<1>1. LineSize \in Nat /\ LineSize > 0
  BY FlushAssumption
<1>2. faddr % LineSize \in 0 .. LineSize - 1
  BY <1>1
<1>3. LineOf(faddr) + (faddr % LineSize) = faddr
  BY <1>1, <1>2 DEF LineOf
<1>4. LineOf(faddr) \in Nat
  BY <1>1, LineParts
<1>5. CASE routine = "processor_cache"
  <2>1. Shift = faddr % LineSize
    BY <1>5 DEF Shift
  <2>. QED  BY <1>1, <1>2, <1>3, <1>4, <2>1
<1>6. CASE routine # "processor_cache"
  <2>1. Shift = 0
    BY <1>6 DEF Shift
  <2>2. LineOf(faddr) <= faddr
    BY <1>2, <1>3, <1>4
  <2>. QED  BY <1>1, <1>4, <1>6, <2>1, <2>2
<1>. QED  BY <1>5, <1>6

LEMMA FlushCallStep ==
    ASSUME FlushInv, NEW r \in FlushRoutine, NEW a \in LineSize .. MaxAddr, NEW n \in 1 .. MaxLen,
           FlushCall(r, a, n)
    PROVE  FlushInv'
<1>1. LineSize \in Nat /\ LineSize > 0 /\ a \in Nat /\ n \in Nat \ {0}
  BY FlushAssumption
<1>2. /\ fpc' = "loop" /\ routine' = r /\ faddr' = a /\ flen' = n /\ flushed' = <<>>
      /\ uptr' = IF r = "processor_cache" THEN a ELSE LineOf(a)
  BY DEF FlushCall, FlushInv
<1>3. Len(<<>>) = 0 /\ <<>> \in Seq(Int) /\ 1 .. 0 = {}
  OBVIOUS
<1>4. LineOf(a) \in Int /\ a % LineSize \in Int /\ a = LineOf(a) + (a % LineSize)
  BY <1>1 DEF LineOf
<1>5. LineAt(1)' = LineOf(a)
  BY <1>1, <1>2, <1>4 DEF LineAt, LineOf
<1>6. uptr' = LineAt(1)' + Shift'
  <2>1. CASE r = "processor_cache"
    <3>1. Shift' = a % LineSize /\ uptr' = a
      BY <1>2, <2>1 DEF Shift
    <3>. QED  BY <1>4, <1>5, <3>1
  <2>2. CASE r # "processor_cache"
    <3>1. Shift' = 0 /\ uptr' = LineOf(a)
      BY <1>2, <2>2 DEF Shift
    <3>. QED  BY <1>4, <1>5, <3>1
  <2>. QED  BY <2>1, <2>2
<1>7. /\ flushed' \in Seq(Int) /\ Len(flushed') = 0 /\ 1 .. Len(flushed') = {} /\ Len(flushed') + 1 = 1
  BY <1>2, <1>3
<1>8. (uptr = LineAt(Len(flushed) + 1) + Shift)'
  BY <1>6, <1>7
<1>. QED  BY <1>1, <1>2, <1>7, <1>8 DEF FlushInv

LEMMA FlushLoopStep ==
    ASSUME FlushInv, FlushLoop
    PROVE  FlushInv'
<1>. DEFINE n == Len(flushed)
<1>1. /\ fpc = "loop" /\ uptr < LoopBound
      /\ flushed' = Append(flushed, LineOf(uptr)) /\ uptr' = uptr + LineSize
      /\ UNCHANGED <<fpc, routine, faddr, flen>>
  BY DEF FlushLoop
<1>2. /\ routine \in FlushRoutine /\ LineSize \in Nat /\ LineSize > 0
      /\ faddr \in Nat /\ flen \in Nat \ {0} /\ flushed \in Seq(Int) /\ uptr = LineAt(n + 1) + Shift
      /\ \A i \in 1 .. n : flushed[i] = LineAt(i)
  BY <1>1, FlushAssumption DEF FlushInv
<1>3. n \in Nat
  BY <1>2
<1>. HIDE DEF n
<1>4. PICK q \in Nat :
         \A i \in Nat \ {0} : /\ LineAt(i) = (q + i - 1) * LineSize /\ LineAt(i) \in Nat
                              /\ LineAt(i + 1) = LineAt(i) + LineSize
  BY <1>2, LineAtKnown
<1>5. LineOf(uptr) = LineAt(n + 1) /\ uptr \in Nat /\ uptr' = LineAt(n + 2) + Shift
  <2>1. n + 1 \in Nat \ {0} /\ n + 1 + 1 = n + 2 /\ q + (n + 1) - 1 = q + n /\ q + n \in Nat
    BY <1>3
  <2>2. Shift \in 0 .. LineSize - 1 /\ Shift \in Nat
    BY <1>2, ShiftKnown
  <2>3. LineAt(n + 1) = (q + n) * LineSize /\ LineAt(n + 1) \in Nat /\ LineAt(n + 2) = LineAt(n + 1) + LineSize
    BY <1>4, <2>1
  <2>4. LineOf((q + n) * LineSize + Shift) = (q + n) * LineSize
    BY <2>1, <2>2, LineOfShifted
  <2>. QED  BY <1>1, <1>2, <2>2, <2>3, <2>4
<1>6. /\ flushed' \in Seq(Int) /\ Len(flushed') = n + 1
      /\ \A i \in 1 .. n : flushed'[i] = flushed[i]
      /\ flushed'[n + 1] = LineAt(n + 1)
  <2>1. LineAt(n + 1) \in Int
    BY <1>3, <1>4
  <2>. QED  BY <1>1, <1>2, <1>5, <2>1, AppendProperties DEF n
<1>7. \A i \in 1 .. n + 1 : flushed'[i] = LineAt(i)
  <2>1. \A i \in 1 .. n + 1 : i \in 1 .. n \/ i = n + 1
    BY <1>3
  <2>. QED  BY <1>2, <1>6, <2>1, Zenon
<1>8. (\A i : LineAt(i)' = LineAt(i)) /\ Shift' = Shift
  BY <1>1 DEF LineAt, LineOf, Shift
<1>9. LoopBound' = LoopBound /\ uptr' - LineSize = uptr
  BY <1>1, <1>2, <1>5 DEF LoopBound
<1>10. (uptr = LineAt(Len(flushed) + 1) + Shift)'
  <2>1. n + 1 + 1 = n + 2
    BY <1>3
  <2>2. LineAt(Len(flushed) + 1)' = LineAt(n + 2)
    BY <1>1, <1>6, <2>1 DEF LineAt
  <2>. QED  BY <1>5, <1>8, <2>2
<1>11. (\A i \in 1 .. Len(flushed) : flushed[i] = LineAt(i))'
  BY <1>6, <1>7, <1>8
<1>12. (routine \in FlushRoutine /\ faddr \in Nat /\ flen \in Nat \ {0} /\ flushed \in Seq(Int))'
  BY <1>1, <1>2, <1>6
<1>13. (Len(flushed) > 0 => uptr - LineSize < LoopBound)'
  BY <1>1, <1>9
<1>. QED  BY <1>1, <1>10, <1>11, <1>12, <1>13 DEF FlushInv

LEMMA FlushEndStep ==
    ASSUME FlushInv, FlushEnd
    PROVE  FlushInv'
<1>. DEFINE n == Len(flushed)
<1>1. /\ fpc = "loop" /\ uptr >= LoopBound /\ fpc' = "done"
      /\ flushed' = IF routine = "cflush" THEN Append(flushed, LineOf(uptr)) ELSE flushed
      /\ UNCHANGED <<uptr, routine, faddr, flen>>
  BY DEF FlushEnd
<1>2. /\ routine \in FlushRoutine /\ LineSize \in Nat /\ LineSize > 0
      /\ faddr \in Nat /\ flen \in Nat \ {0} /\ flushed \in Seq(Int) /\ uptr = LineAt(n + 1) + Shift
      /\ \A i \in 1 .. n : flushed[i] = LineAt(i)
      /\ n > 0 => uptr - LineSize < LoopBound
  BY <1>1, FlushAssumption DEF FlushInv
<1>3. n \in Nat
  BY <1>2
<1>. HIDE DEF n
<1>4. PICK q \in Nat :
         /\ LineOf(faddr) = q * LineSize /\ q * LineSize \in Nat
         /\ q * LineSize <= faddr /\ faddr < q * LineSize + LineSize
         /\ \A i \in Nat \ {0} : /\ LineAt(i) = (q + i - 1) * LineSize /\ LineAt(i) \in Nat
                                 /\ LineOf(LineAt(i)) = LineAt(i)
                                 /\ LineAt(i + 1) = LineAt(i) + LineSize
  BY <1>2, LineAtKnown
<1>5. n + 1 \in Nat \ {0} /\ n + 1 + 1 = n + 2 /\ (n = 0 => q + (n + 1) - 1 = q)
  BY <1>3
<1>6. /\ Shift \in Nat /\ Shift < LineSize /\ LineOf(faddr) + Shift <= faddr
      /\ uptr \in Nat /\ LineAt(n + 1) \in Nat /\ LineAt(n + 2) = LineAt(n + 1) + LineSize
  <2>1. Shift \in Nat /\ Shift < LineSize /\ LineOf(faddr) + Shift <= faddr
    BY <1>2, ShiftKnown
  <2>2. LineAt(n + 1) \in Nat /\ LineAt(n + 2) = LineAt(n + 1) + LineSize
    BY <1>4, <1>5
  <2>. QED  BY <1>2, <2>1, <2>2
<1>7. n = 0 => uptr <= faddr
  <2>1. n = 0 => LineAt(n + 1) = q * LineSize
    BY <1>4, <1>5
  <2>. QED  BY <1>2, <1>4, <1>6, <2>1
<1>8. (\A i : LineAt(i)' = LineAt(i)) /\ Shift' = Shift
  BY <1>1 DEF LineAt, LineOf, Shift
<1>9. CASE routine = "cflush"
  <2>1. LoopBound = faddr + flen - LineSize /\ Shift = 0
    BY <1>9 DEF LoopBound, Shift
  <2>9. LineOf(uptr) = uptr /\ uptr = LineAt(n + 1)
    BY <1>2, <1>4, <1>5, <1>6, <2>1
  <2>2. /\ flushed' \in Seq(Int) /\ Len(flushed') = n + 1
        /\ \A i \in 1 .. n : flushed'[i] = flushed[i]
        /\ flushed'[n + 1] = uptr
    BY <1>1, <1>2, <1>6, <1>9, <2>9, AppendProperties DEF n
  <2>3. uptr < faddr + flen /\ faddr + flen <= uptr + LineSize
    BY <1>1, <1>2, <1>3, <1>6, <1>7, <2>1
  <2>4. (\A i \in 1 .. Len(flushed) : flushed[i] = LineAt(i))'
    <3>1. \A i \in 1 .. n + 1 : flushed'[i] = LineAt(i)
      <4>1. \A i \in 1 .. n + 1 : i \in 1 .. n \/ i = n + 1
        BY <1>3
      <4>. QED  BY <1>2, <2>2, <2>9, <4>1, Zenon
    <3>. QED  BY <1>8, <2>2, <3>1
  <2>5. LineAt(Len(flushed))' = uptr
    BY <1>1, <2>2, <2>9 DEF LineAt
  <2>6. LineAt(Len(flushed) + 1)' = uptr + LineSize
    <3>1. LineAt(Len(flushed) + 1)' = LineAt(n + 2)
      BY <1>1, <1>5, <2>2 DEF LineAt
    <3>. QED  BY <1>6, <2>9, <3>1
  <2>7. (LineAt(Len(flushed)) < faddr + flen /\ faddr + flen <= LineAt(Len(flushed) + 1) + Shift)'
    <3>1. Shift' = 0 /\ faddr' = faddr /\ flen' = flen
      BY <1>1, <1>8, <2>1
    <3>2. uptr + LineSize + 0 = uptr + LineSize
      BY <1>2, <1>6
    <3>. QED  BY <2>3, <2>5, <2>6, <3>1, <3>2
  <2>. QED  BY <1>1, <1>2, <2>2, <2>4, <2>7 DEF FlushInv
<1>10. CASE routine # "cflush"
  <2>1. LoopBound = faddr + flen
    BY <1>2, <1>10 DEF LoopBound
  <2>2. n > 0
    BY <1>1, <1>2, <1>3, <1>6, <1>7, <2>1
  <2>3. n \in Nat \ {0} /\ uptr = LineAt(n) + LineSize + Shift /\ LineAt(n) \in Nat
    <3>1. n \in Nat \ {0}
      BY <1>3, <2>2
    <3>. QED  BY <1>2, <1>4, <3>1
  <2>4. LineAt(n) < faddr + flen /\ faddr + flen <= uptr
    BY <1>1, <1>2, <1>6, <2>1, <2>2, <2>3
  <2>5. flushed' = flushed
    BY <1>1, <1>10
  <2>6. LineAt(Len(flushed))' = LineAt(n) /\ LineAt(Len(flushed) + 1)' = LineAt(n + 1)
    BY <1>1, <2>5 DEF LineAt, n
  <2>7. (\A i \in 1 .. Len(flushed) : flushed[i] = LineAt(i))'
    BY <1>2, <1>8, <2>5 DEF n
  <2>8. (LineAt(Len(flushed)) < faddr + flen /\ faddr + flen <= LineAt(Len(flushed) + 1) + Shift)'
    BY <1>1, <1>2, <1>8, <2>4, <2>6
  <2>. QED  BY <1>1, <1>2, <2>5, <2>7, <2>8 DEF FlushInv
<1>. QED  BY <1>9, <1>10

\* The invariant that FlushedExactly rests on.
THEOREM FlushInvariant == FlushSpec => []FlushInv
<1>1. FlushInit => FlushInv
  BY DEF FlushInit, FlushInv
<1>2. FlushInv /\ [FlushNext]_flushVars => FlushInv'
  <2>1. ASSUME FlushInv, FlushNext PROVE FlushInv'
    BY <2>1, FlushCallStep, FlushLoopStep, FlushEndStep DEF FlushNext
  <2>2. ASSUME FlushInv, UNCHANGED flushVars PROVE FlushInv'
    <3>1. UNCHANGED <<fpc, routine, faddr, flen, uptr, flushed>>
      BY <2>2 DEF flushVars
    <3>. QED  BY <2>2, <3>1 DEF FlushInv, LineAt, LoopBound, Shift
  <2>. QED  BY <2>1, <2>2
<1>. QED  BY <1>1, <1>2, PTL DEF FlushSpec

\* For any line size, address and length __cflush and __cflushopt drop exactly
\* the lines the range touches, each of them once; __flush_processor_cache drops
\* no other line either, and misses at most the last one, and that only if the
\* range does not begin with a line.
THEOREM RangeFlushed == FlushSpec => []FlushedExactly
<1>1. ASSUME FlushInv, fpc = "done"
      PROVE  /\ \A i, j \in DOMAIN flushed : flushed[i] = flushed[j] => i = j
             /\ Dropped \subseteq Touched
             /\ Touched \ Dropped \subseteq {LastLine}
             /\ routine # "processor_cache" \/ faddr % LineSize = 0 => Dropped = Touched
  <2>. DEFINE n == Len(flushed)
  <2>1. /\ faddr \in Nat /\ flen \in Nat \ {0} /\ flushed \in Seq(Int)
        /\ \A i \in 1 .. n : flushed[i] = LineAt(i)
        /\ LineAt(n) < faddr + flen /\ faddr + flen <= LineAt(n + 1) + Shift
        /\ LineSize \in Nat /\ LineSize > 0
    BY <1>1, FlushAssumption DEF FlushInv
  <2>2. DOMAIN flushed = 1 .. n /\ n \in Nat
    BY <2>1
  <2>. HIDE DEF n
  <2>3. PICK q \in Nat :
           /\ LineOf(faddr) = q * LineSize /\ q * LineSize \in Nat
           /\ q * LineSize <= faddr /\ faddr < q * LineSize + LineSize
           /\ \A i \in Nat \ {0} : /\ LineAt(i) = (q + i - 1) * LineSize /\ LineAt(i) \in Nat
                                   /\ LineOf(LineAt(i)) = LineAt(i)
                                   /\ LineAt(i + 1) = LineAt(i) + LineSize
    BY <2>1, LineAtKnown
  <2>9. q * LineSize \in Nat /\ q * LineSize <= faddr /\ faddr < q * LineSize + LineSize
    BY <2>3
  \* Lines behind each other are in order.
  <2>4. ASSUME NEW i \in Nat \ {0}, NEW j \in Nat \ {0}, i < j
        PROVE  LineAt(i) + LineSize <= LineAt(j)
    <3>1. q + i - 1 \in Int /\ q + j - 1 \in Int /\ q + i - 1 < q + j - 1
      BY <2>4
    <3>2. (q + i - 1) * LineSize + LineSize <= (q + j - 1) * LineSize
      BY <2>1, <3>1, MulOrder
    <3>. QED  BY <2>3, <3>2
  <2>5. \A i, j \in 1 .. n : flushed[i] = flushed[j] => i = j
    <3>1. SUFFICES ASSUME NEW i \in 1 .. n, NEW j \in 1 .. n, LineAt(i) = LineAt(j), i < j PROVE FALSE
      BY <2>1, <2>2
    <3>2. i \in Nat \ {0} /\ j \in Nat \ {0}
      OBVIOUS
    <3>3. LineAt(i) + LineSize <= LineAt(j) /\ LineAt(i) \in Nat
      BY <2>3, <2>4, <3>1, <3>2
    <3>. QED  BY <2>1, <3>1, <3>3
  <2>6. ASSUME NEW i \in 1 .. n PROVE LineAt(i) \in Touched
    <3>1. i \in Nat \ {0} /\ n \in Nat \ {0}
      BY <2>2
    <3>2. LineAt(i) <= LineAt(n)
      BY <2>1, <2>2, <2>3, <2>4, <3>1
    <3>3. CASE i = 1
      <4>1. LineAt(i) = LineOf(faddr)
        BY <2>1, <2>3, <3>3 DEF LineAt
      <4>2. faddr \in faddr .. faddr + flen - 1
        BY <2>1
      <4>. QED  BY <4>1, <4>2 DEF Touched
    <3>4. CASE i # 1
      <4>1. LineAt(1) = q * LineSize
        BY <2>1, <2>3 DEF LineAt
      <4>2. q * LineSize + LineSize <= LineAt(i)
        BY <2>4, <3>1, <3>4, <4>1
      <4>3. LineAt(i) \in faddr .. faddr + flen - 1 /\ LineOf(LineAt(i)) = LineAt(i)
        <5>1. LineAt(i) \in Nat /\ LineOf(LineAt(i)) = LineAt(i) /\ LineAt(n) \in Nat
          BY <2>3, <3>1
        <5>. QED  BY ONLY <2>1, <2>9, <3>2, <4>2, <5>1
      <4>. QED  BY <4>3 DEF Touched
    <3>. QED  BY <3>3, <3>4
  \* A line that the range touches is flushed, or it is the line behind those
  \* that are, and then the last one.
  <2>7. ASSUME NEW a \in faddr .. faddr + flen - 1
        PROVE  \/ \E i \in 1 .. n : LineOf(a) = LineAt(i)
               \/ Shift # 0 /\ LineOf(a) = LastLine
    <3>1. a \in Nat /\ faddr <= a /\ a < faddr + flen
      BY <2>1
    <3>2. PICK k \in Nat : LineOf(a) = k * LineSize /\ k * LineSize <= a /\ a < k * LineSize + LineSize
      BY <3>1, LineParts
    <3>3. ~(k < q)
      <4>1. k < q => k * LineSize + LineSize <= q * LineSize /\ k * LineSize \in Int
        BY <2>1, MulOrder
      <4>. QED  BY <2>1, <2>9, <3>1, <3>2, <4>1
    <3>4. LineAt(n + 1) = (q + n) * LineSize /\ (q + n) * LineSize \in Int
      <4>1. n + 1 \in Nat \ {0} /\ q + (n + 1) - 1 = q + n
        BY <2>2
      <4>2. LineAt(n + 1) = (q + (n + 1) - 1) * LineSize /\ LineAt(n + 1) \in Nat
        BY <2>3, <4>1
      <4>. QED  BY <4>1, <4>2
    <3>5. CASE k < q + n
      <4>1. k - q + 1 \in 1 .. n /\ k - q + 1 \in Nat \ {0} /\ q + (k - q + 1) - 1 = k
        BY <2>2, <3>3, <3>5
      <4>2. LineAt(k - q + 1) = k * LineSize
        BY <2>3, <4>1
      <4>. QED  BY <3>2, <4>1, <4>2
    <3>6. CASE q + n <= k
      <4>1. (q + n) * LineSize <= k * LineSize /\ k * LineSize \in Int
        <5>1. q + n < k => (q + n) * LineSize + LineSize <= k * LineSize
          BY <2>1, <2>2, MulOrder
        <5>2. q + n = k \/ q + n < k
          BY <2>2, <3>6
        <5>. QED  BY <2>1, <3>4, <5>1, <5>2
      <4>2. Shift \in Nat /\ Shift < LineSize
        BY <2>1, ShiftKnown
      <4>3. faddr + flen <= k * LineSize + Shift /\ k * LineSize < faddr + flen
        BY <2>1, <3>1, <3>2, <3>4, <4>1, <4>2
      <4>4. Shift # 0
        BY <2>1, <4>1, <4>3
      <4>5. PICK d \in 0 .. LineSize - 1 : faddr + flen - 1 = k * LineSize + d
        <5>1. faddr + flen - 1 - k * LineSize \in 0 .. LineSize - 1
          BY <2>1, <4>1, <4>2, <4>3
        <5>2. faddr + flen - 1 = k * LineSize + (faddr + flen - 1 - k * LineSize)
          BY <2>1, <4>1
        <5>. QED  BY <5>1, <5>2
      <4>6. LastLine = k * LineSize
        BY <4>5, LineOfShifted DEF LastLine
      <4>. QED  BY <3>2, <4>4, <4>6
    <3>. QED  BY <2>2, <3>5, <3>6
  <2>8. Dropped = {LineAt(i) : i \in 1 .. n}
    BY <2>1, <2>2 DEF Dropped
  <2>10. Dropped \subseteq Touched
    BY <2>6, <2>8
  <2>11. \A l \in Touched : l \in Dropped \/ (Shift # 0 /\ l = LastLine)
    BY <2>7, <2>8 DEF Touched
  <2>12. routine # "processor_cache" \/ faddr % LineSize = 0 => Shift = 0
    BY DEF Shift
  <2>13. routine # "processor_cache" \/ faddr % LineSize = 0 => Dropped = Touched
    BY <2>10, <2>11, <2>12
  <2>14. Touched \ Dropped \subseteq {LastLine}
    BY <2>11
  <2>. QED  BY <2>2, <2>5, <2>10, <2>13, <2>14
<1>2. FlushInv => FlushedExactly
  BY <1>1 DEF FlushedExactly
<1>. QED  BY <1>2, FlushInvariant, PTL

-----------------------------------------------------------------------------
(* dsa_move_data: every step keeps DsaInv.                                 *)

\* The jobs under way and the failed ones are jobs of the pool.
LEMMA OpenJobsKnown ==
    ASSUME DsaInv
    PROVE  \A j \in OpenJobs : j \in Nat /\ j < job_num
<1>1. \A j \in OpenJobs : j \in bad \/ \E f \in flight : j = f.job
  BY DEF OpenJobs
<1>2. \A f \in flight : f.job \in Nat /\ f.job < job_num
  BY DEF DsaInv, DsaTypeOK, JobsWaitedFor
<1>3. \A j \in bad : j \in Nat /\ j < job_num
  BY DEF DsaInv, DsaTypeOK
<1>. QED  BY <1>1, <1>2, <1>3

\* A block is submitted with a job that is free.
LEMMA SubmitKnown ==
    ASSUME DsaInv, dpc # "start", NEW n \in Nat \ {0}, source + n <= total, job < job_num,
           \A j \in OpenJobs : j < job, Submit(n)
    PROVE  /\ source' = source + n /\ source' \in 0 .. total
           /\ flight' \subseteq [job : Nat, from : Nat, to : Nat]
           /\ UNCHANGED <<job_num, block_size, total, jobs, bad, moved>>
           /\ \A j \in OpenJobs' : j \in Nat /\ j <= job /\ j < job_num
           /\ \A f \in flight' : f.job < job_num /\ f.job \notin bad'
           /\ \A f, g \in flight' : f.job = g.job => f = g
           /\ \A f \in flight' : f.to < source'
           /\ \A f, g \in flight', k \in 0 .. total - 1 : Covers(f, k) /\ Covers(g, k) => f = g
           /\ \A k \in 0 .. total - 1 :
                 IF source' <= k \/ \E f \in flight' : Covers(f, k)
                 THEN moved'[k] = 0 ELSE moved'[k] = 1 \/ bad' # {}
<1>. DEFINE b == [job |-> job, from |-> source, to |-> source + n - 1]
<1>1. /\ flight' = flight \cup {b} /\ source' = source + n
      /\ UNCHANGED <<job_num, block_size, total, jobs, bad, moved>>
  BY DEF Submit, dsaArgs
<1>2. /\ source \in Nat /\ total \in Nat /\ job_num \in Nat /\ job \in Nat
      /\ flight \subseteq [job : Nat, from : Nat, to : Nat] /\ bad \subseteq Nat
  BY DEF DsaInv, DsaTypeOK
<1>3. b \in [job : Nat, from : Nat, to : Nat] /\ b.job = job /\ b.from = source /\ b.to = source + n - 1
  BY <1>2
<1>. HIDE DEF b
<1>4. /\ \A f \in flight : f.job < job /\ f.job \notin bad
      /\ \A j \in bad : j < job
      /\ \A f, g \in flight : f.job = g.job => f = g
  BY DEF OpenJobs, DsaInv, JobsWaitedFor
<1>5. source' \in 0 .. total /\ flight' \subseteq [job : Nat, from : Nat, to : Nat]
  BY <1>1, <1>2, <1>3
<1>6. \A f \in flight' : f.job \in Nat /\ f.job <= job /\ f.job \notin bad'
  BY <1>1, <1>2, <1>3, <1>4
<1>7. \A j \in OpenJobs' : j \in Nat /\ j <= job /\ j < job_num
  <2>1. \A j \in OpenJobs' : j \in bad' \/ \E f \in flight' : j = f.job
    BY DEF OpenJobs
  <2>2. \A j \in bad' : j \in Nat /\ j <= job
    BY <1>1, <1>2, <1>4
  <2>3. \A j \in OpenJobs' : j \in Nat /\ j <= job
    BY <1>6, <2>1, <2>2
  <2>. QED  BY <1>2, <2>3
<1>8. \A f, g \in flight' : f.job = g.job => f = g
  BY <1>1, <1>2, <1>3, <1>4
<1>9. \A f \in flight : f.to < source /\ f.to \in Nat
  BY <1>2 DEF DsaInv, BytesKnown
<1>10. \A f \in flight' : f.to < source'
  BY <1>1, <1>2, <1>3, <1>9
<1>11. \A f \in flight, k \in Int : ~(Covers(f, k) /\ Covers(b, k))
  BY <1>2, <1>3, <1>9 DEF Covers
<1>12. \A f, g \in flight', k \in 0 .. total - 1 : Covers(f, k) /\ Covers(g, k) => f = g
  <2>1. \A f, g \in flight, k \in 0 .. total - 1 : Covers(f, k) /\ Covers(g, k) => f = g
    BY DEF DsaInv, BytesKnown
  <2>. QED  BY <1>1, <1>2, <1>11, <2>1
<1>13. \A k \in 0 .. total - 1 :
          IF source' <= k \/ \E f \in flight' : Covers(f, k)
          THEN moved'[k] = 0 ELSE moved'[k] = 1 \/ bad' # {}
  <2>1. ASSUME NEW k \in 0 .. total - 1
        PROVE  IF source' <= k \/ \E f \in flight' : Covers(f, k)
               THEN moved'[k] = 0 ELSE moved'[k] = 1 \/ bad' # {}
    <3>1. IF source <= k \/ \E f \in flight : Covers(f, k)
          THEN moved[k] = 0 ELSE moved[k] = 1 \/ bad # {}
      BY DEF DsaInv, BytesKnown
    <3>2. Covers(b, k) <=> source <= k /\ k < source'
      BY <1>1, <1>2, <1>3 DEF Covers
    <3>3. source' <= k => source <= k
      BY <1>1, <1>2
    <3>4. source <= k => source' <= k \/ Covers(b, k)
      BY <1>1, <1>2, <3>2
    <3>5. (\E f \in flight' : Covers(f, k)) <=> Covers(b, k) \/ \E f \in flight : Covers(f, k)
      BY <1>1
    <3>. QED  BY <1>1, <3>1, <3>2, <3>3, <3>4, <3>5
  <2>. QED  BY <2>1
<1>14. \A f \in flight' : f.job < job_num /\ f.job \notin bad'
  BY <1>2, <1>6
<1>. QED  BY <1>1, <1>5, <1>7, <1>8, <1>10, <1>12, <1>13, <1>14

\* Steps that leave the blocks alone keep what is known of them.
LEMMA BlocksAlone ==
    ASSUME DsaInv, dpc # "start", UNCHANGED <<job_num, block_size, total, source, flight, bad, moved>>,
           dpc' # "start"
    PROVE  /\ BytesKnown' /\ OpenJobs' = OpenJobs
           /\ \A f \in flight' : f.job < job_num' /\ f.job \notin bad'
           /\ \A f, g \in flight' : f.job = g.job => f = g
           /\ (/\ job_num \in Nat /\ block_size \in Nat /\ total \in Nat
               /\ job_num > 0 /\ block_size > 0 /\ source \in 0 .. total
               /\ flight \subseteq [job : Nat, from : Nat, to : Nat] /\ bad \subseteq 0 .. job_num - 1
               /\ moved \in [0 .. total - 1 -> Nat])'
<1>1. BytesKnown'
  BY DEF DsaInv, BytesKnown, Covers
<1>2. OpenJobs' = OpenJobs
  BY DEF OpenJobs
<1>3. /\ \A f \in flight' : f.job < job_num' /\ f.job \notin bad'
      /\ \A f, g \in flight' : f.job = g.job => f = g
  BY DEF DsaInv, JobsWaitedFor
<1>4. /\ job_num \in Nat /\ block_size \in Nat /\ total \in Nat
      /\ job_num > 0 /\ block_size > 0 /\ source \in 0 .. total
      /\ flight \subseteq [job : Nat, from : Nat, to : Nat] /\ bad \subseteq 0 .. job_num - 1
      /\ moved \in [0 .. total - 1 -> Nat]
  BY DEF DsaInv, DsaTypeOK
<1>. QED  BY <1>1, <1>2, <1>3, <1>4

LEMMA DsaCallStep ==
    ASSUME DsaInv, NEW n \in 1 .. MaxJobs, NEW b \in 1 .. MaxBlock, NEW s \in 0 .. MaxSize,
           DsaCall(n, b, s)
    PROVE  DsaInv'
<1>1. /\ dpc = "start" /\ job_num' = n /\ block_size' = b /\ total' = s /\ dpc' = "init"
      /\ moved' = [k \in 0 .. s - 1 |-> 0]
      /\ UNCHANGED <<jobs, source, job, used_job_num, flight, bad>>
  BY DEF DsaCall
<1>2. n \in Nat /\ n > 0 /\ b \in Nat /\ b > 0 /\ s \in Nat
  BY DsaAssumption
<1>3. job = 0 /\ source = 0 /\ used_job_num = 0 /\ OpenJobs = {} /\ flight = {} /\ bad = {}
  BY <1>1 DEF DsaInv, RestFits, JobsWaitedFor, OpenJobs
<1>4. DsaTypeOK'
  BY <1>1, <1>2, <1>3 DEF DsaTypeOK
<1>5. RestFits' /\ JobsWaitedFor'
  BY <1>1, <1>3 DEF RestFits, JobsWaitedFor, OpenJobs
<1>6. BytesKnown'
  BY <1>1, <1>2, <1>3 DEF BytesKnown
<1>. QED  BY <1>4, <1>5, <1>6 DEF DsaInv

LEMMA InitJobStep ==
    ASSUME DsaInv, InitJob
    PROVE  DsaInv'
<1>1. /\ dpc = "init" /\ dpc' \in {"init", "while", "null"}
      /\ UNCHANGED <<job_num, block_size, total, source, job, used_job_num, flight, bad, moved>>
  BY DEF InitJob, dsaArgs
<1>2. job = 0 /\ source = 0 /\ used_job_num = 0 /\ OpenJobs = {}
  BY <1>1 DEF DsaInv, RestFits, JobsWaitedFor
<1>3. DsaTypeOK'
  BY <1>1, BlocksAlone DEF DsaInv, DsaTypeOK
<1>4. RestFits'
  BY <1>1, <1>2 DEF RestFits
<1>5. JobsWaitedFor'
  BY <1>1, <1>2, BlocksAlone DEF JobsWaitedFor
<1>6. BytesKnown'
  BY <1>1, BlocksAlone
<1>. QED  BY <1>3, <1>4, <1>5, <1>6 DEF DsaInv

LEMMA WhileStep ==
    ASSUME DsaInv, While
    PROVE  DsaInv'
<1>1. /\ dpc = "while" /\ dpc' = (IF src_size > max_move THEN "batch" ELSE "tail") /\ job' = 0
      /\ UNCHANGED <<job_num, block_size, total, source, used_job_num, flight, bad, moved>>
  BY DEF While, dsaArgs
<1>2. /\ OpenJobs = {} /\ job_num \in Nat /\ job_num > 0 /\ block_size \in Nat /\ used_job_num \in 0 .. job_num
      /\ source \in Nat /\ total \in Nat
  BY <1>1 DEF DsaInv, DsaTypeOK, JobsWaitedFor
<1>3. DsaTypeOK'
  BY <1>1, <1>2, BlocksAlone DEF DsaTypeOK
<1>4. RestFits'
  <2>1. (job_num - 0) * block_size = block_size * job_num /\ block_size * job_num \in Int
    BY <1>2
  <2>2. dpc' = "batch" => job' < job_num' /\ src_size' > (job_num' - job') * block_size'
    BY <1>1, <1>2, <2>1 DEF src_size, max_move
  <2>3. dpc' = "tail" => src_size' <= (job_num' - job') * block_size'
    BY <1>1, <1>2, <2>1 DEF src_size, max_move
  <2>. QED  BY <1>1, <2>2, <2>3 DEF RestFits
<1>5. JobsWaitedFor'
  BY <1>1, <1>2, BlocksAlone DEF JobsWaitedFor
<1>6. BytesKnown'
  BY <1>1, BlocksAlone
<1>. QED  BY <1>3, <1>4, <1>5, <1>6 DEF DsaInv

LEMMA BatchSubmitStep ==
    ASSUME DsaInv, BatchSubmit
    PROVE  DsaInv'
<1>1. /\ dpc = "batch" /\ Submit(block_size) /\ used_job_num' = used_job_num
      /\ IF job + 1 < job_num THEN job' = job + 1 /\ dpc' = dpc ELSE job' = 0 /\ dpc' = "batchwait"
  BY DEF BatchSubmit
<1>2. /\ job_num \in Nat /\ block_size \in Nat \ {0} /\ total \in Nat /\ source \in Nat /\ job \in Nat
      /\ used_job_num \in 0 .. job_num /\ bad \subseteq 0 .. job_num - 1
      /\ job < job_num /\ total - source > (job_num - job) * block_size
      /\ \A j \in OpenJobs : j < job
      /\ moved \in [0 .. total - 1 -> Nat]
  BY <1>1 DEF DsaInv, DsaTypeOK, RestFits, JobsWaitedFor, src_size
<1>3. /\ (job_num - job) * block_size = (job_num - (job + 1)) * block_size + block_size
      /\ (job_num - (job + 1)) * block_size >= 0 /\ (job_num - (job + 1)) * block_size \in Int
  BY <1>2
<1>4. source + block_size <= total
  BY <1>2, <1>3
<1>5. /\ source' = source + block_size /\ source' \in 0 .. total
      /\ flight' \subseteq [job : Nat, from : Nat, to : Nat]
      /\ UNCHANGED <<job_num, block_size, total, jobs, bad, moved>>
      /\ \A j \in OpenJobs' : j \in Nat /\ j <= job /\ j < job_num
      /\ \A f \in flight' : f.job < job_num /\ f.job \notin bad'
      /\ \A f, g \in flight' : f.job = g.job => f = g
      /\ \A f \in flight' : f.to < source'
      /\ \A f, g \in flight', k \in 0 .. total - 1 : Covers(f, k) /\ Covers(g, k) => f = g
      /\ \A k \in 0 .. total - 1 :
            IF source' <= k \/ \E f \in flight' : Covers(f, k)
            THEN moved'[k] = 0 ELSE moved'[k] = 1 \/ bad' # {}
  BY <1>1, <1>2, <1>4, SubmitKnown
<1>6. dpc' \in {"batch", "batchwait"} /\ job' \in 0 .. job_num
  BY <1>1, <1>2
<1>7. DsaTypeOK'
  BY <1>1, <1>2, <1>5, <1>6 DEF DsaTypeOK
<1>8. RestFits'
  <2>1. dpc' = "batch" => job' = job + 1 /\ job' < job_num'
    BY <1>1, <1>5
  <2>2. dpc' = "batch" => src_size' > (job_num' - job') * block_size'
    BY <1>2, <1>3, <1>5, <2>1 DEF src_size
  <2>3. dpc' = "batchwait" => job' < job_num'
    BY <1>1, <1>2, <1>5
  <2>. QED  BY <1>6, <2>1, <2>2, <2>3 DEF RestFits
<1>9. JobsWaitedFor'
  <2>1. \A j \in OpenJobs' : j \in Nat
    BY <1>5
  <2>2. dpc' = "batch" => \A j \in OpenJobs' : j < job'
    BY <1>1, <1>2, <1>5, <2>1
  <2>3. dpc' = "batchwait" => \A j \in OpenJobs' : job' <= j
    BY <1>1, <2>1
  <2>. QED  BY <1>5, <1>6, <2>2, <2>3 DEF JobsWaitedFor
<1>10. BytesKnown'
  BY <1>5, <1>6 DEF BytesKnown, Covers
<1>. QED  BY <1>7, <1>8, <1>9, <1>10 DEF DsaInv

LEMMA BatchWaitStep ==
    ASSUME DsaInv, BatchWait
    PROVE  DsaInv'
<1>1. /\ dpc = "batchwait" /\ Waited
      /\ IF job + 1 < job_num THEN job' = job + 1 /\ dpc' = dpc ELSE job' = 0 /\ dpc' = "while"
      /\ UNCHANGED <<job_num, block_size, total, source, used_job_num, flight, bad, moved>>
  BY DEF BatchWait, dsaArgs
<1>2. /\ job_num \in Nat /\ job \in Nat /\ job < job_num /\ used_job_num \in 0 .. job_num
      /\ \A j \in OpenJobs : job <= j
  BY <1>1 DEF DsaInv, DsaTypeOK, RestFits, JobsWaitedFor
<1>3. \A j \in OpenJobs : j \in Nat /\ j < job_num /\ j # job
  BY <1>1, OpenJobsKnown DEF OpenJobs, Waited
<1>4. dpc' \in {"batchwait", "while"} /\ job' \in 0 .. job_num
  BY <1>1, <1>2
<1>5. /\ BytesKnown' /\ OpenJobs' = OpenJobs
      /\ \A f \in flight' : f.job < job_num' /\ f.job \notin bad'
      /\ \A f, g \in flight' : f.job = g.job => f = g
  BY <1>1, <1>4, BlocksAlone
<1>6. DsaTypeOK'
  BY <1>1, <1>2, <1>4, BlocksAlone DEF DsaTypeOK
<1>7. RestFits'
  BY <1>1, <1>2, <1>4 DEF RestFits
<1>8. JobsWaitedFor'
  <2>1. dpc' = "while" => OpenJobs' = {}
    BY <1>1, <1>2, <1>3, <1>5
  <2>2. dpc' = "batchwait" => \A j \in OpenJobs' : job' <= j
    BY <1>1, <1>2, <1>3, <1>5
  <2>. QED  BY <1>4, <1>5, <2>1, <2>2 DEF JobsWaitedFor
<1>. QED  BY <1>5, <1>6, <1>7, <1>8 DEF DsaInv

LEMMA TailSubmitStep ==
    ASSUME DsaInv, TailSubmit
    PROVE  DsaInv'
<1>1. /\ dpc = "tail" /\ used_job_num' = used_job_num
      /\ job_num \in Nat /\ block_size \in Nat \ {0} /\ total \in Nat /\ source \in Nat /\ job \in Nat
      /\ job <= job_num /\ used_job_num \in 0 .. job_num /\ bad \subseteq 0 .. job_num - 1
      /\ total - source <= (job_num - job) * block_size
      /\ \A j \in OpenJobs : j < job
      /\ moved \in [0 .. total - 1 -> Nat]
  BY DEF TailSubmit, DsaInv, DsaTypeOK, RestFits, JobsWaitedFor, src_size
<1>2. CASE job < job_num /\ src_size > block_size
  <2>1. Submit(block_size) /\ job' = job + 1 /\ dpc' \in {"tail", "last"}
    BY <1>2 DEF TailSubmit
  <2>2. source + block_size <= total
    BY <1>1, <1>2 DEF src_size
  <2>3. /\ source' = source + block_size /\ source' \in 0 .. total
        /\ flight' \subseteq [job : Nat, from : Nat, to : Nat]
        /\ UNCHANGED <<job_num, block_size, total, jobs, bad, moved>>
        /\ \A j \in OpenJobs' : j \in Nat /\ j <= job /\ j < job_num
        /\ \A f \in flight' : f.job < job_num /\ f.job \notin bad'
        /\ \A f, g \in flight' : f.job = g.job => f = g
        /\ \A f \in flight' : f.to < source'
        /\ \A f, g \in flight', k \in 0 .. total - 1 : Covers(f, k) /\ Covers(g, k) => f = g
        /\ \A k \in 0 .. total - 1 :
              IF source' <= k \/ \E f \in flight' : Covers(f, k)
              THEN moved'[k] = 0 ELSE moved'[k] = 1 \/ bad' # {}
    BY <1>1, <1>2, <2>1, <2>2, SubmitKnown
  <2>4. job' \in 0 .. job_num
    BY <1>1, <1>2, <2>1
  <2>5. DsaTypeOK'
    BY <1>1, <2>1, <2>3, <2>4 DEF DsaTypeOK
  <2>6. RestFits'
    <3>1. /\ (job_num - job) * block_size = (job_num - (job + 1)) * block_size + block_size
          /\ (job_num - (job + 1)) * block_size \in Int
      BY <1>1
    <3>2. src_size' <= (job_num' - job') * block_size'
      BY <1>1, <2>1, <2>3, <3>1 DEF src_size
    <3>. QED  BY <2>1, <3>2 DEF RestFits
  <2>7. JobsWaitedFor'
    <3>1. \A j \in OpenJobs' : j < job'
      BY <1>1, <2>1, <2>3
    <3>. QED  BY <2>1, <2>3, <3>1 DEF JobsWaitedFor
  <2>8. BytesKnown'
    BY <2>1, <2>3 DEF BytesKnown, Covers
  <2>. QED  BY <2>5, <2>6, <2>7, <2>8 DEF DsaInv
<1>3. CASE ~(job < job_num /\ src_size > block_size)
  <2>1. /\ dpc' = "last"
        /\ UNCHANGED <<job_num, block_size, total, source, job, used_job_num, flight, bad, moved>>
    BY <1>1, <1>3 DEF TailSubmit, dsaArgs
  <2>2. DsaTypeOK'
    BY <1>1, <2>1, BlocksAlone DEF DsaTypeOK
  <2>3. RestFits'
    BY <1>1, <2>1 DEF RestFits, src_size
  <2>4. JobsWaitedFor'
    BY <1>1, <2>1, BlocksAlone DEF JobsWaitedFor
  <2>5. BytesKnown'
    BY <1>1, <2>1, BlocksAlone
  <2>. QED  BY <2>2, <2>3, <2>4, <2>5 DEF DsaInv
<1>. QED  BY <1>2, <1>3

LEMMA LastSubmitStep ==
    ASSUME DsaInv, LastSubmit
    PROVE  DsaInv'
<1>1. /\ dpc = "last" /\ job' = 0 /\ dpc' = "wait"
      /\ job_num \in Nat /\ block_size \in Nat \ {0} /\ total \in Nat /\ source \in Nat /\ source <= total
      /\ job \in Nat /\ job <= job_num /\ bad \subseteq 0 .. job_num - 1
      /\ total - source <= (job_num - job) * block_size
      /\ \A j \in OpenJobs : j < job
      /\ moved \in [0 .. total - 1 -> Nat]
  BY DEF LastSubmit, DsaInv, DsaTypeOK, RestFits, JobsWaitedFor, src_size
<1>2. CASE src_size > 0
  <2>1. Submit(total - source) /\ used_job_num' = job + 1
    BY <1>2 DEF LastSubmit, src_size
  <2>2. total - source \in Nat \ {0} /\ source + (total - source) = total
    BY <1>1, <1>2 DEF src_size
  <2>3. job < job_num
    <3>1. job = job_num => (job_num - job) * block_size = 0
      BY <1>1
    <3>. QED  BY <1>1, <2>2, <3>1
  <2>4. /\ source' = total
        /\ flight' \subseteq [job : Nat, from : Nat, to : Nat]
        /\ UNCHANGED <<job_num, block_size, total, jobs, bad, moved>>
        /\ \A j \in OpenJobs' : j \in Nat /\ j <= job /\ j < job_num
        /\ \A f \in flight' : f.job < job_num /\ f.job \notin bad'
        /\ \A f, g \in flight' : f.job = g.job => f = g
        /\ \A f \in flight' : f.to < source'
        /\ \A f, g \in flight', k \in 0 .. total - 1 : Covers(f, k) /\ Covers(g, k) => f = g
        /\ \A k \in 0 .. total - 1 :
              IF source' <= k \/ \E f \in flight' : Covers(f, k)
              THEN moved'[k] = 0 ELSE moved'[k] = 1 \/ bad' # {}
    BY <1>1, <2>1, <2>2, <2>3, SubmitKnown
  <2>5. DsaTypeOK'
    BY <1>1, <2>1, <2>3, <2>4 DEF DsaTypeOK
  <2>6. RestFits'
    BY <1>1, <2>1, <2>4 DEF RestFits
  <2>7. JobsWaitedFor'
    <3>1. \A j \in OpenJobs' : job' <= j /\ j < used_job_num'
      BY <1>1, <2>1, <2>4
    <3>. QED  BY <1>1, <2>4, <3>1 DEF JobsWaitedFor
  <2>8. BytesKnown'
    BY <1>1, <2>4 DEF BytesKnown, Covers
  <2>. QED  BY <2>5, <2>6, <2>7, <2>8 DEF DsaInv
<1>3. CASE ~(src_size > 0)
  <2>1. /\ used_job_num' = job
        /\ UNCHANGED <<job_num, block_size, total, source, flight, bad, moved>>
    BY <1>1, <1>3 DEF LastSubmit, dsaArgs
  <2>2. source = total
    BY <1>1, <1>3 DEF src_size
  <2>3. DsaTypeOK'
    BY <1>1, <2>1, BlocksAlone DEF DsaTypeOK
  <2>4. RestFits'
    BY <1>1, <2>1, <2>2 DEF RestFits, src_size
  <2>5. JobsWaitedFor'
    <3>1. \A j \in OpenJobs : j \in Nat
      BY OpenJobsKnown
    <3>2. \A j \in OpenJobs' : job' <= j /\ j < used_job_num'
      BY <1>1, <2>1, <3>1, BlocksAlone
    <3>. QED  BY <1>1, <2>1, <3>2, BlocksAlone DEF JobsWaitedFor
  <2>6. BytesKnown'
    BY <1>1, <2>1, BlocksAlone
  <2>. QED  BY <2>3, <2>4, <2>5, <2>6 DEF DsaInv
<1>. QED  BY <1>2, <1>3

LEMMA TailWaitStep ==
    ASSUME DsaInv, TailWait
    PROVE  DsaInv'
<1>1. /\ dpc = "wait" /\ dpc' \in {"wait", "done"}
      /\ IF job < used_job_num THEN Waited /\ job' = job + 1 /\ dpc' = dpc ELSE job' = job /\ dpc' = "done"
      /\ UNCHANGED <<job_num, block_size, total, source, used_job_num, flight, bad, moved>>
  BY DEF TailWait, dsaArgs
<1>2. /\ job_num \in Nat /\ job \in Nat /\ used_job_num \in 0 .. job_num /\ job <= used_job_num
      /\ source = total /\ \A j \in OpenJobs : job <= j /\ j < used_job_num
  BY <1>1 DEF DsaInv, DsaTypeOK, RestFits, JobsWaitedFor
<1>3. \A j \in OpenJobs : j \in Nat /\ (Waited => j # job)
  BY OpenJobsKnown DEF OpenJobs, Waited
<1>4. job' \in 0 .. job_num /\ job' <= used_job_num
  BY <1>1, <1>2
<1>5. /\ BytesKnown' /\ OpenJobs' = OpenJobs
      /\ \A f \in flight' : f.job < job_num' /\ f.job \notin bad'
      /\ \A f, g \in flight' : f.job = g.job => f = g
  BY <1>1, BlocksAlone
<1>6. DsaTypeOK'
  BY <1>1, <1>2, <1>4, BlocksAlone DEF DsaTypeOK
<1>7. RestFits'
  BY <1>1, <1>2, <1>4 DEF RestFits
<1>8. JobsWaitedFor'
  <2>1. dpc' = "done" => OpenJobs' = {}
    BY <1>1, <1>2, <1>3, <1>5
  <2>2. dpc' = "wait" => \A j \in OpenJobs' : job' <= j /\ j < used_job_num'
    BY <1>1, <1>2, <1>3, <1>5
  <2>. QED  BY <1>1, <1>5, <2>1, <2>2 DEF JobsWaitedFor
<1>. QED  BY <1>5, <1>6, <1>7, <1>8 DEF DsaInv

LEMMA DmlErrorStep ==
    ASSUME DsaInv, DmlError
    PROVE  DsaInv'
<1>1. /\ dpc \in {"batch", "tail", "last", "batchwait", "wait"} /\ dpc' = "failed"
      /\ dpc \in {"tail"} => job < job_num
      /\ dpc = "last" => src_size > 0
      /\ dpc \in {"batchwait", "wait"} => job \in bad
      /\ UNCHANGED <<job_num, block_size, total, source, job, used_job_num, flight, bad, moved>>
  BY DEF DmlError, dsaArgs
<1>2. /\ job_num \in Nat /\ block_size \in Nat /\ total \in Nat /\ source \in Nat
      /\ job \in 0 .. job_num /\ used_job_num \in 0 .. job_num
  BY DEF DsaInv, DsaTypeOK
<1>3. /\ BytesKnown' /\ OpenJobs' = OpenJobs
      /\ \A f \in flight' : f.job < job_num' /\ f.job \notin bad'
      /\ \A f, g \in flight' : f.job = g.job => f = g
  BY <1>1, BlocksAlone
<1>4. job_num = 1 => flight = {}
  <2>1. SUFFICES ASSUME job_num = 1, NEW f \in flight
                 PROVE  FALSE
    OBVIOUS
  <2>2. f.job \in OpenJobs /\ f.job \notin bad
    BY DEF OpenJobs, DsaInv, JobsWaitedFor
  <2>3. f.job = 0
    BY <2>1, <2>2, OpenJobsKnown
  <2>4. CASE dpc \in {"batchwait", "wait"}
    <3>1. job \in bad /\ bad \subseteq 0 .. job_num - 1
      BY <1>1, <2>4 DEF DsaInv, DsaTypeOK
    <3>2. job = 0
      BY <2>1, <3>1
    <3>. QED  BY <2>2, <2>3, <3>1, <3>2
  <2>5. CASE dpc \in {"batch", "tail", "last"}
    <3>1. f.job < job
      BY <2>2, <2>5 DEF DsaInv, JobsWaitedFor
    <3>2. job = 1
      BY <1>2, <2>1, <2>3, <3>1
    <3>3. dpc = "last"
      BY <1>1, <2>1, <2>5, <3>2 DEF DsaInv, RestFits
    <3>4. src_size <= (job_num - job) * block_size /\ src_size > 0
      BY <1>1, <3>3 DEF DsaInv, RestFits
    <3>5. (job_num - job) * block_size = 0
      BY <1>2, <2>1, <3>2
    <3>. QED  BY <1>2, <3>4, <3>5 DEF src_size
  <2>. QED  BY <1>1, <2>4, <2>5
<1>5. DsaTypeOK'
  BY <1>1, <1>2, BlocksAlone DEF DsaTypeOK
<1>6. RestFits'
  BY <1>1 DEF RestFits
<1>7. JobsWaitedFor'
  BY <1>1, <1>3, <1>4 DEF JobsWaitedFor
<1>. QED  BY <1>3, <1>5, <1>6, <1>7 DEF DsaInv

\* The accelerator ends a job: its block covers its bytes alone, and they were
\* not moved before.
LEMMA AcceleratorStep ==
    ASSUME DsaInv, NEW e \in flight, Accelerator(e)
    PROVE  DsaInv'
<1>1. /\ flight' = flight \ {e}
      /\ UNCHANGED <<dpc, job_num, block_size, total, source, job, used_job_num>>
      /\ \/ /\ moved' = [k \in DOMAIN moved |-> moved[k] + IF k \in e.from .. e.to THEN 1 ELSE 0]
            /\ bad' = bad
         \/ moved' = moved /\ bad' = bad \cup {e.job}
  BY DEF Accelerator, dsaArgs
<1>2. e.job \in OpenJobs
  BY DEF OpenJobs
<1>3. dpc # "start"
  BY <1>2 DEF DsaInv, JobsWaitedFor
<1>4. /\ job_num \in Nat /\ block_size \in Nat /\ total \in Nat /\ source \in Nat
      /\ flight \subseteq [job : Nat, from : Nat, to : Nat] /\ bad \subseteq 0 .. job_num - 1
      /\ moved \in [0 .. total - 1 -> Nat]
  BY <1>3 DEF DsaInv, DsaTypeOK
<1>5. e.job \in Nat /\ e.job < job_num /\ e.job \in 0 .. job_num - 1
  BY <1>2, <1>4, OpenJobsKnown
<1>6. \A k \in 0 .. total - 1 : k \in e.from .. e.to <=> Covers(e, k)
  BY <1>4 DEF Covers
<1>7. DOMAIN moved = 0 .. total - 1
  BY <1>4
<1>8. \A k \in 0 .. total - 1 :
         moved'[k] = IF bad' = bad /\ Covers(e, k) THEN moved[k] + 1 ELSE moved[k]
  <2>1. e.job \notin bad
    BY DEF DsaInv, JobsWaitedFor
  <2>2. CASE moved' = moved /\ bad' = bad \cup {e.job}
    BY <2>1, <2>2
  <2>3. CASE /\ moved' = [k \in DOMAIN moved |-> moved[k] + IF k \in e.from .. e.to THEN 1 ELSE 0]
             /\ bad' = bad
    BY <1>4, <1>6, <1>7, <2>3
  <2>. QED  BY <1>1, <2>2, <2>3
<1>9. moved' \in [0 .. total - 1 -> Nat]
  <2>1. moved' \in [0 .. total - 1 -> Nat] \/ moved' = moved
    BY <1>1, <1>4, <1>7
  <2>. QED  BY <1>4, <2>1
<1>10. bad' = bad \/ bad' = bad \cup {e.job}
  BY <1>1
<1>11. DsaTypeOK'
  <2>1. bad' \subseteq 0 .. job_num - 1 /\ flight' \subseteq [job : Nat, from : Nat, to : Nat]
    BY <1>1, <1>4, <1>5, <1>10
  <2>. QED  BY <1>1, <1>9, <2>1 DEF DsaInv, DsaTypeOK
<1>12. RestFits'
  BY <1>1 DEF DsaInv, RestFits, src_size
<1>13. JobsWaitedFor'
  <2>1. \A j \in OpenJobs' : j \in OpenJobs
    BY <1>1, <1>2, <1>10 DEF OpenJobs
  <2>2. \A f \in flight' : f.job < job_num /\ f.job \notin bad'
    BY <1>1, <1>10 DEF DsaInv, JobsWaitedFor
  <2>3. \A f, g \in flight' : f.job = g.job => f = g
    BY <1>1 DEF DsaInv, JobsWaitedFor
  <2>. QED  BY <1>1, <2>1, <2>2, <2>3 DEF DsaInv, JobsWaitedFor
<1>14. BytesKnown'
  <2>1. \A f \in flight' : f.to < source'
    BY <1>1 DEF DsaInv, BytesKnown
  <2>2. \A f, g \in flight, k \in 0 .. total - 1 : Covers(f, k) /\ Covers(g, k) => f = g
    BY DEF DsaInv, BytesKnown
  <2>3. \A f \in flight' : f \in flight /\ f # e
    BY <1>1
  <2>4. ASSUME NEW k \in 0 .. total - 1
        PROVE  IF source <= k \/ \E f \in flight' : Covers(f, k)
               THEN moved'[k] = 0 ELSE moved'[k] = 1 \/ bad' # {}
    <3>1. IF source <= k \/ \E f \in flight : Covers(f, k)
          THEN moved[k] = 0 ELSE moved[k] = 1 \/ bad # {}
      BY <1>3 DEF DsaInv, BytesKnown
    <3>2. e.to < source /\ e.to \in Nat
      BY <1>4 DEF DsaInv, BytesKnown
    <3>3. Covers(e, k) => ~(source <= k) /\ moved[k] = 0 /\ \A f \in flight' : ~Covers(f, k)
      BY <1>4, <2>2, <2>3, <3>1, <3>2 DEF Covers
    <3>4. bad' # bad => bad' # {}
      BY <1>10
    <3>5. CASE Covers(e, k)
      BY <1>8, <3>3, <3>4, <3>5
    <3>6. CASE ~Covers(e, k)
      <4>1. moved'[k] = moved[k]
        BY <1>8, <3>6
      <4>2. (\E f \in flight' : Covers(f, k)) <=> \E f \in flight : Covers(f, k)
        BY <1>1, <3>6
      <4>3. bad # {} => bad' # {}
        BY <1>10
      <4>. QED  BY <3>1, <4>1, <4>2, <4>3
    <3>. QED  BY <3>5, <3>6
  <2>. QED  BY <1>1, <2>1, <2>2, <2>3, <2>4 DEF BytesKnown, Covers
<1>. QED  BY <1>11, <1>12, <1>13, <1>14 DEF DsaInv

\* DsaInv is an inductive invariant of dsa_move_data and of the accelerator.
THEOREM DsaInvariant == DsaSpec => []DsaInv
<1>1. DsaInit => DsaInv
  <2>1. SUFFICES ASSUME DsaInit
                 PROVE  DsaInv
    OBVIOUS
  <2>2. OpenJobs = {}
    BY <2>1 DEF DsaInit, OpenJobs
  <2>3. DsaTypeOK /\ RestFits
    BY <2>1 DEF DsaInit, DsaTypeOK, RestFits
  <2>4. JobsWaitedFor /\ BytesKnown
    BY <2>1, <2>2 DEF DsaInit, JobsWaitedFor, BytesKnown
  <2>. QED  BY <2>3, <2>4 DEF DsaInv
<1>2. DsaInv /\ [DsaNext]_dsaVars => DsaInv'
  <2>1. SUFFICES ASSUME DsaInv, [DsaNext]_dsaVars
                 PROVE  DsaInv'
    OBVIOUS
  <2>2. CASE UNCHANGED dsaVars
    BY <2>1, <2>2 DEF dsaVars, dsaArgs, DsaInv, DsaTypeOK, RestFits, JobsWaitedFor, BytesKnown,
                      OpenJobs, Covers, src_size
  <2>. QED
    BY <2>1, <2>2, DsaCallStep, InitJobStep, WhileStep, BatchSubmitStep, BatchWaitStep,
       TailSubmitStep, LastSubmitStep, TailWaitStep, DmlErrorStep, AcceleratorStep DEF DsaNext
<1>. QED  BY <1>1, <1>2, PTL DEF DsaSpec

\* However src_size falls on the blocks and the jobs, for any number of jobs and
\* any block size: dsa_move_data never submits a job that is under way, nor one
\* outside the pool, nor a block that reaches past the end of the source.
THEOREM BlocksFitPool == DsaSpec => []JobsInPool
<1>1. DsaInv => JobsInPool
  <2>1. SUFFICES ASSUME DsaInv, NEW f \in flight
                 PROVE  /\ f.job < job_num /\ f.to < total
                        /\ \A g \in flight : g.job = f.job => g = f
    BY DEF JobsInPool
  <2>2. /\ f.job < job_num /\ f.to < source
        /\ \A g \in flight : g.job = f.job => g = f
    BY <2>1 DEF DsaInv, JobsWaitedFor, BytesKnown
  <2>3. f.to \in Nat /\ source \in 0 .. total /\ total \in Nat
    BY <2>1 DEF DsaInv, DsaTypeOK
  <2>. QED  BY <2>2, <2>3
<1>. QED  BY <1>1, DsaInvariant, PTL

\* Whatever the order in which the accelerator ends the jobs and whichever of
\* them fail: dsa_move_data that returns without an error has moved every byte
\* exactly once.
THEOREM EveryByteMovedOnce == DsaSpec => []MovedOnce
<1>1. DsaInv => MovedOnce
  <2>1. SUFFICES ASSUME DsaInv
                 PROVE  MovedOnce
    OBVIOUS
  <2>2. ASSUME dpc = "done"
        PROVE  flight = {} /\ \A k \in DOMAIN moved : moved[k] = 1
    <3>1. OpenJobs = {} /\ source = total
      BY <2>1, <2>2 DEF DsaInv, RestFits, JobsWaitedFor
    <3>2. flight = {} /\ bad = {}
      BY <3>1 DEF OpenJobs
    <3>3. DOMAIN moved = 0 .. total - 1 /\ total \in Nat
      BY <2>1, <2>2 DEF DsaInv, DsaTypeOK
    <3>4. \A k \in 0 .. total - 1 : ~(source <= k)
      BY <3>1, <3>3
    <3>5. \A k \in 0 .. total - 1 :
             IF source <= k \/ \E f \in flight : Covers(f, k)
             THEN moved[k] = 0 ELSE moved[k] = 1 \/ bad # {}
      BY <2>1, <2>2 DEF DsaInv, BytesKnown
    <3>. QED  BY <3>2, <3>3, <3>4, <3>5
  <2>3. dpc = "failed" /\ job_num = 1 => flight = {}
    BY <2>1 DEF DsaInv, JobsWaitedFor
  <2>. QED  BY <2>2, <2>3 DEF MovedOnce
<1>. QED  BY <1>1, DsaInvariant, PTL

-----------------------------------------------------------------------------
(* write_4k_num: every step keeps RandInv.                                 *)

\* The two slices of a mapping.
LEMMA Slices ==
    ASSUME pages \in Nat
    PROVE  /\ BaseOf(0) = 0 /\ ShareOf(0) = pages \div 2
           /\ BaseOf(1) = pages \div 2 /\ ShareOf(1) = pages - pages \div 2
           /\ pages \div 2 \in Nat /\ 2 * (pages \div 2) <= pages /\ pages <= 2 * (pages \div 2) + 1
           /\ \A i \in {0, 1} : /\ BaseOf(i) \in Nat /\ ShareOf(i) \in Nat
                                /\ BaseOf(i) + ShareOf(i) * PageBytes <= pages * PageBytes
           /\ HalfEnd \in Nat /\ HalfEnd <= pages * PageBytes
           /\ HalfEnd = BaseOf(0) + ShareOf(0) * PageBytes
<1>. DEFINE h == pages \div 2
<1>1. h \in Nat /\ 2 * h <= pages /\ pages <= 2 * h + 1
  OBVIOUS
<1>2. 0 * h = 0 /\ 1 * h = h /\ 1 * pages = pages
  BY <1>1
<1>3. /\ BaseOf(0) = 0 /\ ShareOf(0) = h
      /\ BaseOf(1) = h /\ ShareOf(1) = pages - h
  BY <1>1, <1>2 DEF BaseOf, ShareOf, Threads
<1>. HIDE DEF h
<1>4. PageBytes \in Nat /\ PageBytes >= 1
  BY RandAssumption
<1>5. pages - h \in Nat /\ h <= pages - h
  BY <1>1
<1>6. h * PageBytes <= (pages - h) * PageBytes /\ h <= h * PageBytes
      /\ pages * PageBytes = h * PageBytes + (pages - h) * PageBytes
      /\ h * PageBytes \in Nat /\ (pages - h) * PageBytes \in Nat
  <2>1. \A m, n \in Nat : m <= n => m * PageBytes <= n * PageBytes /\ m * PageBytes \in Nat
    BY <1>4
  <2>2. \A m \in Nat : m <= m * PageBytes
    BY <1>4
  <2>3. \A m, n \in Nat : (m + n) * PageBytes = m * PageBytes + n * PageBytes
    BY <1>4
  <2>4. h + (pages - h) = pages
    BY <1>1
  <2>5. pages * PageBytes = h * PageBytes + (pages - h) * PageBytes
    BY ONLY <1>1, <1>5, <2>3, <2>4
  <2>6. (pages - h) * PageBytes \in Nat
    BY ONLY <1>5, <2>1
  <2>. QED  BY ONLY <1>1, <1>5, <2>1, <2>2, <2>5, <2>6
<1>7. HalfEnd = h * PageBytes
  BY DEF HalfEnd, h
<1>8. HalfEnd \in Nat /\ HalfEnd <= pages * PageBytes /\ HalfEnd = BaseOf(0) + ShareOf(0) * PageBytes
  BY ONLY <1>1, <1>3, <1>5, <1>6, <1>7
<1>9. \A i \in {0, 1} : /\ BaseOf(i) \in Nat /\ ShareOf(i) \in Nat
                        /\ BaseOf(i) + ShareOf(i) * PageBytes <= pages * PageBytes
  BY ONLY <1>1, <1>3, <1>5, <1>6, <1>7
<1>. QED  BY <1>1, <1>3, <1>8, <1>9 DEF h

\* The first half of a mapping of m pages lies inside it.
LEMMA HalfInside ==
    ASSUME NEW m \in Nat
    PROVE  (m \div 2) * PageBytes \in Nat /\ (m \div 2) * PageBytes <= m * PageBytes
<1>1. m \div 2 \in Nat /\ m \div 2 <= m
  OBVIOUS
<1>2. \A a, b \in Nat : a <= b => a * PageBytes \in Nat /\ a * PageBytes <= b * PageBytes
  BY RandAssumption
<1>. QED  BY ONLY m \in Nat, <1>1, <1>2

\* Where a thread is in its slice, and where it is after another page.
LEMMA InSliceKnown ==
    ASSUME pages \in Nat, NEW i \in {0, 1}, NEW l \in Nat, l <= ShareOf(i),
           NEW b, b = BaseOf(i) + (ShareOf(i) - l) * PageBytes
    PROVE  /\ b \in Nat /\ BaseOf(i) <= b
           /\ b + l * PageBytes = BaseOf(i) + ShareOf(i) * PageBytes
           /\ b + l * PageBytes <= pages * PageBytes
           /\ l > 0 => /\ b + PageBytes <= pages * PageBytes
                       /\ b + PageBytes = BaseOf(i) + (ShareOf(i) - (l - 1)) * PageBytes
<1>1. /\ BaseOf(i) \in Nat /\ ShareOf(i) \in Nat
      /\ BaseOf(i) + ShareOf(i) * PageBytes <= pages * PageBytes
  BY Slices
<1>2. PageBytes \in Nat /\ PageBytes >= 1
  BY RandAssumption
<1>. DEFINE s == ShareOf(i)  d == s - l
<1>3. d \in Nat /\ s = d + l
  BY <1>1
<1>4. \A m, n \in Nat : (m + n) * PageBytes = m * PageBytes + n * PageBytes /\ m * PageBytes \in Nat
  BY <1>2
<1>. HIDE DEF d
<1>5. s * PageBytes = d * PageBytes + l * PageBytes /\ d * PageBytes \in Nat /\ l * PageBytes \in Nat
  BY ONLY l \in Nat, <1>3, <1>4
<1>6. b = BaseOf(i) + d * PageBytes
  BY DEF d
<1>7. /\ b \in Nat /\ BaseOf(i) <= b
      /\ b + l * PageBytes = BaseOf(i) + s * PageBytes
  BY ONLY <1>1, <1>5, <1>6
<1>8. pages * PageBytes \in Nat
  BY <1>4, <1>2
<1>9. b + l * PageBytes <= pages * PageBytes
  BY ONLY <1>1, <1>5, <1>7, <1>8
<1>10. ASSUME l > 0
       PROVE  /\ b + PageBytes <= pages * PageBytes
              /\ b + PageBytes = BaseOf(i) + (ShareOf(i) - (l - 1)) * PageBytes
  <2>1. s - (l - 1) = d + 1 /\ l - 1 \in Nat
    BY <1>1, <1>10 DEF d
  <2>2. (d + 1) * PageBytes = d * PageBytes + PageBytes
    BY <1>2, <1>3
  <2>3. l * PageBytes = (l - 1) * PageBytes + PageBytes /\ (l - 1) * PageBytes \in Nat
    BY <1>2, <2>1
  <2>4. b + PageBytes = BaseOf(i) + (s - (l - 1)) * PageBytes
    BY ONLY <1>1, <1>2, <1>5, <1>6, <2>1, <2>2
  <2>5. b + PageBytes <= pages * PageBytes
    BY ONLY <1>1, <1>2, <1>5, <1>7, <1>8, <2>3
  <2>. QED  BY <2>4, <2>5
<1>. QED  BY <1>7, <1>9, <1>10

\* The threads are where InSlice says, and only those being started or joined
\* are of this file.
LEMMA ThreadsThere ==
    ASSUME RandInv
    PROVE  /\ \A w \in writers : /\ w.id \in {0, 1} /\ w.pass \in Nat /\ w.file \in Nat
                                 /\ w.base \in Nat /\ w.left \in Nat
           /\ npc \notin {"create", "join"} => Mine = {}
           /\ \A w \in writers : w.pass <= pass
           /\ \A w \in writers : w \notin Mine => w.pass < pass \/ (w.pass = pass /\ w.file < file)
<1>1. /\ \A w \in writers : /\ w.id \in {0, 1} /\ w.pass \in Nat /\ w.file \in Nat
                            /\ w.base \in Nat /\ w.left \in Nat
      /\ pass \in Nat /\ file \in Nat
  BY DEF RandInv, RandTypeOK
<1>2. \A w \in writers : \/ w.pass < pass
                         \/ w.pass = pass /\ w.file < file
                         \/ w \in Mine /\ npc \in {"create", "join"}
  BY DEF RandInv, ThreadsKnown
<1>3. \A w \in Mine : w \in writers /\ w.pass = pass /\ w.file = file
  BY DEF Mine
<1>. QED  BY <1>1, <1>2, <1>3

LEMMA RandStartStep ==
    ASSUME RandInv, NEW n \in 1 .. MaxPages, NEW f \in 0 .. MaxFiles, RandStart(n, f)
    PROVE  RandInv'
<1>1. /\ npc = "start" /\ pages' = n /\ fits' = f /\ npc' = "map"
      /\ runs' = [g \in 0 .. f - 1 |-> [k \in 0 .. n * PageBytes - 1 |-> 0]]
      /\ UNCHANGED <<pass, file, writers, trouble>>
  BY DEF RandStart
<1>2. n \in Nat /\ f \in Nat /\ writers = {} /\ pass = 0 /\ file = 0
  BY <1>1, RandAssumption DEF RandInv, RandTypeOK
<1>3. RandTypeOK'
  BY <1>1, <1>2 DEF RandTypeOK
<1>4. ThreadsKnown'
  BY <1>1, <1>2 DEF ThreadsKnown, Mine
<1>5. BytesWritten'
  <2>1. Mine' = {} /\ pass' = 0 /\ file' = 0
    BY <1>1, <1>2 DEF Mine
  <2>2. \A g \in 0 .. fits' - 1, k \in 0 .. pages' * PageBytes - 1 :
           runs'[g][k] = 0 /\ ~(g < file')
    BY <1>1, <1>2
  <2>3. \A g \in 0 .. fits' - 1, k \in 0 .. pages' * PageBytes - 1 : runs'[g][k] >= pass'
    BY <2>1, <2>2
  <2>4. \A k \in 0 .. HalfEnd' - 1 : k \in 0 .. pages' * PageBytes - 1
    <3>1. pages' = n /\ n * PageBytes \in Nat
      BY <1>1, <1>2, RandAssumption
    <3>2. HalfEnd' = (n \div 2) * PageBytes
      BY <3>1 DEF HalfEnd
    <3>3. HalfEnd' \in Nat /\ HalfEnd' <= pages' * PageBytes
      <4>1. (n \div 2) * PageBytes \in Nat /\ (n \div 2) * PageBytes <= n * PageBytes
        BY <1>2, HalfInside
      <4>2. pages' * PageBytes = n * PageBytes
        BY <3>1
      <4>. QED  BY ONLY <3>2, <4>1, <4>2, Zenon
    <3>4. \A a, b \in Nat : a <= b => \A k \in 0 .. a - 1 : k \in 0 .. b - 1
      OBVIOUS
    <3>5. pages' * PageBytes \in Nat
      <4>1. pages' * PageBytes = n * PageBytes
        BY <3>1
      <4>. QED  BY ONLY <3>1, <4>1, Zenon
    <3>. QED  BY ONLY <3>3, <3>4, <3>5, Zenon
  <2>. QED  BY <2>1, <2>2, <2>3, <2>4 DEF BytesWritten
<1>. QED  BY <1>3, <1>4, <1>5 DEF RandInv

LEMMA MapFileStep ==
    ASSUME RandInv, MapFile
    PROVE  RandInv'
<1>1. npc = "map" /\ UNCHANGED <<pages, fits, trouble, runs>>
  BY DEF MapFile
<1>2. /\ Mine = {} /\ pass \in Nat /\ file \in Nat /\ fits \in Nat /\ pages \in Nat /\ file <= fits
      /\ writers \subseteq [id : {0, 1}, pass : Nat, file : Nat, base : Nat, left : Nat]
      /\ runs \in [0 .. fits - 1 -> [0 .. pages * PageBytes - 1 -> Nat]]
  BY <1>1, ThreadsThere DEF RandInv, RandTypeOK
<1>3. HalfEnd' = HalfEnd /\ \A i : BaseOf(i)' = BaseOf(i) /\ ShareOf(i)' = ShareOf(i)
  BY <1>1 DEF HalfEnd, BaseOf, ShareOf
<1>4. CASE file < fits
  <2>1. npc' = "fill" /\ UNCHANGED <<pass, file, writers>>
    BY <1>4 DEF MapFile
  <2>2. Mine' = Mine
    BY <2>1 DEF Mine
  <2>3. RandTypeOK'
    BY <1>1, <1>2, <1>4, <2>1 DEF RandTypeOK
  <2>4. ThreadsKnown'
    BY <1>1, <1>2, <1>3, <2>1, <2>2 DEF RandInv, ThreadsKnown, InSlice
  <2>5. BytesWritten'
    BY <1>1, <1>2, <1>3, <2>1, <2>2 DEF RandInv, BytesWritten
  <2>. QED  BY <2>3, <2>4, <2>5 DEF RandInv
<1>5. CASE ~(file < fits)
  <2>1. /\ file' = 0 /\ pass' = pass + 1 /\ npc' \in {"done", "map"}
        /\ npc' = "done" => pass' = Passes
        /\ \A w \in writers' : w \in writers
    BY <1>5 DEF MapFile
  <2>2. file = fits
    BY <1>2, <1>5
  <2>3. \A w \in writers' : w.pass < pass'
    BY <1>2, <2>1, ThreadsThere
  <2>4. Mine' = {}
    <3>1. \A w \in Mine' : w \in writers' /\ w.pass = pass'
      BY DEF Mine
    <3>. QED  BY <1>2, <2>1, <2>3, <3>1
  <2>5. RandTypeOK'
    BY <1>1, <1>2, <2>1 DEF RandTypeOK
  <2>6. ThreadsKnown'
    <3>1. trouble' \/ writers' = {}
      BY <1>1, <1>2, <2>1 DEF RandInv, ThreadsKnown
    <3>2. \A w \in writers' : InSlice(w)' /\ w.file < fits'
      BY <1>1, <1>3, <2>1 DEF RandInv, ThreadsKnown, InSlice
    <3>3. \A v, w \in writers' : v.id = w.id /\ v.pass = w.pass /\ v.file = w.file => v = w
      BY <2>1 DEF RandInv, ThreadsKnown
    <3>. QED  BY <2>1, <2>3, <2>4, <3>1, <3>2, <3>3 DEF ThreadsKnown
  <2>7. BytesWritten'
    <3>1. SUFFICES ASSUME ~trouble, NEW f \in 0 .. fits - 1, NEW k \in 0 .. HalfEnd - 1
                   PROVE  runs[f][k] >= pass + 1 /\ ~(f < 0)
      BY <1>1, <1>3, <2>1, <2>4 DEF BytesWritten
    <3>2. f < file /\ ~(f < 0)
      BY <1>2, <2>2
    <3>. QED  BY <1>1, <3>1, <3>2 DEF RandInv, BytesWritten
  <2>. QED  BY <2>5, <2>6, <2>7 DEF RandInv
<1>. QED  BY <1>4, <1>5

LEMMA GenRandStep ==
    ASSUME RandInv, GenRand
    PROVE  RandInv'
<1>1. /\ npc = "fill" /\ npc' = "create" /\ trouble' \in {trouble, TRUE}
      /\ UNCHANGED <<pages, fits, pass, file, writers, runs>>
  BY DEF GenRand
<1>2. Mine = {} /\ Mine' = Mine
  BY <1>1, ThreadsThere DEF Mine
<1>3. HalfEnd' = HalfEnd /\ \A i : BaseOf(i)' = BaseOf(i) /\ ShareOf(i)' = ShareOf(i)
  BY <1>1 DEF HalfEnd, BaseOf, ShareOf
<1>4. ~trouble' => ~trouble
  BY <1>1
<1>5. RandTypeOK'
  BY <1>1 DEF RandInv, RandTypeOK
<1>6. ThreadsKnown'
  BY <1>1, <1>2, <1>3, <1>4 DEF RandInv, ThreadsKnown, InSlice
<1>7. BytesWritten'
  BY <1>1, <1>2, <1>3, <1>4 DEF RandInv, BytesWritten
<1>. QED  BY <1>5, <1>6, <1>7 DEF RandInv

LEMMA CreateFailsStep ==
    ASSUME RandInv, CreateFails
    PROVE  RandInv'
<1>1. /\ npc = "create" /\ npc' = "map" /\ trouble' = TRUE /\ file' = file + 1
      /\ UNCHANGED <<pages, fits, pass, writers, runs>>
  BY DEF CreateFails
<1>2. HalfEnd' = HalfEnd /\ \A i : BaseOf(i)' = BaseOf(i) /\ ShareOf(i)' = ShareOf(i)
  BY <1>1 DEF HalfEnd, BaseOf, ShareOf
<1>3. file \in Nat /\ fits \in Nat /\ file < fits /\ pass \in Nat
  BY <1>1 DEF RandInv, RandTypeOK
<1>4. RandTypeOK'
  BY <1>1, <1>3 DEF RandInv, RandTypeOK
<1>5. ThreadsKnown'
  <2>1. \A w \in writers : w.pass < pass \/ (w.pass = pass /\ w.file < file + 1)
    BY <1>3, ThreadsThere DEF Mine
  <2>2. \A w \in writers : InSlice(w)' /\ w.file < fits'
    BY <1>1, <1>2 DEF RandInv, ThreadsKnown, InSlice
  <2>. QED  BY <1>1, <2>1, <2>2 DEF RandInv, ThreadsKnown
<1>6. BytesWritten'
  BY <1>1, <1>2 DEF RandInv, BytesWritten
<1>. QED  BY <1>4, <1>5, <1>6 DEF RandInv

LEMMA JoinStep ==
    ASSUME RandInv, Join
    PROVE  RandInv'
<1>1. /\ npc = "join" /\ npc' = "map" /\ file' = file + 1 /\ writers' = writers \ Mine
      /\ \A w \in Mine : w.left = 0
      /\ UNCHANGED <<pages, fits, pass, trouble, runs>>
  BY DEF Join
<1>2. HalfEnd' = HalfEnd /\ \A i : BaseOf(i)' = BaseOf(i) /\ ShareOf(i)' = ShareOf(i)
  BY <1>1 DEF HalfEnd, BaseOf, ShareOf
<1>3. file \in Nat /\ fits \in Nat /\ file < fits /\ pass \in Nat /\ pages \in Nat
  BY <1>1 DEF RandInv, RandTypeOK
<1>4. \A w \in writers' : w \in writers /\ (w.pass < pass \/ (w.pass = pass /\ w.file < file))
  BY <1>1, ThreadsThere
<1>5. Mine' = {}
  <2>1. \A w \in Mine' : w \in writers' /\ w.pass = pass /\ w.file = file + 1
    BY <1>1 DEF Mine
  <2>. QED  BY <1>3, <1>4, <2>1
<1>6. RandTypeOK'
  BY <1>1, <1>3 DEF RandInv, RandTypeOK
<1>7. ThreadsKnown'
  <2>1. \A w \in writers' : w.pass < pass' \/ (w.pass = pass' /\ w.file < file')
    BY <1>1, <1>3, <1>4, ThreadsThere
  <2>2. \A w \in writers' : InSlice(w)' /\ w.file < fits'
    BY <1>1, <1>2, <1>4 DEF RandInv, ThreadsKnown, InSlice
  <2>3. ~trouble' => writers' = {}
    BY <1>1 DEF RandInv, ThreadsKnown
  <2>4. \A v, w \in writers' : v.id = w.id /\ v.pass = w.pass /\ v.file = w.file => v = w
    BY <1>4 DEF RandInv, ThreadsKnown
  <2>. QED  BY <1>1, <1>5, <2>1, <2>2, <2>3, <2>4 DEF ThreadsKnown
<1>8. BytesWritten'
  <2>1. SUFFICES ASSUME ~trouble, NEW f \in 0 .. fits - 1, NEW k \in 0 .. HalfEnd - 1
                 PROVE  /\ runs[f][k] >= pass
                        /\ f < file + 1 => runs[f][k] >= pass + 1
    BY <1>1, <1>2, <1>5 DEF BytesWritten
  <2>2. /\ runs[f][k] >= pass
        /\ f < file => runs[f][k] >= pass + 1
        /\ f = file /\ (\E w \in Mine : BaseOf(w.id) <= k /\ k < w.base) =>
              runs[f][k] >= pass + 1
    BY <1>1, <2>1 DEF RandInv, BytesWritten
  <2>3. f \in Int /\ (f < file + 1 => f < file \/ f = file)
    BY <1>3
  <2>4. \E w \in Mine : BaseOf(w.id) <= k /\ k < w.base
    <3>1. BaseOf(0) = 0 /\ ShareOf(0) \in Nat /\ HalfEnd \in Nat
          /\ HalfEnd = BaseOf(0) + ShareOf(0) * PageBytes
      BY <1>3, Slices
    <3>2. PICK w \in Mine : w.id = 0
      BY <1>1 DEF RandInv, ThreadsKnown
    <3>3. w.left = 0 /\ w.base = BaseOf(0) + (ShareOf(0) - w.left) * PageBytes
      BY <1>1, <3>2 DEF RandInv, ThreadsKnown, InSlice, Mine
    <3>4. w.base = HalfEnd
      BY <3>1, <3>3
    <3>5. 0 <= k /\ k < HalfEnd
      BY <3>1
    <3>. QED  BY <3>1, <3>2, <3>4, <3>5
  <2>. QED  BY <2>2, <2>3, <2>4
<1>. QED  BY <1>6, <1>7, <1>8 DEF RandInv

\* The next thread gets the slice that no thread of this file has.
LEMMA CreateWriterStep ==
    ASSUME RandInv, CreateWriter
    PROVE  RandInv'
<1>. DEFINE i == Cardinality(Mine)
            n == [id |-> i, pass |-> pass, file |-> file, base |-> BaseOf(i), left |-> ShareOf(i)]
<1>1. /\ npc = "create" /\ writers' = writers \cup {n}
      /\ npc' = IF i + 1 = Threads THEN "join" ELSE "create"
      /\ UNCHANGED <<pages, fits, pass, file, trouble, runs>>
  BY DEF CreateWriter
<1>2. /\ file \in Nat /\ fits \in Nat /\ file < fits /\ pass \in Nat /\ pages \in Nat
      /\ writers \subseteq [id : {0, 1}, pass : Nat, file : Nat, base : Nat, left : Nat]
  BY <1>1 DEF RandInv, RandTypeOK
<1>3. \A v, w \in Mine : v = w /\ w.id = 0
  BY <1>1 DEF RandInv, ThreadsKnown, Mine
<1>4. (Mine = {} /\ i = 0) \/ ((\E w \in Mine : w.id = 0) /\ i = 1)
  <2>1. CASE Mine = {}
    BY <2>1, FS_EmptySet
  <2>2. CASE Mine # {}
    <3>1. PICK w \in Mine : Mine = {w}
      BY <1>3, <2>2
    <3>. QED  BY <1>3, <3>1, FS_Singleton
  <2>. QED  BY <2>1, <2>2
<1>5. i \in {0, 1} /\ (\A w \in Mine : w.id # i)
  BY <1>3, <1>4
<1>. HIDE DEF i
<1>6. BaseOf(i) \in Nat /\ ShareOf(i) \in Nat
  BY <1>2, <1>5, Slices
<1>7. /\ n \in [id : {0, 1}, pass : Nat, file : Nat, base : Nat, left : Nat]
      /\ n.id = i /\ n.pass = pass /\ n.file = file /\ n.base = BaseOf(i) /\ n.left = ShareOf(i)
  BY <1>2, <1>5, <1>6
<1>. HIDE DEF n
<1>8. Mine' = Mine \cup {n}
  BY <1>1, <1>7 DEF Mine
<1>9. HalfEnd' = HalfEnd /\ \A j : BaseOf(j)' = BaseOf(j) /\ ShareOf(j)' = ShareOf(j)
  BY <1>1 DEF HalfEnd, BaseOf, ShareOf
<1>10. npc' \in {"create", "join"} /\ (npc' = "create" => i = 0) /\ (npc' = "join" => i = 1)
  BY <1>1, <1>5 DEF Threads
<1>11. RandTypeOK'
  BY <1>1, <1>2, <1>7, <1>10 DEF RandInv, RandTypeOK
<1>12. ThreadsKnown'
  <2>1. \A w \in writers : InSlice(w)' /\ w.file < fits'
    BY <1>1, <1>9 DEF RandInv, ThreadsKnown, InSlice
  <2>2. \A v : v = n => InSlice(v)' /\ v.file < fits'
    <3>1. (ShareOf(i) - ShareOf(i)) * PageBytes = 0
      BY <1>6, RandAssumption
    <3>. QED  BY <1>1, <1>2, <1>6, <1>7, <1>9, <3>1 DEF InSlice
  <2>3. \A v, w \in writers' : v.id = w.id /\ v.pass = w.pass /\ v.file = w.file => v = w
    <3>1. \A w \in writers : ~(w.id = n.id /\ w.pass = n.pass /\ w.file = n.file)
      BY <1>5, <1>7 DEF Mine
    <3>. QED  BY <1>1, <3>1 DEF RandInv, ThreadsKnown
  <2>4. \A w \in writers' : \/ w.pass < pass'
                            \/ w.pass = pass' /\ w.file < file'
                            \/ w \in Mine' /\ npc' \in {"create", "join"}
    BY <1>1, <1>8, <1>10 DEF RandInv, ThreadsKnown
  <2>5. ~trouble' => \A w \in writers' : w \in Mine'
    BY <1>1, <1>8 DEF RandInv, ThreadsKnown
  <2>6. npc' = "create" => \A w \in Mine' : w.id = 0
    BY <1>3, <1>7, <1>8, <1>10
  <2>7. npc' = "join" => \A j \in {0, 1} : \E w \in Mine' : w.id = j
    BY <1>4, <1>7, <1>8, <1>10
  <2>. QED  BY <1>1, <2>1, <2>2, <2>3, <2>4, <2>5, <2>6, <2>7 DEF ThreadsKnown
<1>13. BytesWritten'
  <2>1. SUFFICES ASSUME ~trouble, NEW f \in 0 .. fits - 1, NEW k \in 0 .. HalfEnd - 1
                 PROVE  /\ runs[f][k] >= pass
                        /\ f < file => runs[f][k] >= pass + 1
                        /\ f = file /\ (\E w \in Mine' : BaseOf(w.id) <= k /\ k < w.base) =>
                              runs[f][k] >= pass + 1
    BY <1>1, <1>9 DEF BytesWritten
  <2>2. /\ runs[f][k] >= pass
        /\ f < file => runs[f][k] >= pass + 1
        /\ f = file /\ (\E w \in Mine : BaseOf(w.id) <= k /\ k < w.base) =>
              runs[f][k] >= pass + 1
    BY <1>1, <2>1 DEF RandInv, BytesWritten
  <2>3. ~(BaseOf(n.id) <= k /\ k < n.base)
    <3>1. HalfEnd \in Nat
      BY <1>2, Slices
    <3>. QED  BY <1>6, <1>7, <3>1
  <2>. QED  BY <1>8, <2>2, <2>3
<1>. QED  BY <1>11, <1>12, <1>13 DEF RandInv

\* A thread writes the next page of its slice.
LEMMA WritePageStep ==
    ASSUME RandInv, NEW w \in writers, WritePage(w)
    PROVE  RandInv'
<1>. DEFINE n == [w EXCEPT !.base = @ + PageBytes, !.left = @ - 1]
<1>1. /\ w.left > 0 /\ writers' = (writers \ {w}) \cup {n}
      /\ runs' = [runs EXCEPT ![w.file] = [k \in DOMAIN @ |->
                    @[k] + IF k \in w.base .. w.base + PageBytes - 1 THEN 1 ELSE 0]]
      /\ UNCHANGED <<npc, pages, fits, pass, file, trouble>>
  BY DEF WritePage
<1>2. npc # "start"
  BY DEF RandInv, RandTypeOK
<1>3. /\ file \in Nat /\ fits \in Nat /\ pass \in Nat /\ pages \in Nat
      /\ writers \subseteq [id : {0, 1}, pass : Nat, file : Nat, base : Nat, left : Nat]
      /\ runs \in [0 .. fits - 1 -> [0 .. pages * PageBytes - 1 -> Nat]]
  BY <1>2 DEF RandInv, RandTypeOK
<1>4. /\ w.id \in {0, 1} /\ w.pass \in Nat /\ w.file \in Nat /\ w.base \in Nat /\ w.left \in Nat
      /\ w.file < fits /\ PageBytes \in Nat
  BY <1>3, RandAssumption DEF RandInv, ThreadsKnown
<1>5. /\ n \in [id : {0, 1}, pass : Nat, file : Nat, base : Nat, left : Nat]
      /\ n.id = w.id /\ n.pass = w.pass /\ n.file = w.file
      /\ n.base = w.base + PageBytes /\ n.left = w.left - 1
  <2>1. w \in [id : {0, 1}, pass : Nat, file : Nat, base : Nat, left : Nat]
    BY <1>3
  <2>2. /\ n.id = w.id /\ n.pass = w.pass /\ n.file = w.file
        /\ n.base = w.base + PageBytes /\ n.left = w.left - 1
    BY <2>1
  <2>3. w.base + PageBytes \in Nat /\ w.left - 1 \in Nat
    BY <1>1, <1>4
  <2>4. n \in [id : {0, 1}, pass : Nat, file : Nat, base : Nat, left : Nat]
    BY <2>1, <2>3
  <2>. QED  BY <2>2, <2>4
<1>. HIDE DEF n
<1>6. /\ w.left <= ShareOf(w.id)
      /\ w.base = BaseOf(w.id) + (ShareOf(w.id) - w.left) * PageBytes
  BY DEF RandInv, ThreadsKnown, InSlice
<1>7. /\ w.base + PageBytes <= pages * PageBytes
      /\ w.base + PageBytes = BaseOf(w.id) + (ShareOf(w.id) - (w.left - 1)) * PageBytes
  BY <1>1, <1>3, <1>4, <1>6, InSliceKnown
<1>8. ShareOf(w.id) \in Nat /\ HalfEnd \in Nat /\ HalfEnd <= pages * PageBytes
  BY <1>3, <1>4, Slices
<1>9. HalfEnd' = HalfEnd /\ \A j : BaseOf(j)' = BaseOf(j) /\ ShareOf(j)' = ShareOf(j)
  BY <1>1 DEF HalfEnd, BaseOf, ShareOf
<1>10. /\ n \in Mine' <=> w \in Mine
       /\ \A v : v # n => (v \in Mine' <=> v \in Mine /\ v # w)
  BY <1>1, <1>5 DEF Mine
<1>11. n # w
  BY <1>1, <1>4, <1>5
<1>12. /\ runs' \in [0 .. fits - 1 -> [0 .. pages * PageBytes - 1 -> Nat]]
       /\ \A f \in 0 .. fits - 1, k \in 0 .. pages * PageBytes - 1 :
             runs'[f][k] = IF f = w.file /\ w.base <= k /\ k < w.base + PageBytes
                           THEN runs[f][k] + 1 ELSE runs[f][k]
  <2>. DEFINE B == 0 .. pages * PageBytes - 1
              r == [k \in B |->
                      runs[w.file][k] + IF k \in w.base .. w.base + PageBytes - 1 THEN 1 ELSE 0]
  <2>1. w.file \in 0 .. fits - 1 /\ runs[w.file] \in [B -> Nat] /\ B \subseteq Int
    <3>1. pages * PageBytes \in Nat
      BY <1>3, <1>4
    <3>. QED  BY <1>3, <1>4, <3>1
  <2>. HIDE DEF B
  <2>2. runs' = [runs EXCEPT ![w.file] = r]
    BY <1>1, <2>1
  <2>3. \A k \in B :
           k \in w.base .. w.base + PageBytes - 1 <=> w.base <= k /\ k < w.base + PageBytes
    BY <1>4, <2>1
  <2>4. r \in [B -> Nat]
    <3>1. \A k \in B : runs[w.file][k] \in Nat
      BY <2>1
    <3>2. \A k \in B : r[k] \in Nat
      BY <3>1
    <3>. QED  BY <3>2
  <2>5. \A k \in B :
           r[k] = IF w.base <= k /\ k < w.base + PageBytes
                  THEN runs[w.file][k] + 1 ELSE runs[w.file][k]
    <3>1. \A k \in B : runs[w.file][k] \in Nat
      BY <2>1
    <3>. QED  BY <2>3, <3>1
  <2>. HIDE DEF r
  <2>6. runs \in [0 .. fits - 1 -> [B -> Nat]]
    BY <1>3 DEF B
  <2>7. /\ runs' \in [0 .. fits - 1 -> [B -> Nat]]
        /\ \A f \in 0 .. fits - 1, k \in B :
              runs'[f][k] = IF f = w.file /\ w.base <= k /\ k < w.base + PageBytes
                            THEN runs[f][k] + 1 ELSE runs[f][k]
    BY <2>1, <2>2, <2>4, <2>5, <2>6
  <2>. QED  BY <2>7 DEF B
<1>13. RandTypeOK'
  BY <1>1, <1>2, <1>3, <1>5, <1>12 DEF RandInv, RandTypeOK
<1>14. ThreadsKnown'
  <2>1. \A v \in writers : InSlice(v)' /\ v.file < fits'
    BY <1>1, <1>9 DEF RandInv, ThreadsKnown, InSlice
  <2>2. \A v : v = n => InSlice(v)' /\ v.file < fits'
    <3>1. n.left <= ShareOf(n.id)
      BY <1>4, <1>5, <1>6, <1>8
    <3>2. n.base = BaseOf(n.id) + (ShareOf(n.id) - n.left) * PageBytes
      BY <1>5, <1>7
    <3>. QED  BY <1>1, <1>4, <1>5, <1>9, <3>1, <3>2 DEF InSlice
  <2>3. \A v, u \in writers' : v.id = u.id /\ v.pass = u.pass /\ v.file = u.file => v = u
    BY <1>1, <1>5 DEF RandInv, ThreadsKnown
  <2>4. \A v \in writers' : \/ v.pass < pass'
                            \/ v.pass = pass' /\ v.file < file'
                            \/ v \in Mine' /\ npc' \in {"create", "join"}
    BY <1>1, <1>5, <1>10 DEF RandInv, ThreadsKnown
  <2>5. ~trouble' => \A v \in writers' : v \in Mine'
    BY <1>1, <1>10 DEF RandInv, ThreadsKnown
  <2>6. npc' = "create" => \A v \in Mine' : v.id = 0
    BY <1>1, <1>5, <1>10 DEF RandInv, ThreadsKnown
  <2>7. npc' = "join" => \A j \in {0, 1} : \E v \in Mine' : v.id = j
    <3>1. SUFFICES ASSUME npc = "join", NEW j \in {0, 1}
                   PROVE  \E v \in Mine' : v.id = j
      BY <1>1
    <3>2. PICK v \in Mine : v.id = j
      BY <3>1 DEF RandInv, ThreadsKnown
    <3>3. CASE v = w
      BY <1>5, <1>10, <3>2, <3>3
    <3>4. CASE v # w
      <4>1. v # n
        BY <1>5, <1>11, <3>4 DEF RandInv, ThreadsKnown, Mine
      <4>. QED  BY <1>10, <3>2, <3>4, <4>1
    <3>. QED  BY <3>3, <3>4
  <2>. QED  BY <1>1, <2>1, <2>2, <2>3, <2>4, <2>5, <2>6, <2>7 DEF ThreadsKnown
<1>15. BytesWritten'
  <2>1. SUFFICES ASSUME ~trouble, NEW f \in 0 .. fits - 1, NEW k \in 0 .. HalfEnd - 1
                 PROVE  /\ runs'[f][k] >= pass
                        /\ f < file => runs'[f][k] >= pass + 1
                        /\ f = file /\ (\E v \in Mine' : BaseOf(v.id) <= k /\ k < v.base) =>
                              runs'[f][k] >= pass + 1
    BY <1>1, <1>9 DEF BytesWritten
  <2>2. /\ runs[f][k] >= pass
        /\ f < file => runs[f][k] >= pass + 1
        /\ f = file /\ (\E v \in Mine : BaseOf(v.id) <= k /\ k < v.base) =>
              runs[f][k] >= pass + 1
    BY <1>2, <2>1 DEF RandInv, BytesWritten
  <2>3. /\ runs'[f][k] = IF f = w.file /\ w.base <= k /\ k < w.base + PageBytes
                         THEN runs[f][k] + 1 ELSE runs[f][k]
        /\ runs[f][k] \in Nat /\ runs'[f][k] \in Nat /\ k \in Int
    <3>1. pages * PageBytes \in Nat
      BY <1>3, <1>4
    <3>2. k \in Int /\ k \in 0 .. pages * PageBytes - 1
      BY <1>8, <3>1
    <3>3. runs[f][k] \in Nat
      BY <1>3, <3>2
    <3>4. runs'[f][k] \in Nat
      BY <1>12, <3>2
    <3>. QED  BY <1>12, <3>2, <3>3, <3>4
  <2>5. runs'[f][k] >= runs[f][k]
    BY <2>3
  <2>6. ASSUME f = file, NEW v \in Mine', BaseOf(v.id) <= k, k < v.base
        PROVE  runs'[f][k] >= pass + 1
    <3>1. CASE v = n
      <4>1. w \in Mine /\ w.file = file
        BY <1>10, <3>1 DEF Mine
      <4>2. BaseOf(w.id) <= k /\ k < w.base + PageBytes
        BY <1>5, <2>6, <3>1
      <4>3. k < w.base => runs[f][k] >= pass + 1
        BY <2>2, <2>6, <4>1, <4>2
      <4>4. ~(k < w.base) => runs'[f][k] = runs[f][k] + 1 /\ runs[f][k] >= pass
        BY <1>4, <2>2, <2>3, <2>6, <4>1, <4>2
      <4>. QED  BY ONLY <1>3, <2>3, <2>5, <4>3, <4>4
    <3>2. CASE v # n
      <4>1. v \in Mine
        BY <1>10, <3>2
      <4>2. runs[f][k] >= pass + 1
        BY <2>2, <2>6, <4>1
      <4>. QED  BY ONLY <1>3, <2>3, <2>5, <4>2
    <3>. QED  BY <3>1, <3>2
  <2>7. runs'[f][k] >= pass /\ (f < file => runs'[f][k] >= pass + 1)
    BY ONLY <1>3, <2>2, <2>3, <2>5
  <2>. QED  BY <2>6, <2>7
<1>. QED  BY <1>13, <1>14, <1>15 DEF RandInv

\* RandInv is an inductive invariant of main and of its threads.
THEOREM RandInvariant == RandSpec => []RandInv
<1>1. RandInit => RandInv
  BY DEF RandInit, RandInv, RandTypeOK, ThreadsKnown, BytesWritten, Mine
<1>2. RandInv /\ [RandNext]_randVars => RandInv'
  <2>1. SUFFICES ASSUME RandInv, [RandNext]_randVars
                 PROVE  RandInv'
    OBVIOUS
  <2>2. CASE UNCHANGED randVars
    <3>1. UNCHANGED <<npc, pages, fits, pass, file, writers, trouble, runs>>
      BY <2>2 DEF randVars
    <3>2. HalfEnd' = HalfEnd /\ Mine' = Mine
      BY <3>1 DEF HalfEnd, Mine
    <3>3. \A i : BaseOf(i)' = BaseOf(i) /\ ShareOf(i)' = ShareOf(i)
      BY <3>1 DEF BaseOf, ShareOf
    <3>4. RandTypeOK'
      BY <2>1, <3>1 DEF RandInv, RandTypeOK
    <3>5. ThreadsKnown'
      BY <2>1, <3>1, <3>2, <3>3 DEF RandInv, ThreadsKnown, InSlice
    <3>6. BytesWritten'
      BY <2>1, <3>1, <3>2, <3>3 DEF RandInv, BytesWritten
    <3>. QED  BY <3>4, <3>5, <3>6 DEF RandInv
  <2>. QED
    BY <2>1, <2>2, RandStartStep, MapFileStep, GenRandStep, CreateWriterStep, CreateFailsStep,
       JoinStep, WritePageStep DEF RandNext
<1>. QED  BY <1>1, <1>2, PTL DEF RandSpec

\* For every size of the mapping and of a page and every number of files: the
\* threads of write_4k_num stay inside the mapping, none outlives its call unless
\* a thread could not be created, and when main ends without such trouble every
\* byte of the first half of every file was overwritten in all three passes.
THEOREM FirstHalfOverwritten == RandSpec => []HalfOverwritten
<1>1. RandInv => HalfOverwritten
  <2>1. SUFFICES ASSUME RandInv
                 PROVE  HalfOverwritten
    OBVIOUS
  <2>2. pages \in Nat
    BY <2>1 DEF RandInv, RandTypeOK
  <2>3. ASSUME NEW w \in writers
        PROVE  w.base + w.left * PageBytes <= pages * PageBytes
    <3>1. /\ w.id \in {0, 1} /\ w.left \in Nat /\ w.left <= ShareOf(w.id)
          /\ w.base = BaseOf(w.id) + (ShareOf(w.id) - w.left) * PageBytes
      BY <2>1, ThreadsThere DEF RandInv, ThreadsKnown, InSlice
    <3>. QED  BY <2>2, <3>1, InSliceKnown
  <2>4. ASSUME ~trouble, NEW w \in writers
        PROVE  npc \in {"create", "join"} /\ w.file = file /\ w.pass = pass
    <3>1. w \in Mine
      BY <2>1, <2>4 DEF RandInv, ThreadsKnown
    <3>2. npc \in {"create", "join"}
      BY <2>1, <3>1, ThreadsThere
    <3>. QED  BY <3>1, <3>2 DEF Mine
  <2>5. ASSUME npc = "done", ~trouble, NEW f \in DOMAIN runs, NEW k \in 0 .. HalfEnd - 1
        PROVE  runs[f][k] >= Passes
    <3>1. /\ runs \in [0 .. fits - 1 -> [0 .. pages * PageBytes - 1 -> Nat]] /\ pass = Passes
      BY <2>1, <2>5 DEF RandInv, RandTypeOK
    <3>2. f \in 0 .. fits - 1
      BY <3>1
    <3>. QED  BY <2>1, <2>5, <3>1, <3>2 DEF RandInv, BytesWritten
  <2>. QED  BY <2>3, <2>4, <2>5 DEF HalfOverwritten
<1>. QED  BY <1>1, RandInvariant, PTL

-----------------------------------------------------------------------------
(* Crc.  The register and the long division both leave the dividend minus  *)
(* a multiple of the polynomial, and of all multiples only one leaves      *)
(* nothing in the bits of the message.                                     *)

LEMMA UpTo ==
    ASSUME NEW n \in Nat, NEW G, 0 \in G, \A i \in 0 .. n - 1 : i \in G => i + 1 \in G
    PROVE  \A i \in 0 .. n : i \in G
<1>. DEFINE B == {i \in 0 .. n : i \notin G}
<1>. SUFFICES ASSUME B # {}
              PROVE  FALSE
  OBVIOUS
<1>1. B \subseteq Nat
  OBVIOUS
<1>2. PICK m \in B : \A k \in B : ~(<<k, m>> \in OpToRel(<, Nat))
  BY <1>1, NatLessThanWellFounded, WFMin
<1>3. m \in 0 .. n /\ m \notin G /\ m # 0
  OBVIOUS
<1>4. m - 1 \notin B
  <2>1. m - 1 \in Nat /\ m \in Nat /\ m - 1 < m
    BY <1>3
  <2>2. <<m - 1, m>> \in OpToRel(<, Nat)
    BY <2>1 DEF OpToRel
  <2>. QED  BY <1>2, <2>2
<1>5. m - 1 \in G
  BY <1>3, <1>4
<1>. QED  BY <1>3, <1>5

\* n applications of functions, one after the other, begin with s.
Iterates(f, F, s, n) == f[0] = s /\ \A i \in 1 .. n : f[i] = F[i][f[i - 1]]

LEMMA Iterated ==
    ASSUME NEW n \in Nat, NEW S, NEW s \in S, NEW F \in [1 .. n -> [S -> S]]
    PROVE  \E f \in [0 .. n -> S] : Iterates(f, F, s, n)
<1>. DEFINE G == {m \in 0 .. n : \E f \in [0 .. m -> S] : Iterates(f, F, s, m)}
<1>1. 0 \in G
  <2>1. [i \in 0 .. 0 |-> s] \in [0 .. 0 -> S] /\ Iterates([i \in 0 .. 0 |-> s], F, s, 0)
    BY DEF Iterates
  <2>2. \E f \in [0 .. 0 -> S] : Iterates(f, F, s, 0)
    BY <2>1
  <2>. QED  BY <2>2
<1>2. ASSUME NEW m \in 0 .. n - 1, m \in G
      PROVE  m + 1 \in G
  <2>1. PICK f \in [0 .. m -> S] : Iterates(f, F, s, m)
    BY <1>2
  <2>. DEFINE g == [i \in 0 .. m + 1 |-> IF i = m + 1 THEN F[m + 1][f[m]] ELSE f[i]]
  <2>2. F[m + 1] \in [S -> S] /\ f[m] \in S
    OBVIOUS
  <2>3. g \in [0 .. m + 1 -> S]
    BY <2>2
  <2>4. g[0] = s
    BY <2>1 DEF Iterates
  <2>5. ASSUME NEW i \in 1 .. m + 1
        PROVE  g[i] = F[i][g[i - 1]]
    <3>1. CASE i = m + 1
      BY <3>1
    <3>2. CASE i \in 1 .. m
      BY <2>1, <3>2 DEF Iterates
    <3>. QED  BY <3>1, <3>2
  <2>6. Iterates(g, F, s, m + 1)
    BY <2>4, <2>5 DEF Iterates
  <2>7. \E h \in [0 .. m + 1 -> S] : Iterates(h, F, s, m + 1)
    <3>. HIDE DEF g
    <3>. QED  BY <2>3, <2>6
  <2>. QED  BY <2>7
<1>3. n \in G
  <2>. HIDE DEF G
  <2>1. \A m \in 0 .. n - 1 : m \in G => m + 1 \in G
    BY <1>2
  <2>2. \A m \in 0 .. n : m \in G
    BY <1>1, <2>1, UpTo
  <2>. QED  BY <2>2
<1>. QED  BY <1>3

\* The bit that changes places with bit c.
Swapped(c, k) == IF (c \div k) % 2 = 1 THEN c - k ELSE c + k

LEMMA SwappedTwice ==
    ASSUME NEW k \in {1, 2, 4, 8, 16}, NEW c \in 0 .. 31
    PROVE  /\ Swapped(c, k) \in 0 .. 31 /\ Swapped(Swapped(c, k), k) = c
           /\ (c \div k) % 2 = 1 => c >= k /\ (Swapped(c, k) \div k) % 2 # 1
           /\ (c \div k) % 2 # 1 => (Swapped(c, k) \div k) % 2 = 1
<1>1. CASE k = 1   BY <1>1 DEF Swapped
<1>2. CASE k = 2   BY <1>2 DEF Swapped
<1>3. CASE k = 4   BY <1>3 DEF Swapped
<1>4. CASE k = 8   BY <1>4 DEF Swapped
<1>5. CASE k = 16  BY <1>5 DEF Swapped
<1>. QED  BY <1>1, <1>2, <1>3, <1>4, <1>5

LEMMA SwapFieldsBits ==
    ASSUME NEW k \in {1, 2, 4, 8, 16}, NEW w, w \subseteq 0 .. 31
    PROVE  /\ SwapFields(w, k) \subseteq 0 .. 31
           /\ \A c \in 0 .. 31 : c \in SwapFields(w, k) <=> Swapped(c, k) \in w
<1>. DEFINE high == {b \in w : (b \div k) % 2 = 1}
<1>1. \A b \in w : b \in Nat /\ k \in Nat
  OBVIOUS
<1>2. ASSUME NEW b \in high
      PROVE  b >= k /\ b - k = Swapped(b, k)
  BY SwappedTwice DEF Swapped
<1>3. ASSUME NEW b \in w \ high
      PROVE  b + k < 32 /\ b + k = Swapped(b, k)
  BY SwappedTwice DEF Swapped
<1>4. ShiftRight(high, k) = {Swapped(b, k) : b \in high}
  BY <1>2 DEF ShiftRight
<1>5. ShiftLeft(w \ high, k, 32) = {Swapped(b, k) : b \in w \ high}
  BY <1>3 DEF ShiftLeft
<1>6. SwapFields(w, k) = {Swapped(b, k) : b \in w}
  <2>. HIDE DEF high
  <2>1. high \subseteq w
    BY DEF high
  <2>2. SwapFields(w, k) = ShiftRight(high, k) \cup ShiftLeft(w \ high, k, 32)
    BY DEF SwapFields, high
  <2>. QED  BY <1>4, <1>5, <2>1, <2>2
<1>7. \A b \in w : Swapped(b, k) \in 0 .. 31 /\ Swapped(Swapped(b, k), k) = b
  BY SwappedTwice
<1>8. ASSUME NEW c \in 0 .. 31
      PROVE  c \in SwapFields(w, k) <=> Swapped(c, k) \in w
  <2>1. Swapped(Swapped(c, k), k) = c
    BY SwappedTwice
  <2>. QED  BY <1>6, <1>7, <2>1
<1>. QED  BY <1>6, <1>7, <1>8

\* Bit c of the reflected word is bit 31 - c of the word.
LEMMA SwappedFive ==
    ASSUME NEW c \in 0 .. 31
    PROVE  Swapped(Swapped(Swapped(Swapped(Swapped(c, 1), 2), 4), 8), 16) = 31 - c
BY DEF Swapped

LEMMA Reflected ==
    ASSUME NEW m \in 1 .. 32, NEW w, w \subseteq 0 .. m - 1
    PROVE  ReflectedData(w, m) = {m - 1 - b : b \in w}
<1>. DEFINE w1 == SwapFields(w, 16)
            w2 == SwapFields(w1, 8)
            w3 == SwapFields(w2, 4)
            w4 == SwapFields(w3, 2)
            w5 == SwapFields(w4, 1)
<1>1. w \subseteq 0 .. 31
  OBVIOUS
<1>2. w1 \subseteq 0 .. 31 /\ \A c \in 0 .. 31 : c \in w1 <=> Swapped(c, 16) \in w
  BY <1>1, SwapFieldsBits
<1>. HIDE DEF w1
<1>3. w2 \subseteq 0 .. 31 /\ \A c \in 0 .. 31 : c \in w2 <=> Swapped(c, 8) \in w1
  BY <1>2, SwapFieldsBits
<1>. HIDE DEF w2
<1>4. w3 \subseteq 0 .. 31 /\ \A c \in 0 .. 31 : c \in w3 <=> Swapped(c, 4) \in w2
  BY <1>3, SwapFieldsBits
<1>. HIDE DEF w3
<1>5. w4 \subseteq 0 .. 31 /\ \A c \in 0 .. 31 : c \in w4 <=> Swapped(c, 2) \in w3
  BY <1>4, SwapFieldsBits
<1>. HIDE DEF w4
<1>6. w5 \subseteq 0 .. 31 /\ \A c \in 0 .. 31 : c \in w5 <=> Swapped(c, 1) \in w4
  BY <1>5, SwapFieldsBits
<1>. HIDE DEF w5
<1>7. ASSUME NEW c \in 0 .. 31
      PROVE  c \in w5 <=> 31 - c \in w
  <2>1. Swapped(c, 1) \in 0 .. 31
    BY SwappedTwice
  <2>2. Swapped(Swapped(c, 1), 2) \in 0 .. 31
    BY <2>1, SwappedTwice
  <2>3. Swapped(Swapped(Swapped(c, 1), 2), 4) \in 0 .. 31
    BY <2>2, SwappedTwice
  <2>4. Swapped(Swapped(Swapped(Swapped(c, 1), 2), 4), 8) \in 0 .. 31
    BY <2>3, SwappedTwice
  <2>. QED  BY <1>2, <1>3, <1>4, <1>5, <1>6, <2>1, <2>2, <2>3, <2>4, SwappedFive
<1>8. ReflectedData(w, m) = ShiftRight(w5, 32 - m)
  BY DEF ReflectedData, w1, w2, w3, w4, w5
<1>9. ASSUME NEW x \in ShiftRight(w5, 32 - m)
      PROVE  x \in {m - 1 - b : b \in w}
  <2>1. PICK c \in w5 : c >= 32 - m /\ x = c - (32 - m)
    BY DEF ShiftRight
  <2>2. c \in 0 .. 31 /\ 31 - c \in w
    BY <1>6, <1>7
  <2>. QED  BY <2>1, <2>2
<1>10. ASSUME NEW b \in w
       PROVE  m - 1 - b \in ShiftRight(w5, 32 - m)
  <2>1. 31 - b \in 0 .. 31 /\ 31 - (31 - b) = b /\ 31 - b >= 32 - m
    OBVIOUS
  <2>2. 31 - b \in w5
    BY <1>7, <2>1
  <2>3. m - 1 - b = (31 - b) - (32 - m)
    OBVIOUS
  <2>. QED  BY <2>1, <2>2, <2>3 DEF ShiftRight
<1>. QED  BY <1>8, <1>9, <1>10

LEMMA DivisorKnown ==
    ASSUME NEW t \in CrcTypes, NEW i \in Nat
    PROVE  /\ t.width \in 4 .. 32 /\ t.poly \subseteq 0 .. t.width - 1
           /\ Divisor(t, i) \subseteq i .. i + t.width
           /\ i \in Divisor(t, i)
           /\ 0 \in t.poly => i + t.width \in Divisor(t, i)
<1>1. t.width \in 4 .. 32 /\ t.poly \subseteq 0 .. t.width - 1
  BY CrcAssumption
<1>. QED  BY <1>1 DEF Divisor

\* The product of the polynomial and the quotient q, by the parity of the
\* number of terms at each bit.
Terms(t, q, j) == {x \in q : j \in Divisor(t, x)}
Times(t, q) == {j \in Nat : Cardinality(Terms(t, q, j)) % 2 = 1}

LEMMA TermsFinite ==
    ASSUME NEW t, NEW q, IsFiniteSet(q), NEW j
    PROVE  IsFiniteSet(Terms(t, q, j))
<1>1. Terms(t, q, j) \subseteq q
  BY DEF Terms
<1>. QED  BY <1>1, FS_Subset

LEMMA ParityOfXor ==
    ASSUME NEW A, NEW B, IsFiniteSet(A), IsFiniteSet(B)
    PROVE  (Cardinality(SymDiff(A, B)) % 2 = 1)
             <=> ~(Cardinality(A) % 2 = 1 <=> Cardinality(B) % 2 = 1)
<1>. DEFINE C == SymDiff(A, B)
            M == A \cap B
<1>1. IsFiniteSet(C) /\ IsFiniteSet(M) /\ IsFiniteSet(A \cup B)
  <2>1. IsFiniteSet(A \cup B)
    BY FS_Union
  <2>2. C \subseteq A \cup B /\ M \subseteq A \cup B
    BY DEF SymDiff
  <2>. QED  BY <2>1, <2>2, FS_Subset
<1>2. Cardinality(A \cup B) = Cardinality(A) + Cardinality(B) - Cardinality(M)
  BY FS_Union
<1>3. Cardinality(A \cup B) = Cardinality(C) + Cardinality(M)
  <2>1. C \cup M = A \cup B /\ C \cap M = {}
    BY DEF SymDiff
  <2>. HIDE DEF C, M
  <2>2. Cardinality(C \cup M) = Cardinality(C) + Cardinality(M) - Cardinality(C \cap M)
    BY <1>1, FS_Union
  <2>3. Cardinality(C) \in Nat /\ Cardinality(M) \in Nat /\ Cardinality({}) = 0
    BY <1>1, FS_CardinalityType, FS_EmptySet
  <2>4. Cardinality(C \cup M) = Cardinality(A \cup B) /\ Cardinality(C \cap M) = 0
    BY <2>1, <2>3, Zenon
  <2>. QED  BY <2>2, <2>3, <2>4
<1>. HIDE DEF C, M
<1>4. /\ Cardinality(A) \in Nat /\ Cardinality(B) \in Nat
      /\ Cardinality(C) \in Nat /\ Cardinality(M) \in Nat
  BY <1>1, FS_CardinalityType
<1>5. \A a, b, c, m \in Nat :
         a + b - m = c + m => ((c % 2 = 1) <=> ~(a % 2 = 1 <=> b % 2 = 1))
  OBVIOUS
<1>6. (Cardinality(C) % 2 = 1) <=> ~(Cardinality(A) % 2 = 1 <=> Cardinality(B) % 2 = 1)
  BY <1>2, <1>3, <1>4, <1>5
<1>. QED  BY <1>6 DEF C

LEMMA TimesXor ==
    ASSUME NEW t, NEW p, NEW q, IsFiniteSet(p), IsFiniteSet(q)
    PROVE  Times(t, SymDiff(p, q)) = SymDiff(Times(t, p), Times(t, q))
<1>1. ASSUME NEW j \in Nat
      PROVE  j \in Times(t, SymDiff(p, q)) <=> ~(j \in Times(t, p) <=> j \in Times(t, q))
  <2>1. Terms(t, SymDiff(p, q), j) = SymDiff(Terms(t, p, j), Terms(t, q, j))
    BY DEF Terms, SymDiff
  <2>2. IsFiniteSet(Terms(t, p, j)) /\ IsFiniteSet(Terms(t, q, j))
    BY TermsFinite
  <2>3. (Cardinality(Terms(t, SymDiff(p, q), j)) % 2 = 1)
          <=> ~(Cardinality(Terms(t, p, j)) % 2 = 1 <=> Cardinality(Terms(t, q, j)) % 2 = 1)
    BY <2>1, <2>2, ParityOfXor
  <2>. QED  BY <2>3 DEF Times
<1>2. \A r : Times(t, r) \subseteq Nat
  BY DEF Times
<1>. QED  BY <1>1, <1>2 DEF SymDiff

LEMMA TimesNone ==
    ASSUME NEW t
    PROVE  Times(t, {}) = {}
<1>1. \A j : Terms(t, {}, j) = {}
  BY DEF Terms
<1>2. \A j : Cardinality(Terms(t, {}, j)) = 0
  BY <1>1, FS_EmptySet
<1>. QED  BY <1>2 DEF Times

LEMMA TimesOne ==
    ASSUME NEW t \in CrcTypes, NEW i \in Nat
    PROVE  Times(t, {i}) = Divisor(t, i)
<1>1. Divisor(t, i) \subseteq Nat
  BY DivisorKnown
<1>2. ASSUME NEW j \in Nat
      PROVE  j \in Times(t, {i}) <=> j \in Divisor(t, i)
  <2>1. CASE j \in Divisor(t, i)
    <3>1. Terms(t, {i}, j) = {i}
      BY <2>1 DEF Terms
    <3>2. Cardinality(Terms(t, {i}, j)) = 1
      BY <3>1, FS_Singleton
    <3>. QED  BY <2>1, <3>2 DEF Times
  <2>2. CASE j \notin Divisor(t, i)
    <3>1. Terms(t, {i}, j) = {}
      BY <2>2 DEF Terms
    <3>2. Cardinality(Terms(t, {i}, j)) = 0
      BY <3>1, FS_EmptySet
    <3>. QED  BY <2>2, <3>2 DEF Times
  <2>. QED  BY <2>1, <2>2
<1>. QED  BY <1>1, <1>2 DEF Times

LEMMA TimesSpan ==
    ASSUME NEW t \in CrcTypes, NEW n \in Nat, NEW q, q \subseteq 0 .. n - 1
    PROVE  Times(t, q) \subseteq 0 .. n + t.width - 1
<1>1. ASSUME NEW j \in Times(t, q)
      PROVE  \E x \in q : j \in Divisor(t, x)
  <2>1. Terms(t, q, j) # {}
    BY FS_EmptySet DEF Times
  <2>. QED  BY <2>1 DEF Terms
<1>2. ASSUME NEW j \in Times(t, q)
      PROVE  j \in 0 .. n + t.width - 1
  <2>1. PICK x \in q : j \in Divisor(t, x)
    BY <1>1
  <2>2. x \in 0 .. n - 1 /\ x \in Nat
    OBVIOUS
  <2>3. j \in x .. x + t.width /\ t.width \in Nat
    BY <2>1, <2>2, DivisorKnown
  <2>. QED  BY <2>2, <2>3
<1>. QED  BY <1>2

\* The ends of a product are the ends of the quotient.
LEMMA TimesEnds ==
    ASSUME NEW t \in CrcTypes, NEW n \in Nat, NEW q, q \subseteq 0 .. n - 1, q # {}
    PROVE  \E x, y \in q :
              /\ x <= y /\ x \in Times(t, q)
              /\ 0 \in t.poly => y + t.width \in Times(t, q)
<1>0. q \subseteq Nat
  OBVIOUS
<1>1. PICK x \in q : \A y \in q : x <= y
  <2>1. PICK x \in q : \A y \in q : ~(<<y, x>> \in OpToRel(<, Nat))
    BY <1>0, NatLessThanWellFounded, WFMin
  <2>2. \A y \in q : ~(y < x)
    BY <1>0, <2>1 DEF OpToRel
  <2>3. \A y \in q : x <= y
    BY <1>0, <2>2
  <2>. QED  BY <2>3
<1>2. PICK y \in q : \A z \in q : z <= y
  <2>. DEFINE T == {n - z : z \in q}
  <2>1. T \subseteq Nat /\ T # {}
    OBVIOUS
  <2>. HIDE DEF T
  <2>2. PICK u \in T : \A v \in T : ~(<<v, u>> \in OpToRel(<, Nat))
    BY <2>1, NatLessThanWellFounded, WFMin
  <2>3. \A v \in T : ~(v < u)
    BY <2>1, <2>2 DEF OpToRel
  <2>4. PICK z \in q : u = n - z
    BY DEF T
  <2>5. \A v \in q : ~(n - v < n - z)
    BY <2>3, <2>4 DEF T
  <2>6. \A v \in q : v <= z
    BY <1>0, <2>5
  <2>. QED  BY <2>6
<1>3. x \in Times(t, q)
  <2>1. ASSUME NEW z \in q, x \in Divisor(t, z)
        PROVE  z = x
    <3>1. x \in z .. z + t.width
      BY <1>0, <2>1, DivisorKnown
    <3>. QED  BY <1>0, <1>1, <3>1
  <2>2. x \in Divisor(t, x)
    BY <1>0, DivisorKnown
  <2>3. Terms(t, q, x) = {x}
    BY <2>1, <2>2 DEF Terms
  <2>4. Cardinality(Terms(t, q, x)) = 1
    BY <2>3, FS_Singleton
  <2>. QED  BY <1>0, <2>4 DEF Times
<1>4. ASSUME 0 \in t.poly
      PROVE  y + t.width \in Times(t, q)
  <2>0. t.width \in Nat /\ y \in Nat
    BY <1>0, DivisorKnown
  <2>1. ASSUME NEW z \in q, y + t.width \in Divisor(t, z)
        PROVE  z = y
    <3>1. y + t.width \in z .. z + t.width
      BY <1>0, <2>1, DivisorKnown
    <3>. QED  BY <1>0, <1>2, <2>0, <3>1
  <2>2. y + t.width \in Divisor(t, y)
    BY <1>4, <2>0, DivisorKnown
  <2>3. Terms(t, q, y + t.width) = {y}
    BY <2>1, <2>2 DEF Terms
  <2>4. Cardinality(Terms(t, q, y + t.width)) = 1
    BY <2>3, FS_Singleton
  <2>. QED  BY <2>0, <2>4 DEF Times
<1>. QED  BY <1>1, <1>3, <1>4

\* Of all multiples of the polynomial only one leaves nothing in the first n bits.
LEMMA OneRest ==
    ASSUME NEW t \in CrcTypes, NEW n \in Nat, NEW p, NEW q,
           p \subseteq 0 .. n - 1, q \subseteq 0 .. n - 1,
           NEW r, NEW s, \A i \in 0 .. n - 1 : i \notin r /\ i \notin s,
           SymDiff(r, Times(t, p)) = SymDiff(s, Times(t, q))
    PROVE  r = s
<1>1. SymDiff(r, s) = SymDiff(Times(t, p), Times(t, q))
  BY DEF SymDiff
<1>2. SymDiff(r, s) = Times(t, SymDiff(p, q))
  <2>1. IsFiniteSet(0 .. n - 1)
    BY FS_Interval
  <2>2. IsFiniteSet(p) /\ IsFiniteSet(q)
    BY <2>1, FS_Subset
  <2>. QED  BY <1>1, <2>2, TimesXor
<1>3. SymDiff(p, q) \subseteq 0 .. n - 1
  BY DEF SymDiff
<1>4. SymDiff(p, q) = {}
  <2>1. SUFFICES ASSUME SymDiff(p, q) # {}
                 PROVE  FALSE
    OBVIOUS
  <2>2. PICK x \in SymDiff(p, q) : x \in Times(t, SymDiff(p, q))
    BY <1>3, <2>1, TimesEnds
  <2>3. x \in 0 .. n - 1 /\ x \in SymDiff(r, s)
    BY <1>2, <1>3, <2>2
  <2>. QED  BY <2>3 DEF SymDiff
<1>5. p = q
  BY <1>4 DEF SymDiff
<1>. QED  BY <1>5 DEF SymDiff

LEMMA LeftBits ==
    ASSUME NEW L \in 8 .. 32, NEW w \in SUBSET (0 .. L - 1), NEW p \in SUBSET (0 .. L - 1)
    PROVE  /\ LeftBit(w, p, L) \subseteq 0 .. L - 1
           /\ \A c \in 0 .. L - 1 :
                 c \in LeftBit(w, p, L) <=>
                     IF L - 1 \in w THEN ~(c - 1 \in w <=> c \in p) ELSE c - 1 \in w
<1>1. ShiftLeft(w, 1, L) \subseteq 0 .. L - 1
  BY DEF ShiftLeft
<1>2. ASSUME NEW c \in 0 .. L - 1
      PROVE  c \in ShiftLeft(w, 1, L) <=> c - 1 \in w
  <2>1. \A x \in w : x \in Int /\ (x + 1 = c <=> x = c - 1)
    OBVIOUS
  <2>2. c - 1 \in w => c - 1 + 1 < L /\ c - 1 + 1 = c
    OBVIOUS
  <2>. QED  BY <2>1, <2>2 DEF ShiftLeft
<1>3. CASE L - 1 \in w
  <2>1. LeftBit(w, p, L) = SymDiff(ShiftLeft(w, 1, L), p)
    BY <1>3 DEF LeftBit
  <2>. QED  BY <1>1, <1>2, <1>3, <2>1 DEF SymDiff
<1>4. CASE L - 1 \notin w
  <2>1. LeftBit(w, p, L) = ShiftLeft(w, 1, L)
    BY <1>4 DEF LeftBit
  <2>. QED  BY <1>1, <1>2, <1>4, <2>1
<1>. QED  BY <1>3, <1>4

LEMMA RightBits ==
    ASSUME NEW w \in SUBSET (0 .. 7), NEW p \in SUBSET (0 .. 7)
    PROVE  /\ RightBit(w, p) \subseteq 0 .. 7
           /\ \A c \in 0 .. 7 :
                 c \in RightBit(w, p) <=>
                     IF 0 \in w THEN ~(c + 1 \in w <=> c \in p) ELSE c + 1 \in w
<1>1. ShiftRight(w, 1) \subseteq 0 .. 7
  BY DEF ShiftRight
<1>2. ASSUME NEW c \in 0 .. 7
      PROVE  c \in ShiftRight(w, 1) <=> c + 1 \in w
  <2>1. \A x \in w : x \in Int /\ (x - 1 = c <=> x = c + 1)
    OBVIOUS
  <2>2. c + 1 >= 1 /\ c + 1 - 1 = c
    OBVIOUS
  <2>. QED  BY <2>1, <2>2 DEF ShiftRight
<1>3. CASE 0 \in w
  <2>1. RightBit(w, p) = SymDiff(ShiftRight(w, 1), p)
    BY <1>3 DEF RightBit
  <2>. QED  BY <1>1, <1>2, <1>3, <2>1 DEF SymDiff
<1>4. CASE 0 \notin w
  <2>1. RightBit(w, p) = ShiftRight(w, 1)
    BY <1>4 DEF RightBit
  <2>. QED  BY <1>1, <1>2, <1>4, <2>1
<1>. QED  BY <1>3, <1>4

\* The bits of the register of a type, the bit of the register that stands for
\* bit j of the dividend when i bits are divided, and the bits a register
\* stands for.
Span(t) == IF t.width < 8 THEN 8 ELSE t.width
BitAt(t, i, j) == IF t.width < 8 /\ t.refIn THEN j - i ELSE i + Span(t) - 1 - j
Stands(t, w, i) == {j \in i .. i + Span(t) - 1 : BitAt(t, i, j) \in w}

LEMMA TypeKnown ==
    ASSUME NEW t \in CrcTypes
    PROVE  /\ t.width \in 4 .. 32 /\ Span(t) \in 8 .. 32 /\ t.width <= Span(t)
           /\ t.poly \subseteq 0 .. t.width - 1 /\ t.init \subseteq 0 .. t.width - 1
           /\ t.xorOut \subseteq 0 .. t.width - 1
           /\ t.refIn \in BOOLEAN /\ t.refOut \in BOOLEAN
           /\ t.width < 8 => Span(t) = 8
           /\ t.width >= 8 => Span(t) = t.width
           /\ t.width \in Nat
BY CrcAssumption DEF Span

LEMMA DivisorBits ==
    ASSUME NEW t \in CrcTypes, NEW i \in Nat, NEW j \in Int, j > i
    PROVE  j \in Divisor(t, i) <=> i + t.width - j \in t.poly
<1>1. t.width \in Nat /\ t.poly \subseteq Int
  BY TypeKnown
<1>2. \A b \in t.poly : j = i + t.width - b <=> b = i + t.width - j
  BY <1>1
<1>3. j \in Divisor(t, i) <=> \E b \in t.poly : j = i + t.width - b
  BY DEF Divisor
<1>. QED  BY <1>2, <1>3

LEMMA RoundBits ==
    ASSUME NEW t \in CrcTypes, NEW w, w \subseteq 0 .. Span(t) - 1, NEW i \in Nat
    PROVE  /\ Round(t, w) \subseteq 0 .. Span(t) - 1
           /\ \A j \in i + 1 .. i + Span(t) :
                 BitAt(t, i + 1, j) \in Round(t, w) <=>
                     IF BitAt(t, i, i) \in w
                     THEN ~(BitAt(t, i, j) \in w <=> j \in Divisor(t, i))
                     ELSE BitAt(t, i, j) \in w
<1>1. CASE t.width >= 8
  <2>1. /\ Span(t) = t.width /\ Span(t) \in 8 .. 32 /\ t.poly \subseteq 0 .. Span(t) - 1
        /\ Round(t, w) = LeftBit(w, t.poly, Span(t))
    BY <1>1, TypeKnown DEF Round
  <2>2. /\ Round(t, w) \subseteq 0 .. Span(t) - 1
        /\ \A c \in 0 .. Span(t) - 1 :
              c \in Round(t, w) <=>
                  IF Span(t) - 1 \in w THEN ~(c - 1 \in w <=> c \in t.poly) ELSE c - 1 \in w
    <3>1. w \in SUBSET (0 .. Span(t) - 1) /\ t.poly \in SUBSET (0 .. Span(t) - 1)
      BY <2>1
    <3>2. /\ LeftBit(w, t.poly, Span(t)) \subseteq 0 .. Span(t) - 1
          /\ \A c \in 0 .. Span(t) - 1 :
                c \in LeftBit(w, t.poly, Span(t)) <=>
                    IF Span(t) - 1 \in w THEN ~(c - 1 \in w <=> c \in t.poly) ELSE c - 1 \in w
      <4>1. Span(t) \in 8 .. 32
        BY <2>1
      <4>. QED  BY <3>1, <4>1, LeftBits
    <3>. QED  BY <2>1, <3>2
  <2>3. ASSUME NEW j \in i + 1 .. i + Span(t)
        PROVE  BitAt(t, i + 1, j) \in Round(t, w) <=>
                     IF BitAt(t, i, i) \in w
                     THEN ~(BitAt(t, i, j) \in w <=> j \in Divisor(t, i))
                     ELSE BitAt(t, i, j) \in w
    <3>. DEFINE c == BitAt(t, i + 1, j)
    <3>1. /\ c \in 0 .. Span(t) - 1 /\ BitAt(t, i, j) = c - 1
          /\ BitAt(t, i, i) = Span(t) - 1 /\ c = i + t.width - j
      BY <1>1, <2>1 DEF BitAt
    <3>2. j \in Divisor(t, i) <=> c \in t.poly
      BY <2>1, <3>1, DivisorBits
    <3>. QED  BY <2>2, <3>1, <3>2
  <2>. QED  BY <2>3, <2>2
<1>2. CASE t.width < 8 /\ t.refIn
  <2>. DEFINE p == ReflectedData(t.poly, t.width)
  <2>1. /\ Span(t) = 8 /\ t.width \in 4 .. 7 /\ t.poly \subseteq 0 .. t.width - 1
        /\ Round(t, w) = RightBit(w, p)
    BY <1>2, TypeKnown DEF Round
  <2>2. p = {t.width - 1 - b : b \in t.poly}
    BY <2>1, Reflected
  <2>3. p \subseteq 0 .. 7
    BY <2>1, <2>2
  <2>. HIDE DEF p
  <2>4. /\ Round(t, w) \subseteq 0 .. 7
        /\ \A c \in 0 .. 7 :
              c \in Round(t, w) <=>
                  IF 0 \in w THEN ~(c + 1 \in w <=> c \in p) ELSE c + 1 \in w
    BY <2>1, <2>3, RightBits
  <2>5. ASSUME NEW j \in i + 1 .. i + Span(t)
        PROVE  BitAt(t, i + 1, j) \in Round(t, w) <=>
                     IF BitAt(t, i, i) \in w
                     THEN ~(BitAt(t, i, j) \in w <=> j \in Divisor(t, i))
                     ELSE BitAt(t, i, j) \in w
    <3>. DEFINE c == BitAt(t, i + 1, j)
    <3>1. /\ c \in 0 .. 7 /\ BitAt(t, i, j) = c + 1
          /\ BitAt(t, i, i) = 0 /\ t.width - 1 - c = i + t.width - j
      BY <1>2, <2>1 DEF BitAt
    <3>. HIDE DEF c
    <3>2. \A b \in t.poly : c = t.width - 1 - b <=> b = t.width - 1 - c
      BY <2>1, <3>1
    <3>3. c \in p <=> t.width - 1 - c \in t.poly
      BY <2>2, <3>2
    <3>4. j \in Divisor(t, i) <=> c \in p
      BY <2>1, <3>1, <3>3, DivisorBits
    <3>. QED  BY <2>4, <3>1, <3>4 DEF c
  <2>. QED  BY <2>1, <2>5, <2>4
<1>3. CASE t.width < 8 /\ ~t.refIn
  <2>. DEFINE p == ShiftLeft(t.poly, 8 - t.width, 8)
  <2>1. /\ Span(t) = 8 /\ t.width \in 4 .. 7 /\ t.poly \subseteq 0 .. t.width - 1
        /\ Round(t, w) = LeftBit(w, p, 8)
    BY <1>3, TypeKnown DEF Round
  <2>2. p = {b + (8 - t.width) : b \in t.poly}
    BY <2>1 DEF ShiftLeft
  <2>3. p \subseteq 0 .. 7
    BY <2>1, <2>2
  <2>. HIDE DEF p
  <2>4. /\ Round(t, w) \subseteq 0 .. 7
        /\ \A c \in 0 .. 7 :
              c \in Round(t, w) <=>
                  IF 7 \in w THEN ~(c - 1 \in w <=> c \in p) ELSE c - 1 \in w
    BY <2>1, <2>3, LeftBits
  <2>5. ASSUME NEW j \in i + 1 .. i + Span(t)
        PROVE  BitAt(t, i + 1, j) \in Round(t, w) <=>
                     IF BitAt(t, i, i) \in w
                     THEN ~(BitAt(t, i, j) \in w <=> j \in Divisor(t, i))
                     ELSE BitAt(t, i, j) \in w
    <3>. DEFINE c == BitAt(t, i + 1, j)
    <3>1. /\ c \in 0 .. 7 /\ BitAt(t, i, j) = c - 1
          /\ BitAt(t, i, i) = 7 /\ c - (8 - t.width) = i + t.width - j
      BY <1>3, <2>1 DEF BitAt
    <3>. HIDE DEF c
    <3>2. \A b \in t.poly : c = b + (8 - t.width) <=> b = c - (8 - t.width)
      BY <2>1, <3>1
    <3>3. c \in p <=> c - (8 - t.width) \in t.poly
      BY <2>2, <3>2
    <3>4. j \in Divisor(t, i) <=> c \in p
      BY <2>1, <3>1, <3>3, DivisorBits
    <3>. QED  BY <2>4, <3>1, <3>4 DEF c
  <2>. QED  BY <2>1, <2>5, <2>4
<1>. QED  BY <1>1, <1>2, <1>3, TypeKnown

\* A round of the register is a step of the division.
LEMMA RoundDivides ==
    ASSUME NEW t \in CrcTypes, NEW w \in SUBSET (0 .. Span(t) - 1), NEW i \in Nat
    PROVE  /\ Round(t, w) \in SUBSET (0 .. Span(t) - 1)
           /\ Stands(t, Round(t, w), i + 1) = Divide(t, Stands(t, w, i), i)
<1>. DEFINE r == Stands(t, w, i)
            v == Round(t, w)
<1>1. t.width \in 4 .. 32 /\ Span(t) \in 8 .. 32 /\ t.width <= Span(t)
  BY TypeKnown
<1>2. /\ v \subseteq 0 .. Span(t) - 1
      /\ \A j \in i + 1 .. i + Span(t) :
            BitAt(t, i + 1, j) \in v <=>
                IF BitAt(t, i, i) \in w
                THEN ~(BitAt(t, i, j) \in w <=> j \in Divisor(t, i))
                ELSE BitAt(t, i, j) \in w
  BY RoundBits
<1>. HIDE DEF v
<1>3. i \in r <=> BitAt(t, i, i) \in w
  BY <1>1 DEF Stands
<1>4. BitAt(t, i, i + Span(t)) \notin w
  BY <1>1 DEF BitAt
<1>5. ASSUME NEW j \in i + 1 .. i + Span(t)
      PROVE  j \in r <=> BitAt(t, i, j) \in w
  <2>1. CASE j = i + Span(t)
    BY <1>1, <1>4, <2>1 DEF Stands
  <2>2. CASE j \in i .. i + Span(t) - 1
    BY <2>2 DEF Stands
  <2>. QED  BY <1>1, <2>1, <2>2
<1>6. r \subseteq i .. i + Span(t) /\ Stands(t, v, i + 1) \subseteq i + 1 .. i + Span(t)
  BY <1>1 DEF Stands
<1>7. Divisor(t, i) \subseteq i .. i + Span(t) /\ i \in Divisor(t, i)
  <2>1. Divisor(t, i) \subseteq i .. i + t.width /\ i \in Divisor(t, i)
    BY DivisorKnown
  <2>. QED  BY <1>1, <2>1
<1>8. \A j \in i + 1 .. i + Span(t) : j \in Stands(t, v, i + 1) <=> BitAt(t, i + 1, j) \in v
  BY <1>1 DEF Stands
<1>9. \A j \in i .. i + Span(t) : j = i \/ j \in i + 1 .. i + Span(t)
  BY <1>1
<1>. HIDE DEF r
<1>10. CASE i \in r
  <2>1. Divide(t, r, i) = SymDiff(r, Divisor(t, i))
    BY <1>10 DEF Divide
  <2>2. \A j \in i + 1 .. i + Span(t) :
           j \in Stands(t, v, i + 1) <=> ~(j \in r <=> j \in Divisor(t, i))
    BY <1>2, <1>3, <1>5, <1>8, <1>10
  <2>3. SymDiff(r, Divisor(t, i)) \subseteq i + 1 .. i + Span(t)
    BY <1>6, <1>7, <1>9, <1>10 DEF SymDiff
  <2>. QED  BY <1>2, <1>6, <2>1, <2>2, <2>3 DEF SymDiff, r, v
<1>11. CASE i \notin r
  <2>1. Divide(t, r, i) = r
    BY <1>11 DEF Divide
  <2>2. \A j \in i + 1 .. i + Span(t) : j \in Stands(t, v, i + 1) <=> j \in r
    BY <1>2, <1>3, <1>5, <1>8, <1>11
  <2>3. r \subseteq i + 1 .. i + Span(t)
    BY <1>6, <1>9, <1>11
  <2>. QED  BY <1>2, <1>6, <2>1, <2>2, <2>3 DEF r, v
<1>. QED  BY <1>10, <1>11

\* n steps of the division, at bit i and the bits behind it; r is d without a
\* multiple of the polynomial, the quotient of which is in those bits.
DividesAt(t, f, i, n) == \A k \in 0 .. n - 1 : f[k + 1] = Divide(t, f[k], i + k)
Leaves(t, d, r, i, n) == \E q \in SUBSET (i .. i + n - 1) : d = SymDiff(r, Times(t, q))

LEMMA DivisionTakes ==
    ASSUME NEW t \in CrcTypes, NEW i \in Nat, NEW n \in Nat, NEW f, DividesAt(t, f, i, n)
    PROVE  Leaves(t, f[0], f[n], i, n)
<1>. DEFINE G == {k \in 0 .. n : Leaves(t, f[0], f[k], i, k)}
<1>1. 0 \in G
  <2>1. Times(t, {}) = {}
    BY TimesNone
  <2>2. f[0] = SymDiff(f[0], Times(t, {}))
    BY <2>1 DEF SymDiff
  <2>3. {} \in SUBSET (i .. i + 0 - 1)
    OBVIOUS
  <2>. QED  BY <2>2, <2>3 DEF Leaves
<1>2. ASSUME NEW k \in 0 .. n - 1, k \in G
      PROVE  k + 1 \in G
  <2>1. PICK q \in SUBSET (i .. i + k - 1) : f[0] = SymDiff(f[k], Times(t, q))
    BY <1>2 DEF Leaves
  <2>2. f[k + 1] = Divide(t, f[k], i + k)
    BY DEF DividesAt
  <2>3. CASE i + k \in f[k]
    <3>1. f[k + 1] = SymDiff(f[k], Divisor(t, i + k))
      BY <2>2, <2>3 DEF Divide
    <3>2. IsFiniteSet(q) /\ IsFiniteSet({i + k}) /\ i + k \notin q
      <4>1. IsFiniteSet(i .. i + k - 1)
        BY FS_Interval
      <4>2. i + k \notin q
        OBVIOUS
      <4>. QED  BY <4>1, <4>2, FS_Subset, FS_Singleton
    <3>3. Times(t, SymDiff(q, {i + k})) = SymDiff(Times(t, q), Divisor(t, i + k))
      BY <3>2, TimesXor, TimesOne
    <3>4. f[0] = SymDiff(f[k + 1], Times(t, SymDiff(q, {i + k})))
      BY <2>1, <3>1, <3>3 DEF SymDiff
    <3>5. SymDiff(q, {i + k}) \in SUBSET (i .. i + (k + 1) - 1)
      BY DEF SymDiff
    <3>. HIDE DEF G
    <3>6. \E p \in SUBSET (i .. i + (k + 1) - 1) : f[0] = SymDiff(f[k + 1], Times(t, p))
      BY <3>4, <3>5, Zenon
    <3>. QED  BY <3>6 DEF G, Leaves
  <2>4. CASE i + k \notin f[k]
    <3>1. f[k + 1] = f[k]
      BY <2>2, <2>4 DEF Divide
    <3>2. q \in SUBSET (i .. i + (k + 1) - 1)
      OBVIOUS
    <3>. QED  BY <2>1, <3>1, <3>2 DEF Leaves
  <2>. QED  BY <2>3, <2>4
<1>3. n \in G
  <2>. HIDE DEF G
  <2>1. \A k \in 0 .. n - 1 : k \in G => k + 1 \in G
    BY <1>2
  <2>2. \A k \in 0 .. n : k \in G
    BY <1>1, <2>1, UpTo
  <2>. QED  BY <2>2
<1>. QED  BY <1>3

\* The eight rounds of a byte.
LEMMA RoundsDivide ==
    ASSUME NEW t \in CrcTypes, NEW w \in SUBSET (0 .. Span(t) - 1), NEW i \in Nat
    PROVE  /\ Rounds(t, w) \in SUBSET (0 .. Span(t) - 1)
           /\ Leaves(t, Stands(t, w, i), Stands(t, Rounds(t, w), i + 8), i, 8)
<1>. DEFINE S == SUBSET (0 .. Span(t) - 1)
            F == [k \in 1 .. 8 |-> [v \in S |-> Round(t, v)]]
            Body(g) == [k \in 0 .. 8 |-> IF k = 0 THEN w ELSE Round(t, g[k - 1])]
            reg == CHOOSE g : g = Body(g)
<1>1. \A v \in S : Round(t, v) \in S
  BY RoundDivides
<1>. HIDE DEF S
<1>2. w \in S /\ F \in [1 .. 8 -> [S -> S]]
  BY <1>1 DEF S
<1>3. PICK f \in [0 .. 8 -> S] : f[0] = w /\ \A k \in 1 .. 8 : f[k] = F[k][f[k - 1]]
  <2>. HIDE DEF F
  <2>. DEFINE n == 8
  <2>1. n \in Nat /\ F \in [1 .. n -> [S -> S]]
    BY <1>2
  <2>. HIDE DEF n
  <2>2. \E f \in [0 .. n -> S] : Iterates(f, F, w, n)
    BY <1>2, <2>1, Iterated
  <2>. QED  BY <2>2 DEF n, Iterates
<1>4. \A k \in 1 .. 8 : f[k] = Round(t, f[k - 1])
  BY <1>3
<1>5. f = Body(f)
  BY <1>3, <1>4
<1>6. reg = Body(reg)
  <2>. HIDE DEF Body
  <2>. QED  BY <1>5
<1>7. Rounds(t, w) = reg[8]
  BY DEF Rounds
<1>. HIDE DEF reg
<1>8. reg[0] = w /\ \A k \in 0 .. 7 : reg[k + 1] = Round(t, reg[k])
  BY <1>6
<1>. HIDE DEF Body, F
<1>9. \A k \in 0 .. 8 : reg[k] \in S
  <2>. DEFINE G == {k \in 0 .. 8 : reg[k] \in S}
  <2>1. 0 \in G
    BY <1>2, <1>8
  <2>2. \A k \in 0 .. 8 - 1 : k \in G => k + 1 \in G
    BY <1>1, <1>8
  <2>. HIDE DEF G
  <2>3. \A k \in 0 .. 8 : k \in G
    BY <2>1, <2>2, UpTo
  <2>. QED  BY <2>3 DEF G
<1>. DEFINE h == [k \in 0 .. 8 |-> Stands(t, reg[k], i + k)]
<1>10. ASSUME NEW k \in 0 .. 8 - 1
       PROVE  h[k + 1] = Divide(t, h[k], i + k)
  <2>1. reg[k] \in SUBSET (0 .. Span(t) - 1) /\ i + k \in Nat
    BY <1>9 DEF S
  <2>2. Stands(t, Round(t, reg[k]), (i + k) + 1) = Divide(t, Stands(t, reg[k], i + k), i + k)
    BY <2>1, RoundDivides
  <2>3. (i + k) + 1 = i + (k + 1) /\ reg[k + 1] = Round(t, reg[k])
    BY <1>8
  <2>. QED  BY <2>2, <2>3
<1>11. h[0] = Stands(t, w, i) /\ h[8] = Stands(t, Rounds(t, w), i + 8)
  BY <1>7, <1>8
<1>. HIDE DEF h
<1>12. Leaves(t, h[0], h[8], i, 8)
  <2>. DEFINE n == 8
  <2>1. n \in Nat /\ DividesAt(t, h, i, n)
    BY <1>10 DEF DividesAt
  <2>. HIDE DEF n
  <2>2. Leaves(t, h[0], h[n], i, n)
    BY <2>1, DivisionTakes
  <2>. QED  BY <2>2 DEF n
<1>13. Rounds(t, w) \in S
  BY <1>7, <1>9
<1>. QED  BY <1>11, <1>12, <1>13 DEF S

LEMMA StandsXor ==
    ASSUME NEW t, NEW w, NEW x, NEW i
    PROVE  Stands(t, SymDiff(w, x), i) = SymDiff(Stands(t, w, i), Stands(t, x, i))
BY DEF Stands, SymDiff

\* The bits of a byte, the first of which is bit i of the message.
Wire(t, byte, i) == {i + (IF t.refIn THEN b ELSE 7 - b) : b \in byte}

\* What is put into the register before the rounds of a byte.
Loaded(t, byte) ==
    IF t.width < 8 THEN byte
    ELSE ShiftLeft(IF t.refIn THEN ReflectedData(byte, 8) ELSE byte, t.width - 8, t.width)

LEMMA CheckByteKnown ==
    ASSUME NEW t, NEW w, NEW byte
    PROVE  CheckByte(t, w, byte) = Rounds(t, SymDiff(w, Loaded(t, byte)))
BY DEF CheckByte, SmallByte, WideByte, Loaded

LEMMA LoadedStands ==
    ASSUME NEW t \in CrcTypes, NEW byte \in SUBSET (0 .. 7), NEW i \in Nat
    PROVE  /\ Loaded(t, byte) \in SUBSET (0 .. Span(t) - 1)
           /\ Stands(t, Loaded(t, byte), i) = Wire(t, byte, i)
<1>1. CASE t.width < 8
  <2>1. Span(t) = 8 /\ Loaded(t, byte) = byte
    BY <1>1, TypeKnown DEF Loaded
  <2>2. CASE t.refIn
    <3>1. \A j \in i .. i + 7 : BitAt(t, i, j) = j - i
      BY <1>1, <2>2 DEF BitAt
    <3>2. Wire(t, byte, i) = {i + b : b \in byte}
      BY <2>2 DEF Wire
    <3>3. Stands(t, byte, i) = {j \in i .. i + 7 : j - i \in byte}
      BY <2>1, <3>1 DEF Stands
    <3>4. {j \in i .. i + 7 : j - i \in byte} = {i + b : b \in byte}
      <4>1. \A b \in byte : i + b \in i .. i + 7 /\ (i + b) - i = b
        OBVIOUS
      <4>2. \A j \in i .. i + 7 : j = i + (j - i)
        OBVIOUS
      <4>. QED  BY <4>1, <4>2
    <3>. QED  BY <2>1, <3>2, <3>3, <3>4
  <2>3. CASE ~t.refIn
    <3>1. \A j \in i .. i + 7 : BitAt(t, i, j) = i + 7 - j
      BY <2>1, <2>3 DEF BitAt
    <3>2. Wire(t, byte, i) = {i + (7 - b) : b \in byte}
      BY <2>3 DEF Wire
    <3>3. Stands(t, byte, i) = {j \in i .. i + 7 : i + 7 - j \in byte}
      BY <2>1, <3>1 DEF Stands
    <3>4. {j \in i .. i + 7 : i + 7 - j \in byte} = {i + (7 - b) : b \in byte}
      <4>1. \A b \in byte : i + (7 - b) \in i .. i + 7 /\ i + 7 - (i + (7 - b)) = b
        OBVIOUS
      <4>2. \A j \in i .. i + 7 : j = i + (7 - (i + 7 - j))
        OBVIOUS
      <4>. QED  BY <4>1, <4>2
    <3>. QED  BY <2>1, <3>2, <3>3, <3>4
  <2>. QED  BY <2>2, <2>3
<1>2. CASE t.width >= 8
  <2>. DEFINE L == t.width
              in == IF t.refIn THEN ReflectedData(byte, 8) ELSE byte
  <2>1. Span(t) = L /\ L \in 8 .. 32 /\ Loaded(t, byte) = ShiftLeft(in, L - 8, L)
    BY <1>2, TypeKnown DEF Loaded
  <2>2. ReflectedData(byte, 8) = {7 - b : b \in byte}
    <3>. DEFINE m == 8
    <3>1. m \in 1 .. 32 /\ byte \subseteq 0 .. m - 1
      OBVIOUS
    <3>. HIDE DEF m
    <3>2. ReflectedData(byte, m) = {m - 1 - b : b \in byte}
      BY <3>1, Reflected
    <3>. QED  BY <3>2 DEF m
  <2>3. in \in SUBSET (0 .. 7)
    BY <2>2
  <2>4. Wire(t, byte, i) = {i + (7 - c) : c \in in}
    <3>1. CASE t.refIn
      <4>1. Wire(t, byte, i) = {i + b : b \in byte} /\ in = {7 - b : b \in byte}
        BY <2>2, <3>1 DEF Wire
      <4>2. \A b \in byte : i + b = i + (7 - (7 - b))
        OBVIOUS
      <4>. HIDE DEF in
      <4>3. \A b \in byte : i + b \in {i + (7 - c) : c \in in}
        BY <4>1, <4>2
      <4>4. \A c \in in : i + (7 - c) \in {i + b : b \in byte}
        BY <4>1, <4>2
      <4>. QED  BY <4>1, <4>3, <4>4
    <3>2. CASE ~t.refIn
      BY <3>2 DEF Wire
    <3>. QED  BY <3>1, <3>2
  <2>. HIDE DEF in
  <2>5. Loaded(t, byte) = {c + (L - 8) : c \in in}
    <3>1. \A c \in in : c + (L - 8) < L
      BY <2>1, <2>3
    <3>. DEFINE k == L - 8
    <3>2. Loaded(t, byte) = {b + k : b \in {x \in in : x + k < L}} /\ \A c \in in : c + k < L
      BY <2>1, <3>1 DEF ShiftLeft
    <3>. HIDE DEF k, L
    <3>3. {x \in in : x + k < L} = in
      BY <3>2
    <3>4. Loaded(t, byte) = {b + k : b \in in}
      BY <3>2, <3>3
    <3>. QED  BY <3>4 DEF k
  <2>6. Loaded(t, byte) \in SUBSET (0 .. L - 1)
    BY <2>1, <2>3, <2>5
  <2>7. \A j \in i .. i + L - 1 : BitAt(t, i, j) = i + L - 1 - j
    BY <1>2, <2>1 DEF BitAt
  <2>8. Stands(t, Loaded(t, byte), i) = {j \in i .. i + L - 1 : i + L - 1 - j \in Loaded(t, byte)}
    BY <2>1, <2>7 DEF Stands
  <2>9. {j \in i .. i + L - 1 : i + L - 1 - j \in Loaded(t, byte)} = {i + (7 - c) : c \in in}
    <3>1. \A c \in in : i + (7 - c) \in i .. i + L - 1 /\ i + L - 1 - (i + (7 - c)) = c + (L - 8)
      BY <2>1, <2>3
    <3>2. ASSUME NEW j \in i .. i + L - 1, NEW c \in in, i + L - 1 - j = c + (L - 8)
          PROVE  j = i + (7 - c)
      BY <2>1, <2>3, <3>2
    <3>. QED  BY <2>5, <3>1, <3>2
  <2>. QED  BY <2>1, <2>4, <2>6, <2>8, <2>9
<1>. QED  BY <1>1, <1>2, TypeKnown

LEMMA CheckByteDivides ==
    ASSUME NEW t \in CrcTypes, NEW w \in SUBSET (0 .. Span(t) - 1), NEW byte \in SUBSET (0 .. 7),
           NEW i \in Nat
    PROVE  /\ CheckByte(t, w, byte) \in SUBSET (0 .. Span(t) - 1)
           /\ Leaves(t, SymDiff(Stands(t, w, i), Wire(t, byte, i)),
                        Stands(t, CheckByte(t, w, byte), i + 8), i, 8)
<1>. DEFINE v == SymDiff(w, Loaded(t, byte))
<1>1. v \in SUBSET (0 .. Span(t) - 1)
  BY LoadedStands DEF SymDiff
<1>2. Stands(t, v, i) = SymDiff(Stands(t, w, i), Wire(t, byte, i))
  BY StandsXor, LoadedStands
<1>3. CheckByte(t, w, byte) = Rounds(t, v)
  BY CheckByteKnown
<1>. HIDE DEF v
<1>. QED  BY <1>1, <1>2, <1>3, RoundsDivide

LEMMA MeantKnown ==
    ASSUME NEW t
    PROVE  /\ Meant(t).width = t.width /\ Meant(t).poly = t.poly /\ Meant(t).refIn = t.refIn
           /\ Meant(t).xorOut = t.xorOut
           /\ Meant(t).refOut = IF t.width < 8 THEN t.refIn ELSE t.refOut
           /\ Meant(t).init = IF t.width < 8 /\ t.refIn THEN {t.width - 1 - b : b \in t.init}
                                                        ELSE t.init
BY DEF Meant

\* The first bits of the dividend.
Start(t) == {t.width - 1 - b : b \in t.init}

LEMMA InitialStands ==
    ASSUME NEW t \in CrcTypes
    PROVE  /\ InitialCrc(t) \in SUBSET (0 .. Span(t) - 1)
           /\ Stands(t, InitialCrc(t), 0) = Start(Meant(t))
           /\ Start(Meant(t)) \subseteq 0 .. t.width - 1
<1>. DEFINE L == t.width
<1>1. L \in 4 .. 32 /\ t.init \subseteq 0 .. L - 1 /\ t.init \subseteq Int
  BY TypeKnown
<1>2. CASE L >= 8
  <2>1. Span(t) = L /\ InitialCrc(t) = t.init /\ Start(Meant(t)) = {L - 1 - b : b \in t.init}
    <3>1. ~(L < 8)
      BY <1>1, <1>2
    <3>2. Meant(t).width = L /\ Meant(t).init = t.init
      BY <3>1, MeantKnown
    <3>3. InitialCrc(t) = t.init
      BY <3>1 DEF InitialCrc
    <3>. QED  BY <1>2, <3>2, <3>3, TypeKnown DEF Start
  <2>2. \A j \in 0 .. L - 1 : BitAt(t, 0, j) = L - 1 - j
    BY <1>1, <1>2, <2>1 DEF BitAt
  <2>3. Stands(t, t.init, 0) = {j \in 0 .. L - 1 : L - 1 - j \in t.init}
    BY <1>1, <2>1, <2>2 DEF Stands
  <2>4. {j \in 0 .. L - 1 : L - 1 - j \in t.init} = {L - 1 - b : b \in t.init}
    <3>1. \A b \in t.init : L - 1 - b \in 0 .. L - 1 /\ L - 1 - (L - 1 - b) = b
      BY <1>1
    <3>2. \A j \in 0 .. L - 1 : j = L - 1 - (L - 1 - j)
      BY <1>1
    <3>. QED  BY <3>1, <3>2
  <2>. QED  BY <1>1, <2>1, <2>3, <2>4
<1>3. CASE L < 8 /\ t.refIn
  <2>1. Span(t) = 8 /\ InitialCrc(t) = t.init
    BY <1>3, TypeKnown DEF InitialCrc
  <2>2. Start(Meant(t)) = {L - 1 - c : c \in {L - 1 - b : b \in t.init}}
    BY <1>3, MeantKnown DEF Start
  <2>3. \A b \in t.init : L - 1 - (L - 1 - b) = b
    BY <1>1
  <2>4. Start(Meant(t)) = t.init
    BY <2>2, <2>3
  <2>5. \A j \in 0 .. 7 : BitAt(t, 0, j) = j
    BY <1>3 DEF BitAt
  <2>6. Stands(t, t.init, 0) = {j \in 0 .. 7 : j \in t.init}
    BY <2>1, <2>5 DEF Stands
  <2>7. t.init \subseteq 0 .. 7
    BY <1>1, <1>3
  <2>8. {j \in 0 .. 7 : j \in t.init} = t.init
    BY <2>7
  <2>. QED  BY <1>1, <2>1, <2>4, <2>6, <2>7, <2>8
<1>4. CASE L < 8 /\ ~t.refIn
  <2>1. Span(t) = 8 /\ InitialCrc(t) = ShiftLeft(t.init, 8 - L, 8)
    BY <1>4, TypeKnown DEF InitialCrc
  <2>2. InitialCrc(t) = {b + (8 - L) : b \in t.init}
    BY <1>1, <1>4, <2>1 DEF ShiftLeft
  <2>3. InitialCrc(t) \in SUBSET (0 .. 7)
    BY <1>1, <1>4, <2>2
  <2>4. Start(Meant(t)) = {L - 1 - b : b \in t.init}
    BY <1>4, MeantKnown DEF Start
  <2>5. \A j \in 0 .. 7 : BitAt(t, 0, j) = 7 - j
    BY <1>4, <2>1 DEF BitAt
  <2>6. Stands(t, InitialCrc(t), 0) = {j \in 0 .. 7 : 7 - j \in InitialCrc(t)}
    BY <2>1, <2>5 DEF Stands
  <2>7. {j \in 0 .. 7 : 7 - j \in InitialCrc(t)} = {L - 1 - b : b \in t.init}
    <3>1. \A b \in t.init : L - 1 - b \in 0 .. 7 /\ 7 - (L - 1 - b) = b + (8 - L)
      BY <1>1, <1>4
    <3>2. ASSUME NEW j \in 0 .. 7, NEW b \in t.init, 7 - j = b + (8 - L)
          PROVE  j = L - 1 - b
      BY <1>1, <3>2
    <3>. QED  BY <2>2, <3>1, <3>2
  <2>. QED  BY <1>1, <2>1, <2>3, <2>4, <2>6, <2>7
<1>. QED  BY <1>1, <1>2, <1>3, <1>4

\* x is in front of the division of the bits from n on.
LEMMA LeavesChain ==
    ASSUME NEW t, NEW n \in Nat, NEW m \in Nat, NEW d, NEW r, NEW x, NEW s,
           Leaves(t, d, r, 0, n), Leaves(t, SymDiff(r, x), s, n, m)
    PROVE  Leaves(t, SymDiff(d, x), s, 0, n + m)
<1>1. PICK p \in SUBSET (0 .. 0 + n - 1) : d = SymDiff(r, Times(t, p))
  BY DEF Leaves
<1>2. PICK q \in SUBSET (n .. n + m - 1) : SymDiff(r, x) = SymDiff(s, Times(t, q))
  BY DEF Leaves
<1>3. IsFiniteSet(p) /\ IsFiniteSet(q)
  <2>1. 0 + n - 1 \in Int /\ n + m - 1 \in Int /\ 0 \in Int /\ n \in Int
    OBVIOUS
  <2>2. IsFiniteSet(0 .. 0 + n - 1) /\ IsFiniteSet(n .. n + m - 1)
    BY <2>1, FS_Interval
  <2>. QED  BY <2>2, FS_Subset
<1>4. Times(t, SymDiff(p, q)) = SymDiff(Times(t, p), Times(t, q))
  BY <1>3, TimesXor
<1>5. SymDiff(d, x) = SymDiff(s, Times(t, SymDiff(p, q)))
  BY <1>1, <1>2, <1>4 DEF SymDiff
<1>6. SymDiff(p, q) \in SUBSET (0 .. 0 + (n + m) - 1)
  BY DEF SymDiff
<1>. QED  BY <1>5, <1>6, Zenon DEF Leaves

\* The bits of the first n bytes.
Sent(t, buf, n) == UNION {Wire(t, buf[i], 8 * (i - 1)) : i \in 1 .. n}

LEMMA SentKnown ==
    ASSUME NEW t, NEW buf \in Seq(SUBSET (0 .. 7)), NEW n \in 0 .. Len(buf)
    PROVE  /\ Sent(t, buf, 0) = {}
           /\ Sent(t, buf, n) \subseteq 0 .. 8 * n - 1
           /\ n < Len(buf) =>
                 Sent(t, buf, n + 1) = SymDiff(Sent(t, buf, n), Wire(t, buf[n + 1], 8 * n))
           /\ Sent(t, buf, Len(buf)) = MessageBits(t, buf)
<1>1. Sent(t, buf, 0) = {}
  BY DEF Sent
<1>2. ASSUME NEW i \in 1 .. Len(buf)
      PROVE  Wire(t, buf[i], 8 * (i - 1)) \subseteq 8 * (i - 1) .. 8 * i - 1
  <2>1. buf[i] \subseteq 0 .. 7
    OBVIOUS
  <2>. QED  BY <2>1 DEF Wire
<1>3. Sent(t, buf, n) \subseteq 0 .. 8 * n - 1
  <2>1. ASSUME NEW x \in Sent(t, buf, n)
        PROVE  x \in 0 .. 8 * n - 1
    <3>1. PICK i \in 1 .. n : x \in Wire(t, buf[i], 8 * (i - 1))
      BY DEF Sent
    <3>2. i \in 1 .. Len(buf)
      OBVIOUS
    <3>3. x \in 8 * (i - 1) .. 8 * i - 1
      BY <1>2, <3>1, <3>2
    <3>. QED  BY <3>3
  <2>. QED  BY <2>1
<1>4. ASSUME n < Len(buf)
      PROVE  Sent(t, buf, n + 1) = SymDiff(Sent(t, buf, n), Wire(t, buf[n + 1], 8 * n))
  <2>. DEFINE x == Wire(t, buf[n + 1], 8 * n)
  <2>1. n + 1 \in 1 .. Len(buf) /\ 8 * ((n + 1) - 1) = 8 * n
    BY <1>4
  <2>2. x \subseteq 8 * n .. 8 * n + 7
    <3>1. Wire(t, buf[n + 1], 8 * ((n + 1) - 1)) \subseteq 8 * ((n + 1) - 1) .. 8 * (n + 1) - 1
      BY <1>2, <2>1
    <3>. QED  BY <2>1, <3>1
  <2>3. Sent(t, buf, n + 1) = Sent(t, buf, n) \cup x
    <3>1. \A i \in 1 .. n + 1 : i \in 1 .. n \/ i = n + 1
      OBVIOUS
    <3>2. 1 .. n \subseteq 1 .. n + 1 /\ n + 1 \in 1 .. n + 1
      OBVIOUS
    <3>. QED  BY <2>1, <3>1, <3>2 DEF Sent
  <2>. HIDE DEF x
  <2>4. Sent(t, buf, n) \cap x = {}
    BY <1>3, <2>2
  <2>5. Sent(t, buf, n + 1) = SymDiff(Sent(t, buf, n), x)
    BY <2>3, <2>4 DEF SymDiff
  <2>. QED  BY <2>5 DEF x
<1>5. Sent(t, buf, Len(buf)) = MessageBits(t, buf)
  BY DEF Sent, Wire, MessageBits
<1>. QED  BY <1>1, <1>3, <1>4, <1>5

\* The registers of a call, byte by byte.
Takes(t, buf, f) ==
    /\ f[0] = InitialCrc(t)
    /\ \A k \in 0 .. Len(buf) - 1 : f[k + 1] = CheckByte(t, f[k], buf[k + 1])

LEMMA RegisterTakes ==
    ASSUME NEW t \in CrcTypes, NEW buf \in Seq(SUBSET (0 .. 7))
    PROVE  \E f : /\ Takes(t, buf, f) /\ Register(t, buf) = f[Len(buf)]
                  /\ \A k \in 0 .. Len(buf) : f[k] \in SUBSET (0 .. Span(t) - 1)
<1>. DEFINE n == Len(buf)
            S == SUBSET (0 .. Span(t) - 1)
            F == [k \in 1 .. n |-> [v \in S |-> CheckByte(t, v, buf[k])]]
            Body(g) == [i \in 0 .. n |->
                          IF i = 0 THEN InitialCrc(t) ELSE CheckByte(t, g[i - 1], buf[i])]
            reg == CHOOSE g : g = Body(g)
<1>1. n \in Nat /\ \A k \in 1 .. n : buf[k] \in SUBSET (0 .. 7)
  OBVIOUS
<1>2. InitialCrc(t) \in S
  BY InitialStands
<1>3. ASSUME NEW k \in 1 .. n, NEW v \in S
      PROVE  CheckByte(t, v, buf[k]) \in S
  <2>1. v \in SUBSET (0 .. Span(t) - 1) /\ buf[k] \in SUBSET (0 .. 7) /\ 0 \in Nat
    BY <1>1
  <2>. QED  BY <2>1, CheckByteDivides
<1>4. Register(t, buf) = reg[n]
  BY DEF Register
<1>. HIDE DEF S, n
<1>5. F \in [1 .. n -> [S -> S]]
  BY <1>3
<1>6. PICK f \in [0 .. n -> S] : Iterates(f, F, InitialCrc(t), n)
  <2>. HIDE DEF F
  <2>. QED  BY <1>1, <1>2, <1>5, Iterated
<1>7. f = Body(f)
  <2>1. f[0] = InitialCrc(t) /\ \A i \in 1 .. n : f[i] = F[i][f[i - 1]]
    BY <1>6 DEF Iterates
  <2>2. ASSUME NEW i \in 1 .. n
        PROVE  f[i] = CheckByte(t, f[i - 1], buf[i])
    <3>1. i - 1 \in 0 .. n
      BY <1>1
    <3>2. f[i - 1] \in S
      BY <3>1
    <3>. QED  BY <2>1, <3>2
  <2>. QED  BY <1>1, <2>1, <2>2
<1>8. reg = Body(reg)
  <2>. HIDE DEF Body
  <2>. QED  BY <1>7
<1>. HIDE DEF reg
<1>9. /\ reg[0] = InitialCrc(t)
      /\ \A k \in 0 .. n - 1 : reg[k + 1] = CheckByte(t, reg[k], buf[k + 1])
  <2>1. \A i \in 0 .. n :
           reg[i] = IF i = 0 THEN InitialCrc(t) ELSE CheckByte(t, reg[i - 1], buf[i])
    BY <1>8
  <2>2. ASSUME NEW k \in 0 .. n - 1
        PROVE  reg[k + 1] = CheckByte(t, reg[k], buf[k + 1])
    <3>1. k + 1 \in 0 .. n /\ k + 1 # 0 /\ (k + 1) - 1 = k
      BY <1>1
    <3>. QED  BY <2>1, <3>1
  <2>. QED  BY <1>1, <2>1, <2>2
<1>. HIDE DEF Body, F
<1>10. \A k \in 0 .. n : reg[k] \in S
  <2>. DEFINE G == {k \in 0 .. n : reg[k] \in S}
  <2>1. 0 \in G
    BY <1>1, <1>2, <1>9
  <2>2. ASSUME NEW k \in 0 .. n - 1, k \in G
        PROVE  k + 1 \in G
    <3>1. reg[k] \in S /\ k + 1 \in 1 .. n
      BY <1>1, <2>2
    <3>2. CheckByte(t, reg[k], buf[k + 1]) \in S
      BY <1>3, <3>1
    <3>. QED  BY <1>1, <1>9, <3>2
  <2>. HIDE DEF G
  <2>3. \A k \in 0 .. n : k \in G
    BY <1>1, <2>1, <2>2, UpTo
  <2>. QED  BY <2>3 DEF G
<1>11. Takes(t, buf, reg)
  BY <1>9 DEF Takes, n
<1>. QED  BY <1>4, <1>10, <1>11 DEF n, S

LEMMA TakesSame ==
    ASSUME NEW t, NEW a, NEW b, NEW f, NEW g, Takes(t, a, f), Takes(t, b, g),
           NEW n \in Nat, Len(a) \in Nat, Len(b) \in Nat, n <= Len(a), n <= Len(b),
           \A k \in 1 .. n : a[k] = b[k]
    PROVE  \A k \in 0 .. n : f[k] = g[k]
<1>. DEFINE G == {k \in 0 .. n : f[k] = g[k]}
<1>1. 0 \in G
  BY DEF Takes
<1>2. ASSUME NEW k \in 0 .. n - 1, k \in G
      PROVE  k + 1 \in G
  <2>1. f[k + 1] = CheckByte(t, f[k], a[k + 1]) /\ g[k + 1] = CheckByte(t, g[k], b[k + 1])
    BY DEF Takes
  <2>2. f[k] = g[k] /\ a[k + 1] = b[k + 1]
    BY <1>2
  <2>. QED  BY <2>1, <2>2
<1>. HIDE DEF G
<1>3. \A k \in 0 .. n : k \in G
  BY <1>1, <1>2, UpTo
<1>. QED  BY <1>3 DEF G

LEMMA RegisterAppend ==
    ASSUME NEW t \in CrcTypes, NEW buf \in Seq(SUBSET (0 .. 7)), NEW byte \in SUBSET (0 .. 7)
    PROVE  /\ Register(t, <<>>) = InitialCrc(t)
           /\ Register(t, Append(buf, byte)) = CheckByte(t, Register(t, buf), byte)
<1>1. Register(t, <<>>) = InitialCrc(t)
  <2>1. <<>> \in Seq(SUBSET (0 .. 7)) /\ Len(<<>>) = 0
    OBVIOUS
  <2>2. PICK f : Takes(t, <<>>, f) /\ Register(t, <<>>) = f[Len(<<>>)]
    BY <2>1, RegisterTakes
  <2>. QED  BY <2>1, <2>2 DEF Takes
<1>2. Register(t, Append(buf, byte)) = CheckByte(t, Register(t, buf), byte)
  <2>. DEFINE more == Append(buf, byte)
              n == Len(buf)
  <2>1. /\ more \in Seq(SUBSET (0 .. 7)) /\ Len(more) = n + 1 /\ n \in Nat /\ more[n + 1] = byte
        /\ \A k \in 1 .. n : buf[k] = more[k]
    OBVIOUS
  <2>. HIDE DEF more
  <2>2. PICK f : Takes(t, buf, f) /\ Register(t, buf) = f[n]
    BY RegisterTakes
  <2>3. PICK g : Takes(t, more, g) /\ Register(t, more) = g[Len(more)]
    BY <2>1, RegisterTakes
  <2>. HIDE DEF n
  <2>4. \A k \in 0 .. n : f[k] = g[k]
    BY <2>1, <2>2, <2>3, TakesSame DEF n
  <2>5. g[n + 1] = CheckByte(t, g[n], byte)
    BY <2>1, <2>3 DEF Takes
  <2>6. f[n] = g[n]
    BY <2>1, <2>4
  <2>. QED  BY <2>1, <2>2, <2>3, <2>5, <2>6 DEF more
<1>. QED  BY <1>1, <1>2

\* The register stands for what a division of the message leaves.
LEMMA RegisterLeaves ==
    ASSUME NEW t \in CrcTypes, NEW buf \in Seq(SUBSET (0 .. 7))
    PROVE  /\ Register(t, buf) \in SUBSET (0 .. Span(t) - 1)
           /\ Leaves(t, Dividend(Meant(t), buf), Stands(t, Register(t, buf), 8 * Len(buf)),
                     0, 8 * Len(buf))
<1>. DEFINE n == Len(buf)
            m == Meant(t)
            D(k) == SymDiff(Sent(m, buf, k), Start(m))
<1>1. n \in Nat /\ \A k \in 1 .. n : buf[k] \in SUBSET (0 .. 7)
  OBVIOUS
<1>2. PICK f : /\ Takes(t, buf, f) /\ Register(t, buf) = f[n]
               /\ \A k \in 0 .. n : f[k] \in SUBSET (0 .. Span(t) - 1)
  BY RegisterTakes
<1>. DEFINE G == {k \in 0 .. n : Leaves(t, D(k), Stands(t, f[k], 8 * k), 0, 8 * k)}
<1>3. 0 \in G
  <2>1. D(0) = Start(m)
    BY <1>1, SentKnown DEF SymDiff
  <2>2. Stands(t, f[0], 0) = Start(m)
    BY <1>2, InitialStands DEF Takes
  <2>3. Times(t, {}) = {}
    BY TimesNone
  <2>. HIDE DEF D, m
  <2>4. D(0) = SymDiff(Stands(t, f[0], 0), Times(t, {}))
    BY <2>1, <2>2, <2>3 DEF SymDiff
  <2>5. {} \in SUBSET (0 .. 0 + 0 - 1)
    OBVIOUS
  <2>6. Leaves(t, D(0), Stands(t, f[0], 0), 0, 0)
    BY <2>4, <2>5, Zenon DEF Leaves
  <2>. QED  BY <1>1, <2>6
<1>4. ASSUME NEW k \in 0 .. n - 1, k \in G
      PROVE  k + 1 \in G
  <2>. DEFINE i == 8 * k
  <2>1. /\ k + 1 \in 1 .. n /\ i \in Nat /\ 8 \in Nat /\ 8 * (k + 1) = i + 8
        /\ f[k] \in SUBSET (0 .. Span(t) - 1) /\ buf[k + 1] \in SUBSET (0 .. 7)
    BY <1>1, <1>2
  <2>2. f[k + 1] = CheckByte(t, f[k], buf[k + 1])
    BY <1>2 DEF Takes
  <2>. HIDE DEF i
  <2>3. Leaves(t, SymDiff(Stands(t, f[k], i), Wire(t, buf[k + 1], i)),
               Stands(t, f[k + 1], i + 8), i, 8)
    BY <2>1, <2>2, CheckByteDivides
  <2>4. Leaves(t, D(k), Stands(t, f[k], i), 0, i)
    BY <1>4 DEF i
  <2>5. Wire(m, buf[k + 1], i) = Wire(t, buf[k + 1], i)
    BY MeantKnown DEF Wire
  <2>6. D(k + 1) = SymDiff(D(k), Wire(t, buf[k + 1], i))
    <3>1. k < Len(buf) /\ k \in 0 .. Len(buf)
      BY <1>1
    <3>2. Sent(m, buf, k + 1) = SymDiff(Sent(m, buf, k), Wire(m, buf[k + 1], i))
      BY <3>1, SentKnown DEF i
    <3>. HIDE DEF m
    <3>. QED  BY <2>5, <3>2 DEF SymDiff
  <2>. HIDE DEF D
  <2>7. Leaves(t, SymDiff(D(k), Wire(t, buf[k + 1], i)), Stands(t, f[k + 1], i + 8), 0, i + 8)
    BY <2>1, <2>3, <2>4, LeavesChain
  <2>8. Leaves(t, D(k + 1), Stands(t, f[k + 1], 8 * (k + 1)), 0, 8 * (k + 1))
    BY <2>1, <2>6, <2>7
  <2>. QED  BY <2>1, <2>8
<1>5. \A k \in 0 .. n : k \in G
  <2>. HIDE DEF G
  <2>. QED  BY <1>1, <1>3, <1>4, UpTo
<1>6. D(n) = Dividend(m, buf)
  BY <1>1, SentKnown DEF Dividend, Start
<1>. QED  BY <1>1, <1>2, <1>5, <1>6

LEMMA DividendSpan ==
    ASSUME NEW t \in CrcTypes, NEW buf \in Seq(SUBSET (0 .. 7))
    PROVE  Dividend(Meant(t), buf) \subseteq 0 .. 8 * Len(buf) + t.width - 1
<1>. DEFINE n == 8 * Len(buf)
<1>1. n \in Nat /\ t.width \in Nat
  <2>1. Len(buf) \in Nat
    OBVIOUS
  <2>2. n \in Nat
    BY <2>1
  <2>3. t.width \in Nat
    BY TypeKnown
  <2>. QED  BY <2>2, <2>3
<1>2. MessageBits(Meant(t), buf) \subseteq 0 .. n - 1
  BY SentKnown
<1>3. Start(Meant(t)) \subseteq 0 .. t.width - 1
  BY InitialStands
<1>4. Dividend(Meant(t), buf) \subseteq MessageBits(Meant(t), buf) \cup Start(Meant(t))
  BY DEF Dividend, Start, SymDiff
<1>5. 0 .. n - 1 \subseteq 0 .. n + t.width - 1 /\ 0 .. t.width - 1 \subseteq 0 .. n + t.width - 1
  BY <1>1
<1>. HIDE DEF n
<1>6. Dividend(Meant(t), buf) \subseteq 0 .. n + t.width - 1
  BY <1>2, <1>3, <1>4, <1>5
<1>. QED  BY <1>6 DEF n

\* The long division of the message leaves nothing in its bits.
LEMMA RestLeaves ==
    ASSUME NEW t \in CrcTypes, NEW buf \in Seq(SUBSET (0 .. 7)), NEW n \in Nat
    PROVE  /\ Leaves(t, Dividend(Meant(t), buf), Rest(Meant(t), buf, n), 0, n)
           /\ \A i \in 0 .. n - 1 : i \notin Rest(Meant(t), buf, n)
<1>. DEFINE S == SUBSET Nat
            d == Dividend(Meant(t), buf)
            F == [k \in 1 .. n |-> [r \in S |-> Divide(t, r, k - 1)]]
            Body(g) == [i \in 0 .. n |-> IF i = 0 THEN d ELSE Divide(Meant(t), g[i - 1], i - 1)]
            rest == CHOOSE g : g = Body(g)
<1>1. \A r, i : Divide(Meant(t), r, i) = Divide(t, r, i)
  <2>1. \A i : Divisor(Meant(t), i) = Divisor(t, i)
    BY MeantKnown DEF Divisor
  <2>. QED  BY <2>1 DEF Divide
<1>2. Rest(Meant(t), buf, n) = rest[n]
  BY DEF Rest
<1>3. d \in S
  <2>1. d \subseteq 0 .. 8 * Len(buf) + t.width - 1
    BY DividendSpan
  <2>. QED  BY <2>1
<1>4. ASSUME NEW i \in Nat, NEW r \in S
      PROVE  Divide(t, r, i) \in S
  <2>1. Divisor(t, i) \subseteq Nat
    <3>1. Divisor(t, i) \subseteq i .. i + t.width
      BY DivisorKnown
    <3>. QED  BY <3>1
  <2>. QED  BY <2>1 DEF Divide, SymDiff
<1>. HIDE DEF S, d
<1>5. F \in [1 .. n -> [S -> S]]
  <2>1. \A k \in 1 .. n : k - 1 \in Nat
    OBVIOUS
  <2>. QED  BY <1>4, <2>1
<1>6. PICK f \in [0 .. n -> S] : Iterates(f, F, d, n)
  <2>. HIDE DEF F
  <2>. QED  BY <1>3, <1>5, Iterated
<1>7. f = Body(f)
  <2>1. f[0] = d /\ \A i \in 1 .. n : f[i] = F[i][f[i - 1]]
    BY <1>6 DEF Iterates
  <2>2. ASSUME NEW i \in 1 .. n
        PROVE  f[i] = Divide(t, f[i - 1], i - 1)
    <3>1. i - 1 \in 0 .. n
      OBVIOUS
    <3>2. f[i - 1] \in S
      BY <3>1
    <3>. QED  BY <2>1, <3>2
  <2>. QED  BY <1>1, <2>1, <2>2
<1>8. rest = Body(rest)
  <2>. HIDE DEF Body
  <2>. QED  BY <1>7
<1>. HIDE DEF rest
<1>9. rest[0] = d /\ DividesAt(t, rest, 0, n)
  <2>1. \A i \in 0 .. n : rest[i] = IF i = 0 THEN d ELSE Divide(t, rest[i - 1], i - 1)
    BY <1>1, <1>8
  <2>2. ASSUME NEW k \in 0 .. n - 1
        PROVE  rest[k + 1] = Divide(t, rest[k], 0 + k)
    <3>1. k + 1 \in 0 .. n /\ k + 1 # 0 /\ (k + 1) - 1 = k /\ 0 + k = k
      OBVIOUS
    <3>. QED  BY <2>1, <3>1
  <2>. QED  BY <2>1, <2>2 DEF DividesAt
<1>. HIDE DEF Body, F
<1>10. Leaves(t, d, rest[n], 0, n)
  BY <1>9, DivisionTakes
<1>11. \A i \in 0 .. n - 1 : i \notin rest[n]
  <2>. DEFINE G == {k \in 0 .. n : \A i \in 0 .. k - 1 : i \notin rest[k]}
  <2>1. 0 \in G
    OBVIOUS
  <2>2. ASSUME NEW k \in 0 .. n - 1, k \in G
        PROVE  k + 1 \in G
    <3>1. rest[k + 1] = Divide(t, rest[k], k)
      <4>1. 0 + k = k
        OBVIOUS
      <4>. QED  BY <1>9, <4>1 DEF DividesAt
    <3>2. Divisor(t, k) \subseteq k .. k + t.width /\ k \in Divisor(t, k) /\ t.width \in Nat
      <4>1. k \in Nat
        OBVIOUS
      <4>2. t.width \in Nat
        BY TypeKnown
      <4>. QED  BY <4>1, <4>2, DivisorKnown
    <3>3. ASSUME NEW i \in 0 .. k
          PROVE  i \notin rest[k + 1]
      <4>1. CASE i = k
        BY <3>1, <3>2, <4>1 DEF Divide, SymDiff
      <4>2. CASE i \in 0 .. k - 1
        <5>1. i \notin rest[k] /\ i \notin Divisor(t, k)
          BY <2>2, <3>2, <4>2
        <5>. QED  BY <3>1, <5>1 DEF Divide, SymDiff
      <4>. QED  BY <4>1, <4>2
    <3>. QED  BY <3>3
  <2>. HIDE DEF G
  <2>3. \A k \in 0 .. n : k \in G
    BY <2>1, <2>2, UpTo
  <2>4. n \in G
    BY <2>3
  <2>. QED  BY <2>4 DEF G
<1>. QED  BY <1>2, <1>10, <1>11 DEF d

\* The register stands for the rest of the division, which fits the width.
LEMMA RegisterIsRest ==
    ASSUME NEW t \in CrcTypes, NEW buf \in Seq(SUBSET (0 .. 7))
    PROVE  LET n == 8 * Len(buf)
           IN  /\ Stands(t, Register(t, buf), n) = Rest(Meant(t), buf, n)
               /\ Rest(Meant(t), buf, n) \subseteq n .. n + t.width - 1
<1>. DEFINE n == 8 * Len(buf)
            d == Dividend(Meant(t), buf)
            r == Stands(t, Register(t, buf), n)
            s == Rest(Meant(t), buf, n)
<1>1. n \in Nat /\ t.width \in Nat
  <2>1. Len(buf) \in Nat
    OBVIOUS
  <2>2. n \in Nat
    BY <2>1
  <2>3. t.width \in Nat
    BY TypeKnown
  <2>. QED  BY <2>2, <2>3
<1>2. Leaves(t, d, r, 0, n)
  BY RegisterLeaves
<1>3. Leaves(t, d, s, 0, n) /\ \A i \in 0 .. n - 1 : i \notin s
  BY <1>1, RestLeaves
<1>4. \A i \in 0 .. n - 1 : i \notin r
  BY DEF Stands
<1>5. d \subseteq 0 .. n + t.width - 1
  BY DividendSpan
<1>. HIDE DEF n, d, r, s
<1>6. PICK p \in SUBSET (0 .. 0 + n - 1) : d = SymDiff(r, Times(t, p))
  BY <1>2 DEF Leaves
<1>7. PICK q \in SUBSET (0 .. 0 + n - 1) : d = SymDiff(s, Times(t, q))
  BY <1>3 DEF Leaves
<1>8. p \subseteq 0 .. n - 1 /\ q \subseteq 0 .. n - 1
  BY <1>1
<1>9. r = s
  <2>1. \A i \in 0 .. n - 1 : i \notin r /\ i \notin s
    BY <1>3, <1>4
  <2>2. SymDiff(r, Times(t, p)) = SymDiff(s, Times(t, q))
    BY <1>6, <1>7
  <2>. QED  BY <1>1, <1>8, <2>1, <2>2, OneRest
<1>10. Times(t, q) \subseteq 0 .. n + t.width - 1
  BY <1>1, <1>8, TimesSpan
<1>11. s \subseteq d \cup Times(t, q)
  BY <1>7 DEF SymDiff
<1>12. s \subseteq n .. n + t.width - 1
  BY <1>1, <1>3, <1>5, <1>10, <1>11
<1>. QED  BY <1>9, <1>12 DEF n, r, s

LEMMA CheckIsRemainder ==
    ASSUME NEW t \in CrcTypes, NEW buf \in Seq(SUBSET (0 .. 7))
    PROVE  FinalCrc(t, Register(t, buf)) = Remainder(Meant(t), buf)
<1>. DEFINE n == 8 * Len(buf)
            L == t.width
            w == Register(t, buf)
            r == Rest(Meant(t), buf, n)
            word == {n + L - 1 - b : b \in r}
<1>1. n \in Nat /\ L \in Nat
  <2>1. Len(buf) \in Nat
    OBVIOUS
  <2>2. n \in Nat
    BY <2>1
  <2>3. L \in Nat
    BY TypeKnown
  <2>. QED  BY <2>2, <2>3
<1>2. Stands(t, w, n) = r /\ r \subseteq n .. n + L - 1
  BY RegisterIsRest
<1>3. w \in SUBSET (0 .. Span(t) - 1)
  BY RegisterLeaves
<1>4. Remainder(Meant(t), buf) =
        SymDiff(t.xorOut, IF Meant(t).refOut THEN {L - 1 - b : b \in word} ELSE word)
  BY MeantKnown DEF Remainder
<1>. HIDE DEF n, w, r
<1>5. CASE L >= 8
  <2>1. Span(t) = L /\ ~(L < 8) /\ L \in 1 .. 32
    BY <1>1, <1>5, TypeKnown
  <2>2. \A j \in n .. n + L - 1 : BitAt(t, n, j) = n + L - 1 - j
    BY <2>1 DEF BitAt
  <2>3. r = {j \in n .. n + L - 1 : n + L - 1 - j \in w}
    BY <1>2, <2>1, <2>2 DEF Stands
  <2>4. word = w
    <3>1. ASSUME NEW c \in w
          PROVE  n + L - 1 - c \in r /\ c = n + L - 1 - (n + L - 1 - c)
      <4>1. c \in 0 .. L - 1
        BY <1>3, <2>1
      <4>. QED  BY <1>1, <2>3, <4>1
    <3>2. \A j \in r : n + L - 1 - j \in w
      BY <2>3
    <3>. QED  BY <3>1, <3>2
  <2>5. Meant(t).refOut = t.refOut
    BY <2>1, MeantKnown
  <2>6. ReflectedData(w, L) = {L - 1 - b : b \in w}
    BY <1>3, <2>1, Reflected
  <2>7. FinalCrc(t, w) = SymDiff(t.xorOut, IF t.refOut THEN ReflectedData(w, L) ELSE w)
    BY <2>1 DEF FinalCrc
  <2>. HIDE DEF word
  <2>. QED  BY <1>4, <2>4, <2>5, <2>6, <2>7 DEF w
<1>6. CASE L < 8 /\ t.refIn
  <2>1. Span(t) = 8
    BY <1>6, TypeKnown
  <2>2. \A j \in n .. n + 7 : BitAt(t, n, j) = j - n
    BY <1>6 DEF BitAt
  <2>3. r = {j \in n .. n + 7 : j - n \in w}
    BY <1>2, <2>1, <2>2 DEF Stands
  <2>4. {L - 1 - b : b \in word} = w
    <3>1. ASSUME NEW c \in w
          PROVE  n + c \in r /\ c = L - 1 - (n + L - 1 - (n + c))
      <4>1. c \in 0 .. 7
        BY <1>3, <2>1
      <4>. QED  BY <1>1, <2>3, <4>1
    <3>2. ASSUME NEW j \in r
          PROVE  L - 1 - (n + L - 1 - j) \in w
      <4>1. j \in n .. n + 7 /\ j - n \in w
        BY <2>3
      <4>2. L - 1 - (n + L - 1 - j) = j - n
        BY <1>1, <4>1
      <4>. QED  BY <4>1, <4>2
    <3>3. \A c \in w : c \in {L - 1 - b : b \in word}
      BY <3>1
    <3>4. \A b \in word : L - 1 - b \in w
      BY <3>2
    <3>. QED  BY <3>3, <3>4
  <2>5. Meant(t).refOut = TRUE
    BY <1>6, MeantKnown
  <2>6. FinalCrc(t, w) = SymDiff(t.xorOut, w)
    BY <1>6 DEF FinalCrc
  <2>. HIDE DEF word
  <2>. QED  BY <1>4, <2>4, <2>5, <2>6 DEF w
<1>7. CASE L < 8 /\ ~t.refIn
  <2>1. Span(t) = 8 /\ L < 8
    BY <1>7, TypeKnown
  <2>2. \A j \in n .. n + 7 : BitAt(t, n, j) = n + 7 - j
    BY <1>7, <2>1 DEF BitAt
  <2>3. r = {j \in n .. n + 7 : n + 7 - j \in w}
    BY <1>2, <2>1, <2>2 DEF Stands
  <2>4. word = ShiftRight(w, 8 - L)
    <3>1. ASSUME NEW c \in w
          PROVE  /\ n + 7 - c \in r /\ c >= 8 - L
                 /\ c - (8 - L) = n + L - 1 - (n + 7 - c)
      <4>1. c \in 0 .. 7
        BY <1>3, <2>1
      <4>2. n + 7 - c \in r
        BY <1>1, <2>3, <4>1
      <4>3. n + 7 - c \in n .. n + L - 1
        BY <1>2, <4>2
      <4>. QED  BY <1>1, <2>1, <4>1, <4>2, <4>3
    <3>2. ASSUME NEW j \in r
          PROVE  n + 7 - j \in w /\ n + L - 1 - j = (n + 7 - j) - (8 - L)
      <4>1. j \in n .. n + 7 /\ n + 7 - j \in w
        BY <2>3
      <4>. QED  BY <1>1, <2>1, <4>1
    <3>3. \A b \in word : b \in ShiftRight(w, 8 - L)
      BY <3>1, <3>2 DEF ShiftRight
    <3>4. \A b \in ShiftRight(w, 8 - L) : b \in word
      BY <3>1 DEF ShiftRight
    <3>. QED  BY <3>3, <3>4
  <2>5. ~Meant(t).refOut
    <3>1. Meant(t).refOut = t.refIn
      BY <1>7, MeantKnown
    <3>. QED  BY <1>7, <3>1
  <2>6. FinalCrc(t, w) = SymDiff(t.xorOut, ShiftRight(w, 8 - L))
    BY <1>7 DEF FinalCrc
  <2>. HIDE DEF word
  <2>. QED  BY <1>4, <2>4, <2>5, <2>6 DEF w
<1>. QED  BY <1>1, <1>5, <1>6, <1>7

LEMMA MessageKnown ==
    ASSUME NEW t, NEW buf \in Seq(SUBSET (0 .. 7)), NEW x
    PROVE  /\ x \in MessageBits(t, buf) <=>
                 \E j \in 1 .. Len(buf) : x \in Wire(t, buf[j], 8 * (j - 1))
           /\ \A j \in 1 .. Len(buf) : Wire(t, buf[j], 8 * (j - 1)) \subseteq 8 * (j - 1) .. 8 * j - 1
<1>1. Len(buf) \in Nat /\ DOMAIN buf = 1 .. Len(buf)
  OBVIOUS
<1>2. x \in MessageBits(t, buf) <=>
        \E j \in 1 .. Len(buf) : x \in Wire(t, buf[j], 8 * (j - 1))
  BY <1>1 DEF MessageBits, Wire
<1>3. ASSUME NEW j \in 1 .. Len(buf)
      PROVE  Wire(t, buf[j], 8 * (j - 1)) \subseteq 8 * (j - 1) .. 8 * j - 1
  <2>1. buf[j] \subseteq 0 .. 7
    OBVIOUS
  <2>. QED  BY <2>1 DEF Wire
<1>. QED  BY <1>2, <1>3

\* Messages that agree in the bits agree in the bytes.
LEMMA SameMessage ==
    ASSUME NEW t, NEW a \in Seq(SUBSET (0 .. 7)), NEW b \in Seq(SUBSET (0 .. 7)),
           Len(a) = Len(b), MessageBits(t, a) = MessageBits(t, b), NEW j \in 1 .. Len(a)
    PROVE  a[j] \subseteq b[j]
<1>1. SUFFICES ASSUME NEW c \in a[j]
               PROVE  c \in b[j]
  OBVIOUS
<1>. DEFINE x == 8 * (j - 1) + (IF t.refIn THEN c ELSE 7 - c)
<1>2. j \in Nat /\ c \in 0 .. 7 /\ j \in 1 .. Len(b)
  OBVIOUS
<1>3. x \in Wire(t, a[j], 8 * (j - 1))
  BY DEF Wire
<1>. HIDE DEF x
<1>4. x \in MessageBits(t, b)
  BY <1>3, MessageKnown
<1>5. PICK k \in 1 .. Len(b) : x \in Wire(t, b[k], 8 * (k - 1))
  BY <1>4, MessageKnown
<1>6. x \in 8 * (j - 1) .. 8 * j - 1 /\ x \in 8 * (k - 1) .. 8 * k - 1
  BY <1>3, <1>5, MessageKnown
<1>7. k = j
  BY <1>2, <1>6
<1>8. PICK e \in b[j] : x = 8 * (j - 1) + (IF t.refIn THEN e ELSE 7 - e)
  BY <1>5, <1>7 DEF Wire
<1>9. e \in 0 .. 7
  BY <1>2
<1>10. e = c
  BY <1>2, <1>8, <1>9 DEF x
<1>. QED  BY <1>8, <1>10

LEMMA FinalKnown ==
    ASSUME NEW t \in CrcTypes, t.width >= 8,
           NEW v \in SUBSET (0 .. t.width - 1), NEW w \in SUBSET (0 .. t.width - 1),
           FinalCrc(t, v) = FinalCrc(t, w)
    PROVE  v = w
<1>. DEFINE L == t.width
            X(u) == IF t.refOut THEN ReflectedData(u, L) ELSE u
<1>1. L \in Nat /\ L \in 1 .. 32 /\ ~(L < 8)
  BY TypeKnown
<1>2. FinalCrc(t, v) = SymDiff(t.xorOut, X(v)) /\ FinalCrc(t, w) = SymDiff(t.xorOut, X(w))
  BY <1>1 DEF FinalCrc
<1>3. X(v) = X(w)
  <2>. HIDE DEF X
  <2>. QED  BY <1>2 DEF SymDiff
<1>4. CASE t.refOut
  <2>1. ReflectedData(v, L) = {L - 1 - b : b \in v} /\ ReflectedData(w, L) = {L - 1 - b : b \in w}
    BY <1>1, Reflected
  <2>2. {L - 1 - b : b \in v} = {L - 1 - b : b \in w}
    BY <1>3, <1>4, <2>1
  <2>3. \A b \in v : \A c \in w : L - 1 - b = L - 1 - c => b = c
    BY <1>1
  <2>4. ASSUME NEW b \in v
        PROVE  b \in w
    <3>1. PICK c \in w : L - 1 - b = L - 1 - c
      BY <2>2
    <3>. QED  BY <2>3, <3>1
  <2>5. ASSUME NEW c \in w
        PROVE  c \in v
    <3>1. PICK b \in v : L - 1 - b = L - 1 - c
      BY <2>2
    <3>. QED  BY <2>3, <3>1
  <2>. QED  BY <2>4, <2>5
<1>5. CASE ~t.refOut
  BY <1>3, <1>5
<1>. QED  BY <1>4, <1>5

\* Two buffers that differ within bytes i .. i + k.
LEMMA BurstFound ==
    ASSUME NEW t \in CrcTypes, 0 \in t.poly,
           NEW a \in Seq(SUBSET (0 .. 7)), NEW b \in Seq(SUBSET (0 .. 7)), Len(a) = Len(b),
           NEW i \in 1 .. Len(a), NEW k \in Nat, 8 * (k + 1) <= t.width,
           \A j \in 1 .. Len(a) : a[j] = b[j] \/ j \in i .. i + k,
           FinalCrc(t, Register(t, a)) = FinalCrc(t, Register(t, b))
    PROVE  a = b
<1>. DEFINE n == 8 * Len(a)
            m == Meant(t)
            A == MessageBits(m, a)
            B == MessageBits(m, b)
            r == Stands(t, Register(t, a), n)
<1>1. Len(a) \in Nat /\ n \in Nat /\ t.width \in Nat /\ t.width >= 8 /\ Span(t) = t.width
  <2>1. Len(a) \in Nat
    OBVIOUS
  <2>2. n \in Nat
    BY <2>1
  <2>3. t.width \in Nat
    BY TypeKnown
  <2>4. t.width >= 8
    BY <2>3
  <2>. QED  BY <2>1, <2>2, <2>3, <2>4, TypeKnown
<1>2. Register(t, a) = Register(t, b)
  <2>1. /\ Register(t, a) \in SUBSET (0 .. t.width - 1)
        /\ Register(t, b) \in SUBSET (0 .. t.width - 1)
    BY <1>1, RegisterLeaves
  <2>. QED  BY <1>1, <2>1, FinalKnown
<1>3. Leaves(t, Dividend(m, a), r, 0, n) /\ Leaves(t, Dividend(m, b), r, 0, n)
  BY <1>2, RegisterLeaves
<1>4. Dividend(m, a) = SymDiff(A, Start(m)) /\ Dividend(m, b) = SymDiff(B, Start(m))
  BY DEF Dividend, Start
<1>. HIDE DEF n, m, A, B, r
<1>5. PICK p \in SUBSET (0 .. 0 + n - 1) : Dividend(m, a) = SymDiff(r, Times(t, p))
  BY <1>3 DEF Leaves
<1>6. PICK q \in SUBSET (0 .. 0 + n - 1) : Dividend(m, b) = SymDiff(r, Times(t, q))
  BY <1>3 DEF Leaves
<1>. DEFINE u == SymDiff(p, q)
<1>7. u \subseteq 0 .. n - 1
  BY <1>1 DEF SymDiff
<1>8. SymDiff(A, B) = Times(t, u)
  <2>1. IsFiniteSet(p) /\ IsFiniteSet(q)
    <3>1. 0 \in Int /\ 0 + n - 1 \in Int
      BY <1>1
    <3>2. IsFiniteSet(0 .. 0 + n - 1)
      BY <3>1, FS_Interval
    <3>. QED  BY <3>2, FS_Subset
  <2>2. Times(t, u) = SymDiff(Times(t, p), Times(t, q))
    BY <2>1, TimesXor
  <2>. HIDE DEF u
  <2>3. SymDiff(SymDiff(A, Start(m)), SymDiff(B, Start(m))) = SymDiff(A, B)
    BY DEF SymDiff
  <2>4. SymDiff(SymDiff(r, Times(t, p)), SymDiff(r, Times(t, q))) = SymDiff(Times(t, p), Times(t, q))
    BY DEF SymDiff
  <2>. QED  BY <1>4, <1>5, <1>6, <2>2, <2>3, <2>4
<1>9. ASSUME NEW x \in SymDiff(A, B)
      PROVE  x \in 8 * (i - 1) .. 8 * (i + k) - 1
  <2>1. PICK j \in 1 .. Len(a) : /\ j \in i .. i + k
                                 /\ x \in 8 * (j - 1) .. 8 * j - 1
    <3>1. CASE x \in A /\ x \notin B
      <4>1. PICK j \in 1 .. Len(a) : x \in Wire(m, a[j], 8 * (j - 1))
        BY <3>1, MessageKnown DEF A
      <4>2. x \notin Wire(m, b[j], 8 * (j - 1))
        BY <3>1, MessageKnown DEF B
      <4>3. j \in i .. i + k
        BY <4>1, <4>2
      <4>4. x \in 8 * (j - 1) .. 8 * j - 1
        BY <4>1, MessageKnown
      <4>. QED  BY <4>3, <4>4
    <3>2. CASE x \in B /\ x \notin A
      <4>1. PICK j \in 1 .. Len(b) : x \in Wire(m, b[j], 8 * (j - 1))
        BY <3>2, MessageKnown DEF B
      <4>2. x \notin Wire(m, a[j], 8 * (j - 1))
        BY <3>2, MessageKnown DEF A
      <4>3. j \in i .. i + k
        BY <4>1, <4>2
      <4>4. x \in 8 * (j - 1) .. 8 * j - 1
        BY <4>1, MessageKnown
      <4>. QED  BY <4>3, <4>4
    <3>. QED  BY <3>1, <3>2 DEF SymDiff
  <2>. QED  BY <1>1, <2>1
<1>10. u = {}
  <2>1. SUFFICES ASSUME u # {}
                 PROVE  FALSE
    OBVIOUS
  <2>2. PICK x, y \in u : x <= y /\ x \in Times(t, u) /\ y + t.width \in Times(t, u)
    <3>. HIDE DEF u
    <3>. QED  BY <1>1, <1>7, <2>1, TimesEnds
  <2>. HIDE DEF u
  <2>3. /\ x \in 8 * (i - 1) .. 8 * (i + k) - 1
        /\ y + t.width \in 8 * (i - 1) .. 8 * (i + k) - 1
    BY <1>8, <1>9, <2>2
  <2>4. x \in Nat /\ y \in Nat
    BY <1>1, <1>7
  <2>. QED  BY <1>1, <2>2, <2>3, <2>4
<1>11. A = B
  <2>1. Times(t, {}) = {}
    BY TimesNone
  <2>2. SymDiff(A, B) = {}
    BY <1>8, <1>10, <2>1
  <2>. QED  BY <2>2 DEF SymDiff
<1>12. \A j \in 1 .. Len(a) : a[j] = b[j]
  BY <1>11, SameMessage DEF A, B
<1>. QED  BY <1>12

LEMMA BuffersOfBytes ==
    ASSUME NEW s \in Seq(Bytes)
    PROVE  s \in Seq(SUBSET (0 .. 7))
<1>. DEFINE T == SUBSET (0 .. 7)
<1>1. Bytes \subseteq T
  BY CrcAssumption
<1>. HIDE DEF T
<1>2. Len(s) \in Nat /\ s \in [1 .. Len(s) -> Bytes]
  OBVIOUS
<1>3. s \in [1 .. Len(s) -> T]
  BY <1>1, <1>2
<1>4. s \in Seq(T)
  BY <1>2, <1>3, SeqDef
<1>. QED  BY <1>4 DEF T

\* The register is the one that CrcCheck reaches for the bytes so far.
THEOREM CrcInvariant == CrcSpec => []CrcInv
<1>0. Bytes \subseteq SUBSET (0 .. 7)
  BY CrcAssumption
<1>1. CrcInit => CrcInv
  BY DEF CrcInit, CrcInv
<1>2. CrcInv /\ [CrcNext]_crcVars => CrcInv'
  <2>1. SUFFICES ASSUME CrcInv, [CrcNext]_crcVars
                 PROVE  CrcInv'
    OBVIOUS
  <2>2. CASE UNCHANGED crcVars
    BY <2>1, <2>2 DEF CrcInv, crcVars, Register
  <2>3. ASSUME NEW t \in CrcTypes, CrcCall(t)
        PROVE  CrcInv'
    <3>1. ctype' = t /\ buffer' = <<>> /\ crc' = InitialCrc(t)
      BY <2>3 DEF CrcCall
    <3>2. Register(t, <<>>) = InitialCrc(t)
      <4>1. <<>> \in Seq(SUBSET (0 .. 7)) /\ {} \in SUBSET (0 .. 7)
        OBVIOUS
      <4>. QED  BY <4>1, RegisterAppend
    <3>. QED  BY <3>1, <3>2 DEF CrcInv, Register
  <2>4. ASSUME NEW b \in Bytes, CrcByte(b)
        PROVE  CrcInv'
    <3>1. /\ ctype \in CrcTypes /\ buffer \in Seq(Bytes) /\ crc = Register(ctype, buffer)
          /\ ctype' = ctype /\ buffer' = Append(buffer, b) /\ crc' = CheckByte(ctype, crc, b)
      BY <2>1, <2>4 DEF CrcInv, CrcByte
    <3>2. buffer \in Seq(SUBSET (0 .. 7)) /\ b \in SUBSET (0 .. 7) /\ buffer' \in Seq(Bytes)
      <4>1. buffer \in Seq(SUBSET (0 .. 7))
        BY <3>1, BuffersOfBytes
      <4>2. b \in SUBSET (0 .. 7)
        BY <1>0
      <4>3. buffer' \in Seq(Bytes)
        BY <3>1
      <4>. QED  BY <4>1, <4>2, <4>3
    <3>3. Register(ctype, Append(buffer, b)) = CheckByte(ctype, Register(ctype, buffer), b)
      BY <3>1, <3>2, RegisterAppend
    <3>. QED  BY <3>1, <3>2, <3>3 DEF CrcInv, Register
  <2>. QED  BY <2>1, <2>2, <2>3, <2>4 DEF CrcNext
<1>. QED  BY <1>1, <1>2, PTL DEF CrcSpec

\* For every width, polynomial, direction, initial value and buffer: after each
\* byte, what CrcCheck would return is the remainder of the long division of the
\* bytes so far by the polynomial.
THEOREM ChecksumIsRemainder == CrcSpec => []CrcIsRemainder
<1>1. CrcInv => CrcIsRemainder
  <2>1. SUFFICES ASSUME CrcInv, ctype # <<>>
                 PROVE  FinalCrc(ctype, crc) = Remainder(Meant(ctype), buffer)
    BY DEF CrcIsRemainder
  <2>2. ctype \in CrcTypes /\ buffer \in Seq(Bytes) /\ crc = Register(ctype, buffer)
    BY <2>1 DEF CrcInv
  <2>3. buffer \in Seq(SUBSET (0 .. 7))
    BY <2>2, BuffersOfBytes
  <2>. QED  BY <2>2, <2>3, CheckIsRemainder
<1>. QED  BY <1>1, CrcInvariant, PTL

\* For every CRC whose polynomial has a constant term and for buffers of any
\* length: no change within adjacent bytes that the checksum is as long as keeps
\* the checksum, which is what the asserts of the readers rely on.
THEOREM BurstsChangeChecksum == CrcSpec => []CrcTellsApart
<1>1. CrcInv => CrcTellsApart
  <2>1. SUFFICES ASSUME CrcInv, NEW i \in 1 .. Len(buffer), NEW k \in 0 .. 3,
                        i + k <= Len(buffer), 8 * (k + 1) <= ctype.width, 0 \in ctype.poly,
                        NEW d \in [i .. i + k -> Bytes]
                 PROVE  LET other == [j \in DOMAIN buffer |->
                                        IF j \in i .. i + k THEN d[j] ELSE buffer[j]]
                        IN  CrcCheck(ctype, other) = FinalCrc(ctype, crc) => other = buffer
    BY DEF CrcTellsApart
  <2>2. buffer # <<>>
    BY <2>1
  <2>3. ctype \in CrcTypes /\ buffer \in Seq(Bytes) /\ crc = Register(ctype, buffer)
    BY <2>1, <2>2 DEF CrcInv
  <2>. DEFINE other == [j \in DOMAIN buffer |-> IF j \in i .. i + k THEN d[j] ELSE buffer[j]]
  <2>4. /\ buffer \in Seq(SUBSET (0 .. 7)) /\ Len(buffer) \in Nat
        /\ DOMAIN buffer = 1 .. Len(buffer) /\ \A j \in 1 .. Len(buffer) : buffer[j] \in Bytes
    <3>1. buffer \in Seq(SUBSET (0 .. 7))
      BY <2>3, BuffersOfBytes
    <3>2. /\ Len(buffer) \in Nat /\ DOMAIN buffer = 1 .. Len(buffer)
          /\ \A j \in 1 .. Len(buffer) : buffer[j] \in Bytes
      BY <2>3
    <3>. QED  BY <3>1, <3>2
  <2>5. other \in [1 .. Len(buffer) -> Bytes]
    BY <2>4
  <2>6. other \in Seq(SUBSET (0 .. 7)) /\ Len(other) = Len(buffer)
    <3>. HIDE DEF other
    <3>1. other \in Seq(Bytes) /\ Len(other) = Len(buffer)
      BY <2>4, <2>5
    <3>. QED  BY <3>1, BuffersOfBytes
  <2>7. \A j \in 1 .. Len(buffer) : other[j] = buffer[j] \/ j \in i .. i + k
    BY <2>4
  <2>. HIDE DEF other
  <2>8. ASSUME CrcCheck(ctype, other) = FinalCrc(ctype, crc)
        PROVE  other = buffer
    <3>1. FinalCrc(ctype, Register(ctype, other)) = FinalCrc(ctype, Register(ctype, buffer))
      BY <2>3, <2>8 DEF CrcCheck
    <3>2. k \in Nat /\ i \in 1 .. Len(other)
      BY <2>6
    <3>3. \A j \in 1 .. Len(other) : other[j] = buffer[j] \/ j \in i .. i + k
      BY <2>6, <2>7
    <3>. QED  BY <2>1, <2>3, <2>4, <2>6, <3>1, <3>2, <3>3, BurstFound
  <2>. QED  BY <2>8 DEF other
<1>. QED  BY <1>1, CrcInvariant, PTL
=============================================================================
