-------------------------------- MODULE Crc ---------------------------------
(***************************************************************************)
(* cxl_memory_sharing/crc.c: the checksums, a byte of the buffer at a      *)
(* time.  A machine word is the set of its bits that are 1, bit 0 lowest,  *)
(* so that xor is the symmetric difference.                                *)
(***************************************************************************)
EXTENDS Integers, Sequences, FiniteSetsExt

CONSTANTS
    CrcTypes,   \* the CRC_Types to compute
    Bytes,      \* the bytes a buffer is made of
    MaxLength   \* bound: bytes of a buffer

ASSUME CrcAssumption ==
    /\ \A t \in CrcTypes :
          /\ t.width \in {4, 5, 6, 7, 8, 16, 32}
          /\ t.poly \cup t.init \cup t.xorOut \subseteq 0 .. t.width - 1
          /\ t.refIn \in BOOLEAN /\ t.refOut \in BOOLEAN
    /\ \A b \in Bytes : b \subseteq 0 .. 7
    /\ MaxLength \in Nat

VARIABLES
    ctype,      \* the CRC_Type of the call, or <<>>
    buffer,     \* the bytes the loop has gone through
    crc         \* the register
crcVars == <<ctype, buffer, crc>>

ShiftLeft(w, k, bits) == {b + k : b \in {x \in w : x + k < bits}}
ShiftRight(w, k) == {b - k : b \in {x \in w : x >= k}}

\* Neighbouring fields of k bits change places.
SwapFields(w, k) ==
    LET high == {b \in w : (b \div k) % 2 = 1}
    IN  ShiftRight(high, k) \cup ShiftLeft(w \ high, k, 32)

ReflectedData(data, mode) ==
    LET halves == SwapFields(data, 16)
        nibbles == SwapFields(SwapFields(halves, 8), 4)
    IN  ShiftRight(SwapFields(SwapFields(nibbles, 2), 1), 32 - mode)

\* One round of the shift loops.
RightBit(w, poly) ==
    IF 0 \in w THEN SymDiff(ShiftRight(w, 1), poly) ELSE ShiftRight(w, 1)

SlipLeftBit(w, poly, bits) == ShiftLeft(w, 1, bits)     \* no polynomial

LeftBit(w, poly, bits) ==
    IF bits - 1 \in w THEN SymDiff(ShiftLeft(w, 1, bits), poly)
                      ELSE ShiftLeft(w, 1, bits)

\* CheckCrc4 to CheckCrc7 have the polynomial at the low end (refIn) or at the
\* high end of an 8-bit register.
Round(t, w) ==
    IF t.width >= 8 THEN LeftBit(w, t.poly, t.width)
    ELSE IF t.refIn THEN RightBit(w, ReflectedData(t.poly, t.width))
    ELSE LeftBit(w, ShiftLeft(t.poly, 8 - t.width, 8), 8)

\* for (i = 0; i < 8; i++).
Rounds(t, w) ==
    LET reg[i \in 0 .. 8] == IF i = 0 THEN w ELSE Round(t, reg[i - 1])
    IN  reg[8]

\* CheckCrc4 to CheckCrc7.
SmallByte(t, w, byte) == Rounds(t, SymDiff(w, byte))

\* CheckCrc8, CheckCrc16, CheckCrc32.
WideByte(t, w, byte) ==
    LET in == IF t.refIn THEN ReflectedData(byte, 8) ELSE byte
    IN  Rounds(t, SymDiff(w, ShiftLeft(in, t.width - 8, t.width)))

CheckByte(t, w, byte) ==
    IF t.width < 8 THEN SmallByte(t, w, byte) ELSE WideByte(t, w, byte)

InitialCrc(t) ==
    IF t.width < 8 /\ ~t.refIn THEN ShiftLeft(t.init, 8 - t.width, 8) ELSE t.init

\* What the functions return for the register.
SlipFinalCrc(t, w) == SymDiff(w, t.xorOut)      \* no reflection, no shift

FinalCrc(t, w) ==
    SymDiff(t.xorOut,
            IF t.width < 8
            THEN IF t.refIn THEN w ELSE ShiftRight(w, 8 - t.width)
            ELSE IF t.refOut THEN ReflectedData(w, t.width) ELSE w)

\* The register after the bytes of a buffer.
Register(t, buf) ==
    LET reg[i \in 0 .. Len(buf)] ==
            IF i = 0 THEN InitialCrc(t) ELSE CheckByte(t, reg[i - 1], buf[i])
    IN  reg[Len(buf)]

CrcCheck(t, buf) == FinalCrc(t, Register(t, buf))

\* The type of calculate_crc32, with the bits of 0x04c11db7.
Crc32 == [width |-> 32, poly |-> {0, 1, 2, 4, 5, 7, 8, 10, 11, 12, 16, 22, 23, 26},
          init |-> 0 .. 31, refIn |-> TRUE, refOut |-> TRUE, xorOut |-> 0 .. 31]

-----------------------------------------------------------------------------
CrcInit == ctype = <<>> /\ buffer = <<>> /\ crc = {}

CrcCall(t) ==
    /\ ctype = <<>>
    /\ ctype' = t /\ buffer' = <<>> /\ crc' = InitialCrc(t)

\* while (length--).
CrcByte(b) ==
    /\ ctype # <<>> /\ Len(buffer) < MaxLength
    /\ crc' = CheckByte(ctype, crc, b)
    /\ buffer' = Append(buffer, b) /\ ctype' = ctype

CrcNext == (\E t \in CrcTypes : CrcCall(t)) \/ (\E b \in Bytes : CrcByte(b))

CrcSpec == CrcInit /\ [][CrcNext]_crcVars

-----------------------------------------------------------------------------
(* The reference: long division of the message, as a set of bit numbers in *)
(* the order of transmission, by the polynomial.                           *)

MessageBits(t, buf) ==
    UNION {{8 * (i - 1) + (IF t.refIn THEN b ELSE 7 - b) : b \in buf[i]}
             : i \in DOMAIN buf}

\* The polynomial with its highest power, x^width, at bit number i.
Divisor(t, i) == {i} \cup {i + t.width - b : b \in t.poly}

Dividend(t, buf) ==
    SymDiff(MessageBits(t, buf), {t.width - 1 - b : b \in t.init})

\* One step of the division takes out bit number i.
Divide(t, r, i) == IF i \in r THEN SymDiff(r, Divisor(t, i)) ELSE r

\* What is left when the first n bits are divided.
Rest(t, buf, n) ==
    LET rest[i \in 0 .. n] ==
            IF i = 0 THEN Dividend(t, buf) ELSE Divide(t, rest[i - 1], i - 1)
    IN  rest[n]

Remainder(t, buf) ==
    LET n == 8 * Len(buf)
        word == {n + t.width - 1 - b : b \in Rest(t, buf, n)}
    IN  SymDiff(t.xorOut,
                IF t.refOut THEN {t.width - 1 - b : b \in word} ELSE word)

\* Below 8 bits the code leaves the checksum in the order of the input,
\* whatever refOut says, and takes init in that order too.
Meant(t) ==
    LET small == t.width < 8
    IN  [width |-> t.width, poly |-> t.poly, refIn |-> t.refIn,
         xorOut |-> t.xorOut,
         refOut |-> IF small THEN t.refIn ELSE t.refOut,
         init |-> IF small /\ t.refIn THEN {t.width - 1 - b : b \in t.init}
                                      ELSE t.init]

\* After every byte, what CrcCheck would return for the bytes so far is the
\* remainder of their polynomial: the masks and shifts of ReflectedData, the
\* two directions of the register, its alignment for widths under 8 and the
\* truncation to the width agree with the definition of a CRC.
CrcIsRemainder ==
    ctype # <<>> => FinalCrc(ctype, crc) = Remainder(Meant(ctype), buffer)

\* What the readers' assert rests on: two buffers that differ only within
\* adjacent bytes no longer than the checksum never have the same checksum,
\* if the polynomial is not a multiple of x.
CrcTellsApart ==
    \A i \in 1 .. Len(buffer), k \in 0 .. 3 :
        i + k <= Len(buffer) /\ 8 * (k + 1) <= ctype.width /\ 0 \in ctype.poly =>
            \A d \in [i .. i + k -> Bytes] :
                LET other == [j \in DOMAIN buffer |->
                                IF j \in i .. i + k THEN d[j] ELSE buffer[j]]
                IN  CrcCheck(ctype, other) = FinalCrc(ctype, crc) => other = buffer

-----------------------------------------------------------------------------
(* Why these properties hold: LoopsProofs.                                 *)

\* The register is a function of the bytes so far.
CrcInv ==
    \/ ctype = <<>> /\ buffer = <<>>
    \/ ctype \in CrcTypes /\ buffer \in Seq(Bytes) /\ crc = Register(ctype, buffer)
=============================================================================
