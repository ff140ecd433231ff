------------------------------ MODULE MCLoops -------------------------------
(* The programs that are small enough to be checked in one run: the queues *)
(* (MCQueues), and four pieces of code that turn sizes and addresses into  *)
(* loops: checksum, cache flush, split of a copy over an accelerator's     *)
(* jobs, slices of a mapping.  They share nothing; a behaviour runs one.   *)
EXTENDS MCQueues, Crc, FlushRange, DsaMove, RandNamespace

Type(width, poly, init, refIn, refOut, xorOut) ==
    [width |-> width, poly |-> poly, init |-> init, refIn |-> refIn,
     refOut |-> refOut, xorOut |-> xorOut]

\* One type or two for each width and direction, and for what the code does not
\* do below 8 bits: reflect init, or the result by refOut.
MCCrcTypes ==
    { Crc32,
      [Crc32 EXCEPT !.refIn = FALSE, !.refOut = FALSE, !.xorOut = {}],
      Type(16, {0, 2, 15}, {}, TRUE, TRUE, {}),
      Type(16, {0, 5, 12}, 0 .. 15, FALSE, FALSE, {}),
      Type(16, {0, 5, 12}, {1, 3, 4}, FALSE, TRUE, 0 .. 15),
      Type(8, {0, 1, 2}, {}, FALSE, FALSE, {0, 2, 4, 6}),
      Type(8, {0, 4, 5}, {1}, TRUE, TRUE, {}),
      Type(7, {0, 3}, {1}, FALSE, FALSE, {}),
      Type(6, {0, 1}, {}, TRUE, TRUE, {}),
      Type(5, {0, 2}, 0 .. 4, TRUE, TRUE, 0 .. 4),
      Type(5, {0, 3}, {0, 3}, FALSE, FALSE, {}),
      Type(5, {0, 3}, {0, 1}, FALSE, TRUE, {2}),
      Type(4, {0, 1}, {}, TRUE, TRUE, {}),
      Type(4, {1, 2}, {0}, TRUE, FALSE, {3}) }

MCBytes == {{}, {0}, {0, 1, 4, 6}, 0 .. 7}

VARIABLE program

loopVars == <<crcVars, flushVars, dsaVars, randVars>>

LoopsInit ==
    /\ program \in {"queue", "crc", "flush", "dsa", "rand"}
    /\ MCInit /\ CrcInit /\ FlushInit /\ DsaInit /\ RandInit

\* A program that has come to its end stays there; nothing else may stop.
Ended ==
    \/ ctype # <<>> /\ Len(buffer) = MaxLength
    \/ fpc = "done"
    \/ dpc \in {"null", "failed", "done"} /\ flight = {}
    \/ npc = "done"

LoopsNext ==
    /\ \/ program = "queue" /\ MCNext /\ UNCHANGED loopVars
       \/ program = "crc" /\ CrcNext /\ UNCHANGED <<queueVars, flushVars, dsaVars, randVars>>
       \/ program = "flush" /\ FlushNext /\ UNCHANGED <<queueVars, crcVars, dsaVars, randVars>>
       \/ program = "dsa" /\ DsaNext /\ UNCHANGED <<queueVars, crcVars, flushVars, randVars>>
       \/ program = "rand" /\ RandNext /\ UNCHANGED <<queueVars, crcVars, flushVars, dsaVars>>
       \/ Ended /\ UNCHANGED <<queueVars, loopVars>>
    /\ UNCHANGED program

LoopsSpec == LoopsInit /\ [][LoopsNext]_<<program, queueVars, loopVars>>
=============================================================================
