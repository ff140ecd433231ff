------------------------------ MODULE QueueAof ------------------------------
(***************************************************************************)
(* simple_fifo_queue/queue_aof.cpp: a queue in memory, and a file to which *)
(* every command that changes it appends a line, with fflush and fsync;    *)
(* the next run of the program replays the file.                           *)
(*                                                                         *)
(* A line is what the replay makes of it: [op, val, nl], nl telling        *)
(* whether a newline ends it.  A power failure may leave a prefix of the   *)
(* last line, and the next line is then appended to that prefix:           *)
(*   "junk"   a first word that is no command                              *)
(*   "word"   "enque", and "space" "enque ": no number follows             *)
(*   "enque"  a number follows, all of it or its first digits              *)
(* Numbers have at most two digits here (and fit in buf[32] in the code).  *)
(***************************************************************************)
EXTENDS Integers, Sequences, FiniteSets, SequencesExt

CONSTANTS
    Numbers,        \* values of the enque command
    PrequeLen,      \* 10000
    MaxLines,       \* bound: lines written
    MaxTears        \* bound: power failures that tear a line

ASSUME AofAssumption ==
    Numbers \subseteq 0 .. 99 /\ {PrequeLen, MaxLines, MaxTears} \subseteq Nat

VARIABLES
    files,          \* the contents of the file at the last fsync and after each
    cache,          \*   line since then, and these lines
    mem,            \* the values in the list; head and tail are NULL when empty
    made,           \* pmem_queue # NULL
    apc,            \* where main is
    at,             \* the line the replay has come to
    line,           \* the line to append
    preque,         \* values of a preque command that are still to come
    done,           \* history: the commands whose lines are durable, in order,
    tears           \*   and how many lines a power failure tore
aofFile == <<files, cache>>
aofHist == <<done, tears>>
aofVars == <<aofFile, mem, made, apc, at, line, preque, aofHist>>

EnqueLine(v) == [op |-> "enque", val |-> v, nl |-> TRUE]
DequeLine == [op |-> "deque", val |-> 0, nl |-> TRUE]
Junk == [op |-> "junk", val |-> 0, nl |-> TRUE]

\* What the replay reads where x was appended to a line that is cut short.
JoinLines(cut, x) ==
    CASE cut.op = "space" -> [EnqueLine(0) EXCEPT !.nl = x.nl]      \* atoi("enque")
      [] cut.op = "enque" -> [cut EXCEPT !.nl = x.nl]               \* atoi("7enque")
      [] OTHER            -> [Junk EXCEPT !.nl = x.nl]

AppendLine(f, x) ==
    IF f # <<>> /\ ~Last(f).nl THEN Append(Front(f), JoinLines(Last(f), x))
                               ELSE Append(f, x)

File == Last(files)         \* as the kernel has it; files[1] is on the disk

\* The proper prefixes of a line.
TornFrom(x) ==
    LET ops == IF x.op = "deque" THEN {"junk", "deque"} ELSE {"junk", "word", "space"}
    IN  {[op |-> o, val |-> 0, nl |-> FALSE] : o \in ops} \cup
        IF x.op = "deque" THEN {}
        ELSE {[x EXCEPT !.val = v, !.nl = FALSE]
                : v \in {x.val} \cup (IF x.val > 9 THEN {x.val \div 10} ELSE {})}

-----------------------------------------------------------------------------
AofInit ==
    /\ files = << <<>> >> /\ cache = <<>> /\ mem = <<>> /\ made = FALSE
    /\ apc = "down" /\ at = 1 /\ line = Junk /\ preque = 0
    /\ done = <<>> /\ tears = 0

\* The process is gone; the file stays as the kernel has it.
Gone == mem' = <<>> /\ made' = FALSE /\ at' = 1 /\ line' = Junk /\ preque' = 0 /\ apc' = "down"

StartAof ==
    /\ apc = "down"
    /\ apc' = "replay"
    /\ UNCHANGED <<aofFile, mem, made, at, line, preque, aofHist>>

\* queue_enque_v: tail->next where the last node was dequeued is a NULL pointer.
EnqueDies == made /\ mem = <<>>
EnqueV(v) == mem' = Append(mem, v) /\ made' = TRUE

\* queue_deque_v: -1 without a queue; head->next of a NULL head.
DequeDies == made /\ mem = <<>>
DequeV == mem' = (IF made THEN Tail(mem) ELSE mem) /\ made' = made

\* "deque\n" is not "deque": only a last line without its newline is.
SlipReplays(l) ==                       \* "deque\n" is taken for "deque"
    CASE l.op = "deque"                      -> "deque"
      [] l.op \in {"enque", "word", "space"} -> "enque"
      [] OTHER                               -> "none"

Replays(l) ==
    CASE l.op = "deque" /\ ~l.nl             -> "deque"
      [] l.op \in {"enque", "word", "space"} -> "enque"
      [] OTHER                               -> "none"

\* atoi(NULL) for an enque without a number.
ReplayDies(l) ==
    \/ Replays(l) = "enque" /\ (EnqueDies \/ l.op # "enque")
    \/ Replays(l) = "deque" /\ DequeDies

Replay ==
    /\ apc = "replay" /\ at <= Len(File)
    /\ LET l == File[at] IN
       /\ ~ReplayDies(l)
       /\ CASE Replays(l) = "enque" -> EnqueV(l.val)
            [] Replays(l) = "deque" -> DequeV
            [] OTHER                -> UNCHANGED <<mem, made>>
    /\ at' = at + 1
    /\ UNCHANGED <<aofFile, apc, line, preque, aofHist>>

ReplayDead ==
    /\ apc = "replay" /\ at <= Len(File) /\ ReplayDies(File[at])
    /\ Gone
    /\ UNCHANGED <<aofFile, aofHist>>

EndReplay ==
    /\ apc = "replay" /\ at > Len(File)
    /\ apc' = "fresh"
    /\ UNCHANGED <<aofFile, mem, made, at, line, preque, aofHist>>

-----------------------------------------------------------------------------
(* The commands.                                                           *)

Command == apc \in {"fresh", "main"}

Room == Len(File) < MaxLines

EnqueCmd(v) ==
    /\ Command /\ Room /\ ~EnqueDies
    /\ EnqueV(v)
    /\ line' = EnqueLine(v) /\ apc' = "write"
    /\ UNCHANGED <<aofFile, at, preque, aofHist>>

\* Without a queue the line is appended all the same.
DequeCmd ==
    /\ Command /\ Room /\ ~DequeDies
    /\ DequeV
    /\ line' = DequeLine /\ apc' = "write"
    /\ UNCHANGED <<aofFile, at, preque, aofHist>>

CommandDies ==
    /\ Command /\ EnqueDies
    /\ Gone
    /\ UNCHANGED <<aofFile, aofHist>>

\* preque: PrequeLen enques of 0, 1, ...; each is logged like any other.
PrequeCmd ==
    /\ Command /\ Len(File) + PrequeLen <= MaxLines
    /\ preque' = PrequeLen /\ apc' = "preque"
    /\ UNCHANGED <<aofFile, mem, made, at, line, aofHist>>

PrequeNext ==
    /\ apc = "preque" /\ ~EnqueDies
    /\ EnqueV(PrequeLen - preque)
    /\ line' = EnqueLine(PrequeLen - preque) /\ preque' = preque - 1
    /\ apc' = "write"
    /\ UNCHANGED <<aofFile, at, aofHist>>

PrequeDies ==
    /\ apc = "preque" /\ EnqueDies
    /\ Gone
    /\ UNCHANGED <<aofFile, aofHist>>

\* fwrite and fflush.
WriteLine ==
    /\ apc = "write"
    /\ files' = Append(files, AppendLine(File, line)) /\ cache' = Append(cache, line)
    /\ apc' = "sync"
    /\ UNCHANGED <<mem, made, at, line, preque, aofHist>>

\* fsync: the command is durable.
SlipSyncLine ==                         \* no fsync
    /\ apc = "sync"
    /\ done' = done \o cache
    /\ apc' = IF preque > 0 THEN "preque" ELSE "main"
    /\ UNCHANGED <<aofFile, mem, made, at, line, preque, tears>>

SyncLine ==
    /\ apc = "sync"
    /\ files' = <<File>> /\ cache' = <<>>
    /\ done' = done \o cache
    /\ apc' = IF preque > 0 THEN "preque" ELSE "main"
    /\ UNCHANGED <<mem, made, at, line, preque, tears>>

\* show of a queue, and show without one, change nothing; an unknown command
\* closes the file and exits; a process may be killed anywhere.
QuitOrKilled ==
    /\ apc # "down"
    /\ Gone
    /\ UNCHANGED <<aofFile, aofHist>>

\* A power failure: of the lines that fsync has not reached the first k - 1 are
\* on the disk, and perhaps a prefix of the next.
PowerFailure ==
    /\ cache # <<>>
    /\ \E k \in 1 .. Len(files) :
          /\ \/ files' = <<files[k]>> /\ tears' = tears
             \/ /\ k < Len(files) /\ tears < MaxTears
                /\ \E x \in TornFrom(cache[k]) : files' = <<AppendLine(files[k], x)>>
                /\ tears' = tears + 1
          /\ done' = done \o SubSeq(cache, 1, k - 1)
    /\ cache' = <<>>
    /\ Gone

AofNext ==
    \/ StartAof \/ Replay \/ ReplayDead \/ EndReplay
    \/ (\E v \in Numbers : EnqueCmd(v)) \/ DequeCmd \/ CommandDies
    \/ PrequeCmd \/ PrequeNext \/ PrequeDies \/ WriteLine \/ SyncLine
    \/ QuitOrKilled \/ PowerFailure

-----------------------------------------------------------------------------
AofSpec == AofInit /\ [][AofNext]_aofVars

\* How many of the first i lines of s are enques with a number.
Enques(s, i) == Cardinality({j \in 1 .. i : s[j].op = "enque"})

\* q has the values of the enques of s, in their order.
EnquesAre(q, s) ==
    /\ Len(q) = Enques(s, Len(s))
    /\ \A i \in 1 .. Len(s) : s[i].op = "enque" => q[Enques(s, i)] = s[i].val

\* The queue that the commands of s leave.
QueueOf(s) ==
    FoldLeft(LAMBDA q, l : IF l.op = "enque" THEN Append(q, l.val)
                           ELSE IF q = <<>> THEN q ELSE Tail(q), <<>>, s)

\* A run that has replayed the file has in its queue every value whose enque was
\* logged, in order, whenever runs were killed or power failed; a line that a
\* power failure tore costs at most one value, be it that the next line is
\* appended to it or that it is read as a dequeue.
EnquesReplayed ==
    apc = "fresh" =>
        /\ tears = 0 => EnquesAre(mem, done \o cache)
        /\ Len(mem) + tears >= Enques(done \o cache, Len(done \o cache))

\* The replay dies (a NULL head or tail, atoi(NULL)) only of a last line that a
\* power failure tore, never of what the program has written.
ReplaySurvives ==
    apc = "replay" /\ at <= Len(File) =>
        (ReplayDies(File[at]) => at = Len(File) /\ ~File[at].nl)

\* The log makes the queue persistent (queue_aof.cpp:94, 130): a new run finds
\* the queue that the commands so far have left.
RestartKeepsQueue ==
    apc = "fresh" /\ tears = 0 => mem = QueueOf(done \o cache)
-----------------------------------------------------------------------------
(* Why these properties hold: the inductive invariant of their proofs.     *)

Line == [op : {"junk", "word", "space", "enque", "deque"}, val : Int, nl : BOOLEAN]

AofTypeOK ==
    /\ files \in Seq(Seq(Line)) /\ cache \in Seq(Line) /\ Len(files) = Len(cache) + 1
    /\ mem \in Seq(Int) /\ made \in BOOLEAN
    /\ apc \in {"down", "replay", "fresh", "main", "preque", "write", "sync"}
    /\ at \in Nat \ {0} /\ line \in Line /\ preque \in Int
    /\ done \in Seq(Line) /\ tears \in Nat

\* A line as the program writes it.
Written(l) == l.nl /\ l.op \in {"enque", "deque"}

LinesKnown ==
    /\ \A i \in 1 .. Len(done) : Written(done[i])
    /\ \A i \in 1 .. Len(cache) : Written(cache[i])
    /\ apc = "write" => Written(line)

\* The last line of f has no end.
Cut(f) == f # <<>> /\ ~Last(f).nl

\* Only the last line of a file can be cut short, and only there "enque" can be
\* without its number.
WellFormed(f) ==
    \A i \in 1 .. Len(f) : /\ f[i].nl \/ i = Len(f)
                           /\ f[i].op \in {"word", "space"} => ~f[i].nl

\* The commands whose lines are in files[k].
LogAt(k) == done \o SubSeq(cache, 1, k - 1)

\* What a line that is cut short may still cost: the line that will be joined to
\* it, or the value that it takes from the queue as a dequeue.
Credit(f) == IF Cut(f) THEN 1 ELSE 0

\* Each tear costs the file one enque at most, now or later.
FilesKnown ==
    \A k \in 1 .. Len(files) :
        /\ WellFormed(files[k])
        /\ tears = 0 => files[k] = LogAt(k)
        /\ Enques(files[k], Len(files[k])) + tears
             >= Enques(LogAt(k), Len(LogAt(k))) + Credit(files[k])

\* How far the replay has come: only behind a last line that is cut short may
\* the queue be other than the enques so far, and then by one value.
ReplayKnown ==
    /\ apc = "down" => at = 1 /\ mem = <<>> /\ ~made
    /\ apc \in {"replay", "fresh"} =>
          /\ at <= Len(File) + 1 /\ (apc = "fresh" => at = Len(File) + 1)
          /\ at <= Len(File) \/ ~Cut(File) =>
                /\ made => mem # <<>>
                /\ Len(mem) = Enques(File, at - 1)
                /\ \A i \in 1 .. at - 1 :
                      File[i].op = "enque" => mem[Enques(File, i)] = File[i].val
          /\ at > Len(File) =>
                Len(mem) + Credit(File) >= Enques(File, Len(File))

AofInv == AofTypeOK /\ LinesKnown /\ FilesKnown /\ ReplayKnown
=============================================================================
