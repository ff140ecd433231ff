---------------------------- MODULE LockService -----------------------------
(***************************************************************************)
(* The lock service of cxl_memory_sharing (lock_service.c, hash_kv.c), its *)
(* clients' side (lock.c) and the two programs that use it to share blocks *)
(* of incoherent memory (lock_write.c, lock_read.c).                       *)
(*                                                                         *)
(* The server keeps one number per block: -1 (no entry) or 0 free, 1 write *)
(* locked, 2k read locked k times.  A client sends block << 2 | operation  *)
(* over its own TCP connection and polls until the answer is 1; a release  *)
(* is not answered, and nothing ties it to the client that has the lock.   *)
(* holders and last are history variables: the clients to which the        *)
(* running server granted a lock they have not released, and the last      *)
(* block that was flushed.                                                 *)
(***************************************************************************)
EXTENDS FiniteSets, HashKv, CxlMemory

CONSTANTS
    Writers, Readers,   \* the processes, each on a host of its own
    Block,              \* random_select_block: 0 .. BLOCK_NUM - 1
    Part,               \* cache lines of a block
    Content,            \* fills of a block
    Junk,               \* the file before the first write
    MayDie,             \* clients that may be killed
    MaxStarted,         \* bound: how many of the clients are ever started
    MayRestart          \* may the server be killed and started again?

Client == Writers \cup Readers
LinesOf(b) == {b} \X Part

ASSUME LockAssumption ==
    /\ Writers \cap Readers = {} /\ Host = Client /\ MayDie \subseteq Client
    /\ IsFiniteSet(Client) /\ MaxStarted \in Nat /\ MayRestart \in BOOLEAN
    /\ Block \subseteq Nat /\ Line = Block \X Part
    /\ Junk \notin Content /\ Value = Content \cup {Junk}

RELEASE_LOCK == 0
READ_LOCK == 1
WRITE_LOCK == 2

VARIABLES
    table, conn,            \* the server: hash table and connections
    toServer, toClient,     \* bytes in flight on each connection
    pc, block, lock,        \* a client: block i and the int it sends and receives
    source, got, todo,      \* its buffer, and the parts still to be copied
    holders, last

serverVars == <<table, conn>>
netVars == <<toServer, toClient>>
clientVars == <<pc, block, lock, source, got, todo>>
history == <<holders, last>>
vars == <<memVars, serverVars, netVars, clientVars, history>>

Request(b, op) == 4 * b + op            \* uuid << 2 | op
Indicator(x) == x % 4                   \* x & 3
BlockId(x) == x \div 4                  \* (x & 0xfffffffc) >> 2

Init ==
    /\ mem = [l \in Line |-> Junk] /\ EmptyCaches
    /\ table = CreateHashTable
    /\ conn = [c \in Client |-> "new"]
    /\ toServer = [c \in Client |-> <<>>] /\ toClient = [c \in Client |-> <<>>]
    /\ pc = [c \in Client |-> "off"]
    /\ \E b \in Block : block = [c \in Client |-> b]
    /\ lock = [c \in Client |-> 0]
    /\ source = [c \in Client |-> Junk]
    /\ got = [c \in Client |-> [p \in Part |-> Junk]]
    /\ todo = [c \in Client |-> {}]
    /\ holders = [b \in Block |-> {}]
    /\ last = [b \in Block |-> Junk]

Goto(c, l) == pc' = [pc EXCEPT ![c] = l]

-----------------------------------------------------------------------------
(* lock_service.c.                                                         *)

Accept(c) ==
    /\ conn[c] = "new" /\ pc[c] # "off"
    /\ conn' = [conn EXCEPT ![c] = "open"]
    /\ UNCHANGED <<memVars, table, netVars, clientVars, history>>

LockValue(b) == GetKeyValue(table, b)

SetValue(b, v) == table' = SetKeyValue(table, b, v)

SlipAnswer(c, n) ==                     \* only a grant is answered
    toClient' = IF n = 1 THEN [toClient EXCEPT ![c] = Append(@, n)] ELSE toClient

Answer(c, n) == toClient' = [toClient EXCEPT ![c] = Append(@, n)]

SlipWriteLock(c, b) ==                  \* readers do not keep writers out
    IF LockValue(b) # 1
    THEN /\ SetValue(b, 1)
         /\ holders' = [holders EXCEPT ![b] = @ \cup {c}]
         /\ Answer(c, 1)
    ELSE UNCHANGED <<table, holders>> /\ Answer(c, 0)

WriteLock(c, b) ==
    IF LockValue(b) \in {-1, 0}
    THEN /\ SetValue(b, 1)
         /\ holders' = [holders EXCEPT ![b] = @ \cup {c}]
         /\ Answer(c, 1)
    ELSE UNCHANGED <<table, holders>> /\ Answer(c, 0)

\* A block that nobody has ever locked for writing cannot be read.
ReadLock(c, b) ==
    IF LockValue(b) \notin {-1, 1}
    THEN /\ SetValue(b, ((LockValue(b) \div 2) + 1) * 2)
         /\ holders' = [holders EXCEPT ![b] = @ \cup {c}]
         /\ Answer(c, 1)
    ELSE UNCHANGED <<table, holders>> /\ Answer(c, 0)

SlipReleaseLock(c, b) ==                \* a release always frees the block
    /\ SetValue(b, 0)
    /\ holders' = [holders EXCEPT ![b] = @ \ {c}]
    /\ UNCHANGED toClient

SlipReleaseWrite(c, b) ==               \* only read locks are released
    /\ IF LockValue(b) \notin {-1, 0, 1}
       THEN SetValue(b, ((LockValue(b) \div 2) - 1) * 2)
       ELSE UNCHANGED table
    /\ holders' = [holders EXCEPT ![b] = @ \ {c}]
    /\ UNCHANGED toClient

ReleaseLock(c, b) ==
    /\ IF LockValue(b) = 1
       THEN SetValue(b, 0)
       ELSE IF LockValue(b) \notin {-1, 0}
       THEN SetValue(b, ((LockValue(b) \div 2) - 1) * 2)
       ELSE UNCHANGED table
    /\ holders' = [holders EXCEPT ![b] = @ \ {c}]
    /\ UNCHANGED toClient

\* handle_lock; select() serves one message of one connection at a time.
HandleLock(c) ==
    /\ conn[c] = "open" /\ toServer[c] # <<>>
    /\ toServer' = [toServer EXCEPT ![c] = Tail(@)]
    /\ LET x == Head(toServer[c])
           b == BlockId(x)
       IN  \/ Indicator(x) = WRITE_LOCK /\ WriteLock(c, b)
           \/ Indicator(x) = READ_LOCK /\ ReadLock(c, b)
           \/ Indicator(x) = RELEASE_LOCK /\ ReleaseLock(c, b)
    /\ UNCHANGED <<memVars, conn, clientVars, last>>

\* recv() <= 0: the connection is closed; its locks stay.
CloseConn(c) ==
    /\ conn[c] = "open" /\ pc[c] = "dead" /\ toServer[c] = <<>>
    /\ conn' = [conn EXCEPT ![c] = "closed"]
    /\ UNCHANGED <<memVars, table, netVars, clientVars, history>>

\* The server is killed and started again: the table was only in memory, and
\* the connections are gone.
Restart ==
    /\ MayRestart /\ \E c \in Client : pc[c] # "off" /\ conn[c] # "lost"
    /\ table' = CreateHashTable
    /\ conn' = [c \in Client |-> IF pc[c] = "off" THEN "new" ELSE "lost"]
    /\ toServer' = [c \in Client |-> <<>>]
    /\ holders' = [b \in Block |-> {}]
    /\ UNCHANGED <<memVars, toClient, clientVars, last>>

-----------------------------------------------------------------------------
(* lock.c.                                                                 *)

\* socket_connect; the kernel completes the connection.
Connect(c) ==
    /\ pc[c] = "off" /\ Cardinality({d \in Client : pc[d] # "off"}) < MaxStarted
    /\ Goto(c, "select")
    /\ UNCHANGED <<memVars, serverVars, netVars, block, lock, source, got,
                   todo, history>>

\* What is sent over a broken connection is lost.
Send(c, x) ==
    toServer' = IF conn[c] = "lost" THEN toServer ELSE [toServer EXCEPT ![c] = Append(@, x)]

\* writelock and readlock, first half of the loop.
SendLock(c) ==
    /\ pc[c] = "send"
    /\ LET x == Request(block[c], IF c \in Writers THEN WRITE_LOCK ELSE READ_LOCK)
       IN  Send(c, x) /\ lock' = [lock EXCEPT ![c] = x]
    /\ Goto(c, "wait")
    /\ UNCHANGED <<memVars, serverVars, toClient, block, source, got, todo,
                   history>>

\* Second half: read() blocks until the answer is there.  On a connection that
\* is broken it returns at once, unnoticed, and lock is still the request; that
\* of a read lock of block 0 is 1.
ReceiveLock(c) ==
    /\ pc[c] = "wait"
    /\ \/ /\ toClient[c] # <<>>
          /\ toClient' = [toClient EXCEPT ![c] = Tail(@)]
          /\ lock' = [lock EXCEPT ![c] = Head(toClient[c])]
       \/ /\ toClient[c] = <<>> /\ conn[c] = "lost"
          /\ UNCHANGED <<toClient, lock>>
    /\ IF lock'[c] = 1
       THEN /\ Goto(c, IF c \in Writers THEN "copy" ELSE "drop")
            /\ todo' = [todo EXCEPT ![c] = Part]
       ELSE Goto(c, "send") /\ UNCHANGED todo
    /\ UNCHANGED <<memVars, serverVars, toServer, block, source, got, history>>

Release(c) ==
    /\ pc[c] = "release"
    /\ Send(c, Request(block[c], RELEASE_LOCK))
    /\ lock' = [lock EXCEPT ![c] = Request(block[c], RELEASE_LOCK)]
    /\ Goto(c, "select")
    /\ source' = [source EXCEPT ![c] = Junk]
    /\ got' = [got EXCEPT ![c] = [p \in Part |-> Junk]]
    /\ UNCHANGED <<memVars, serverVars, toClient, block, todo, history>>

-----------------------------------------------------------------------------
(* lock_write.c.                                                           *)

SelectWrite(c, b, v) ==
    /\ c \in Writers /\ pc[c] = "select"
    /\ block' = [block EXCEPT ![c] = b]
    /\ source' = [source EXCEPT ![c] = v]
    /\ Goto(c, "send")
    /\ UNCHANGED <<memVars, serverVars, netVars, lock, got, todo, history>>

\* memcpy, a cache line at a time.
CopyPart(c, p) ==
    /\ pc[c] = "copy" /\ p \in todo[c]
    /\ Store(c, <<block[c], p>>, source[c])
    /\ todo' = [todo EXCEPT ![c] = @ \ {p}]
    /\ Goto(c, IF todo'[c] = {} THEN "flush" ELSE "copy")
    /\ UNCHANGED <<serverVars, netVars, block, lock, source, got, history>>

SlipFlushBlock(c) ==                    \* no cflush before the release
    /\ pc[c] = "flush"
    /\ last' = [last EXCEPT ![block[c]] = source[c]]
    /\ Goto(c, "release")
    /\ UNCHANGED <<memVars, serverVars, netVars, block, lock, source, got,
                   todo, holders>>

FlushBlock(c) ==
    /\ pc[c] = "flush"
    /\ Flush(c, LinesOf(block[c]))
    /\ last' = [last EXCEPT ![block[c]] = source[c]]
    /\ Goto(c, "release")
    /\ UNCHANGED <<serverVars, netVars, block, lock, source, got, todo, holders>>

-----------------------------------------------------------------------------
(* lock_read.c.                                                            *)

SelectRead(c, b) ==
    /\ c \in Readers /\ pc[c] = "select"
    /\ block' = [block EXCEPT ![c] = b]
    /\ Goto(c, "send")
    /\ UNCHANGED <<memVars, serverVars, netVars, lock, source, got, todo,
                   history>>

\* cflushopt: copies from an earlier read are dropped.
DropStale(c) ==
    /\ pc[c] = "drop"
    /\ Flush(c, LinesOf(block[c]))
    /\ Goto(c, "read")
    /\ UNCHANGED <<serverVars, netVars, block, lock, source, got, todo, history>>

\* memcpy into the reader's buffer; the checksum is only logged.
ReadPart(c, p) ==
    /\ pc[c] = "read" /\ p \in todo[c]
    /\ Load(c, <<block[c], p>>)
    /\ got' = [got EXCEPT ![c][p] = Sees(c, <<block[c], p>>)]
    /\ todo' = [todo EXCEPT ![c] = @ \ {p}]
    /\ Goto(c, IF todo'[c] = {} THEN "release" ELSE "read")
    /\ UNCHANGED <<serverVars, netVars, block, lock, source, history>>

-----------------------------------------------------------------------------
(* The environment.                                                        *)

\* A client is killed, or ends by SIGPIPE when it sends over a connection that
\* is broken; what it sent before still arrives.
Die(c) ==
    /\ pc[c] \notin {"off", "dead"}
    /\ c \in MayDie \/ (conn[c] = "lost" /\ pc[c] \in {"send", "release"})
    /\ Goto(c, "dead")
    /\ todo' = [todo EXCEPT ![c] = {}]
    /\ lock' = [lock EXCEPT ![c] = 0]
    /\ source' = [source EXCEPT ![c] = Junk]
    /\ got' = [got EXCEPT ![c] = [p \in Part |-> Junk]]
    /\ toClient' = [toClient EXCEPT ![c] = <<>>]
    /\ UNCHANGED <<memVars, serverVars, toServer, block, history>>

\* Only readers use what a cache prefetches, while they run.
Hardware ==
    /\ \/ \E h \in Client, l \in Line : Evict(h, l)
       \/ \E h \in Readers, l \in Line : pc[h] \notin {"off", "dead"} /\ Prefetch(h, l)
    /\ UNCHANGED <<serverVars, netVars, clientVars, history>>

ServerStep(c) == Accept(c) \/ HandleLock(c) \/ CloseConn(c)

ClientStep(c) ==
    \/ Connect(c) \/ SendLock(c) \/ ReceiveLock(c) \/ Release(c)
    \/ \E b \in Block, v \in Content : SelectWrite(c, b, v)
    \/ \E p \in Part : CopyPart(c, p) \/ ReadPart(c, p)
    \/ \E b \in Block : SelectRead(c, b)
    \/ FlushBlock(c) \/ DropStale(c)

Next ==
    \/ \E c \in Client : ServerStep(c) \/ ClientStep(c) \/ Die(c)
    \/ Restart \/ Hardware

Spec == Init /\ [][Next]_vars

\* select() reports every readable connection and each is served; the
\* programs are scheduled.
FairSpec ==
    Spec /\ \A c \in Client : WF_vars(ServerStep(c)) /\ WF_vars(ClientStep(c))

-----------------------------------------------------------------------------
(* Properties.                                                             *)

\* Types; a connection never holds more than a release and a request.
TypeOK ==
    /\ MemTypeOK
    /\ table \in [0 .. TableSize - 1 -> Seq([key : Block, value : Nat])]
    /\ conn \in [Client -> {"new", "open", "closed", "lost"}]
    /\ \A c \in Client : Len(toServer[c]) <= 2 /\ Len(toClient[c]) <= 1
    /\ toServer \in [Client -> Seq(Nat)] /\ toClient \in [Client -> Seq({0, 1})]
    /\ pc \in [Client -> {"off", "select", "send", "wait", "copy", "flush",
                          "drop", "read", "release", "dead"}]
    /\ block \in [Client -> Block] /\ lock \in [Client -> Nat]
    /\ source \in [Client -> Value] /\ got \in [Client -> [Part -> Value]]
    /\ todo \in [Client -> SUBSET Part]
    /\ holders \in [Block -> SUBSET Client] /\ last \in [Block -> Value]

InCS(c) == pc[c] \in {"copy", "flush", "drop", "read", "release"}

Connected == {c \in Client : conn[c] \in {"new", "open"}}

\* A block is never written while another client reads or writes it, whoever
\* was killed holding, asking for or releasing a lock (handle_lock, lock.c).
\* A server that is started again forgets the clients of its last run, but
\* keeps the ones that come after apart, whatever the old ones still do.
MutualExclusion ==
    \A c, d \in Connected :
        c # d /\ InCS(c) /\ InCS(d) /\ block[c] = block[d] => {c, d} \subseteq Readers

Counted(b) ==
    LET v == LockValue(b)
    IN  \/ v \in {-1, 0} /\ holders[b] = {}
        \/ v = 1 /\ \E w \in Writers : holders[b] = {w}
        \/ v > 1 /\ holders[b] \subseteq Readers /\ v = 2 * Cardinality(holders[b])

\* The number the server keeps for a block counts exactly the grants that
\* were not released, the ones of dead clients included: a late or lost
\* release never frees a lock that another client has, and a client that works
\* on a block has a grant that counts.
Accounting ==
    /\ TypeOK
    /\ \A c \in Connected : InCS(c) => c \in holders[block[c]]
    /\ \A b \in Block : Counted(b)

\* A key has one node at most, in its own chain (setKeyValue).
TableIsMap ==
    \A i \in 0 .. TableSize - 1 : \A m, n \in 1 .. Len(table[i]) :
        /\ HashFunction(table[i][m].key) = i
        /\ table[i][m].key = table[i][n].key => m = n

NoWriterForgotten == \A w \in Writers : conn[w] # "lost"

\* What a reader has copied when it releases the lock is the whole block of
\* the last writer, although the caches are not coherent; and never a block
\* that nobody has written (the read lock is refused until then).  It cannot
\* be said of a server that has forgotten a writer.
ReadsLastWrite ==
    \A c \in Readers \cap Connected :
        pc[c] = "release" /\ NoWriterForgotten =>
            \A p \in Part : got[c][p] = last[block[c]] /\ got[c][p] # Junk

-----------------------------------------------------------------------------
(* Why these properties hold: the inductive invariants of their proofs.    *)

\* The blocks of which a client has a grant.
Held(c) == {b \in Block : c \in holders[b]}

Ask(c) == IF c \in Writers THEN WRITE_LOCK ELSE READ_LOCK
IsRelease(x) == \E b \in Block : x = Request(b, RELEASE_LOCK)
IsRequest(c, x) == \E b \in Block : x = Request(b, Ask(c))

\* What may be under way to the server: a release, a request, or both.
Outstanding(c, s) ==
    \/ s = <<>>
    \/ Len(s) = 1 /\ (IsRelease(s[1]) \/ IsRequest(c, s[1]))
    \/ Len(s) = 2 /\ IsRelease(s[1]) /\ IsRequest(c, s[2])

\* Where a client is in its program tells what is under way on its connection.
Dialogue(c) ==
    LET s == toServer[c]
        a == toClient[c]
    IN  /\ Outstanding(c, s)
        /\ pc[c] = "off" => conn[c] = "new" /\ s = <<>> /\ a = <<>>
        /\ pc[c] \in {"select", "send"} =>
              a = <<>> /\ Len(s) <= 1 /\ (s # <<>> => IsRelease(s[1]))
        /\ pc[c] = "wait" /\ conn[c] # "lost" =>
              \/ a = <<>> /\ s # <<>> /\ s[Len(s)] = Request(block[c], Ask(c))
              \/ a # <<>> /\ s = <<>>
        /\ InCS(c) => s = <<>> /\ a = <<>>
        /\ s # <<>> /\ ~IsRelease(s[Len(s)]) => a = <<>>
        /\ conn[c] = "lost" => s = <<>>
        /\ conn[c] = "closed" => pc[c] = "dead" /\ s = <<>>
        /\ pc[c] \in {"copy", "flush"} => c \in Writers
        /\ pc[c] \in {"drop", "read"} => c \in Readers

\* ... and of which block it has a grant.
HeldAsSaid(c) ==
    /\ conn[c] \in {"new", "lost"} => Held(c) = {}
    /\ toServer[c] # <<>> =>
          Held(c) = {b \in Block : toServer[c][1] = Request(b, RELEASE_LOCK)}
    /\ toServer[c] = <<>> /\ c \in Connected /\ pc[c] # "dead" =>
          Held(c) = IF InCS(c) \/ (pc[c] = "wait" /\ toClient[c] = <<1>>)
                    THEN {block[c]} ELSE {}

LockInv ==
    /\ Accounting
    /\ TableIsMap
    /\ DirtyHasCopy
    /\ \A c \in Client : Dialogue(c) /\ HeldAsSaid(c)

\* A line that is newer than the memory belongs to a writer that copies its
\* block, or died doing so and has the lock for ever.
DirtyIsHeld ==
    \A h \in Client, b \in Block, p \in Part :
        <<b, p>> \in dirty[h] =>
            /\ h \in Writers \cap holders[b] /\ toServer[h] = <<>>
            /\ pc[h] = "dead" \/ (pc[h] \in {"copy", "flush"} /\ block[h] = b)

\* No writer has the block, or the one that has it is done with it.
WriterDone(b) ==
    \A w \in Writers \cap holders[b] : pc[w] = "release" \/ toServer[w] # <<>>

BlockInMemory ==
    \A b \in Block :
        LockValue(b) # -1 /\ WriterDone(b) =>
            last[b] # Junk /\ \A p \in Part : mem[<<b, p>>] = last[b]

CopyProgress ==
    \A w \in Writers :
        /\ pc[w] \in {"send", "wait", "copy", "flush"} => source[w] \in Content
        /\ pc[w] = "flush" => todo[w] = {}
        /\ pc[w] \in {"copy", "flush"} =>
              \A p \in Part \ todo[w] :
                  LET l == <<block[w], p>>
                  IN  IF l \in dirty[w] THEN copy[w][l] = source[w] ELSE mem[l] = source[w]

ReadProgress ==
    \A c \in Readers \cap Connected :
        /\ pc[c] = "drop" => todo[c] = Part
        /\ pc[c] = "read" =>
              \A p \in Part :
                  /\ copy[c][<<block[c], p>>] \in {NoCopy, last[block[c]]}
                  /\ p \notin todo[c] => got[c][p] = last[block[c]]
        /\ pc[c] = "release" => \A p \in Part : got[c][p] = last[block[c]]

BlockKnown == DirtyIsHeld /\ BlockInMemory /\ CopyProgress /\ ReadProgress

BlockInv == NoWriterForgotten => BlockKnown

-----------------------------------------------------------------------------
\* Every request for a lock is answered.
Answered == \A c \in Client : pc[c] = "wait" ~> pc[c] # "wait"

\* The clients do not block each other for ever: somebody always gets a lock
\* again, if nobody dies with one.
SomebodyEnters == []<>(\E c \in Client : InCS(c))
=============================================================================
