------------------------------- MODULE Inject -------------------------------
(***************************************************************************)
(* The interposed system calls of wal_accel/src/inject.c: which nvm file   *)
(* (ring, for short) goes with which file.                                 *)
(*                                                                         *)
(* A file whose path matches AOFGUARD_FILENAME_PATTERN has a ring in the   *)
(* nvm directory, named after the path.  open, close, unlink and rename    *)
(* keep the two directories and fd_table together, with one system call    *)
(* after the other; AofGuard has what happens inside of one ring.  Here a  *)
(* ring is told apart only by the file its words and bytes belong to.      *)
(* untracked is a history variable: the paths of which the code lost track *)
(* in one of the moments CutShort and NotInTable, and the ones they were   *)
(* renamed to.                                                             *)
(***************************************************************************)
EXTENDS Integers, FiniteSets

CONSTANTS
    Guarded, Plain,     \* paths that match the pattern, and others
    File, Ring,         \* inode numbers of the two file systems
    Fd,                 \* 0 .. n
    None

Path == Guarded \cup Plain

ASSUME InjectAssumption ==
    /\ Guarded \cap Plain = {}
    /\ IsFiniteSet(Guarded) /\ IsFiniteSet(Ring)
    /\ Fd \subseteq Nat /\ \E n \in Fd : \A d \in Fd : d <= n    \* fd_table is an array
    /\ File \subseteq Nat /\ File # {} /\ Ring \subseteq Nat
    /\ Cardinality(Ring) >= Cardinality(Guarded) + Cardinality(Fd)
    /\ None \notin Path \cup File \cup Ring

VARIABLES
    dir,            \* the file at each path
    ring,           \* the ring of each guarded path
    of,             \* the file that the words in a ring describe
    fdfile,         \* the kernel's descriptors
    name, guard,    \* fd_table: path, and the ring that is mapped
    pc, oldpath, newpath,
    untracked

fileVars == <<dir, ring, of>>
tableVars == <<fdfile, name, guard>>
vars == <<fileVars, tableVars, pc, oldpath, newpath, untracked>>

Reached == {ring[g] : g \in Guarded} \cup {guard[d] : d \in Fd}

\* A ring that is neither in the directory nor mapped is gone.
Keep(o) == of' = [r \in Ring |-> IF r \in Reached' THEN o[r] ELSE None]

Least(s) == CHOOSE n \in s : \A k \in s : n <= k

UnusedFiles ==
    File \ ({dir[p] : p \in Path} \cup {fdfile[d] : d \in Fd} \cup {of[r] : r \in Ring})

\* The file open() with O_CREAT finds or makes; None if there is no inode.
FileFor(p) ==
    IF dir[p] # None THEN dir[p]
    ELSE IF UnusedFiles = {} THEN None ELSE Least(UnusedFiles)

NewRing == Least(Ring \ Reached)

\* The ring aofguard_init opens or creates.
RingFor(g) == IF ring[g] # None THEN ring[g] ELSE NewRing

\* Files that existed before the library was loaded have no rings.
Init ==
    /\ dir \in [Path -> {None, Least(File)}]
    /\ \A p, q \in Path : dir[p] # None /\ dir[q] # None => p = q
    /\ ring = [g \in Guarded |-> None]
    /\ of = [r \in Ring |-> None]
    /\ fdfile = [d \in Fd |-> None]
    /\ name = [d \in Fd |-> None] /\ guard = [d \in Fd |-> None]
    /\ pc = "idle" /\ oldpath = None /\ newpath = None
    /\ untracked = {}

-----------------------------------------------------------------------------
Return == pc' = "idle" /\ oldpath' = None /\ newpath' = None

(* open, with O_CREAT if there is no file.                                 *)

\* The path is plain or has a ring: handle_open maps it and fills in the table.
Open(d, p) ==
    /\ pc = "idle" /\ fdfile[d] = None /\ FileFor(p) # None
    /\ p \in Guarded => ring[p] # None
    /\ dir' = [dir EXCEPT ![p] = FileFor(p)]
    /\ fdfile' = [fdfile EXCEPT ![d] = FileFor(p)]
    /\ name' = [name EXCEPT ![d] = p]
    /\ guard' = [guard EXCEPT ![d] = IF p \in Guarded THEN ring[p] ELSE None]
    /\ UNCHANGED <<ring, of, pc, oldpath, newpath, untracked>>

\* aofguard_init finds the ring of a file that is gone, and a new file that is
\* shorter than it says: the descriptor is closed again.
OpenRefused(p) ==
    /\ pc = "idle" /\ p \in Guarded /\ ring[p] # None
    /\ dir[p] = None /\ FileFor(p) # None
    /\ dir' = [dir EXCEPT ![p] = FileFor(p)]
    /\ UNCHANGED <<ring, of, tableVars, pc, oldpath, newpath, untracked>>

\* The path is guarded and has no ring: it is created, and has no words yet.
OpenCreate(d, p) ==
    /\ pc = "idle" /\ fdfile[d] = None /\ FileFor(p) # None
    /\ p \in Guarded /\ ring[p] = None
    /\ dir' = [dir EXCEPT ![p] = FileFor(p)]
    /\ fdfile' = [fdfile EXCEPT ![d] = FileFor(p)]
    /\ ring' = [ring EXCEPT ![p] = NewRing]
    /\ pc' = "open" /\ oldpath' = p
    /\ UNCHANGED <<of, name, guard, newpath, untracked>>

\* The descriptor that open is about to return.
NewFd == CHOOSE d \in Fd : fdfile[d] # None /\ name[d] = None

\* The words of the new ring describe the file; the table is filled in.
InitRing ==
    /\ pc = "open"
    /\ name' = [name EXCEPT ![NewFd] = oldpath]
    /\ guard' = [guard EXCEPT ![NewFd] = ring[oldpath]]
    /\ of' = [of EXCEPT ![ring[oldpath]] = fdfile[NewFd]]
    /\ Return
    /\ UNCHANGED <<dir, ring, fdfile, untracked>>

\* ftruncate, mmap, fstat, sem_init or pthread_create failed in aofguard_init:
\* open closes the descriptor, and the ring stays as it is.
OpenFails ==
    /\ pc = "open"
    /\ fdfile' = [fdfile EXCEPT ![NewFd] = None]
    /\ untracked' = untracked \cup {oldpath}
    /\ Return
    /\ UNCHANGED <<fileVars, name, guard>>

Close(d) ==
    /\ pc = "idle" /\ fdfile[d] # None
    /\ fdfile' = [fdfile EXCEPT ![d] = None]
    /\ name' = [name EXCEPT ![d] = None]
    /\ guard' = [guard EXCEPT ![d] = None]
    /\ UNCHANGED <<dir, ring, pc, oldpath, newpath, untracked>>
    /\ Keep(of)

-----------------------------------------------------------------------------
(* unlink: first the file, then its ring.                                  *)

UnlinkFile(p) ==
    /\ pc = "idle" /\ dir[p] # None
    /\ dir' = [dir EXCEPT ![p] = None]
    /\ pc' = "unlink" /\ oldpath' = p
    /\ UNCHANGED <<ring, of, tableVars, newpath, untracked>>

SlipUnlinkRing ==                       \* the ring is left behind
    /\ pc = "unlink"
    /\ Return
    /\ UNCHANGED <<fileVars, tableVars, untracked>>

UnlinkRing ==
    /\ pc = "unlink"
    /\ ring' = [g \in Guarded |-> IF g = oldpath THEN None ELSE ring[g]]
    /\ untracked' = untracked \ {oldpath}
    /\ Return
    /\ UNCHANGED <<dir, tableVars>>
    /\ Keep(of)

-----------------------------------------------------------------------------
(* rename: first the file, then its ring and the table.                    *)

RenameFile(p, q) ==
    /\ pc = "idle" /\ p # q /\ dir[p] # None
    /\ dir' = [dir EXCEPT ![q] = dir[p], ![p] = None]
    /\ pc' = "rename" /\ oldpath' = p /\ newpath' = q
    /\ UNCHANGED <<ring, of, tableVars, untracked>>

OpenAs(p) == {d \in Fd : name[d] = p}

RenameInTable == name' = [d \in Fd |-> IF name[d] = oldpath THEN newpath ELSE name[d]]

\* The new path inherits what the code does not know of the old one.
Inherit ==
    IF oldpath \in untracked THEN (untracked \ {oldpath}) \cup {newpath}
                             ELSE untracked \ {newpath}

\* Both paths are guarded: the ring moves too.  If the old path has none, a
\* ring of the new path is removed.
MoveRing ==
    /\ pc = "rename" /\ oldpath \in Guarded /\ newpath \in Guarded
    /\ ring' = [ring EXCEPT ![newpath] = ring[oldpath], ![oldpath] = None]
    /\ RenameInTable
    /\ untracked' = Inherit
    /\ Return
    /\ UNCHANGED <<dir, fdfile, guard>>
    /\ Keep(of)

\* Which descriptors the table has under the old path, and on which file.
NotInTable ==
    \/ OpenAs(oldpath) = {}
    \/ \E d \in OpenAs(oldpath) : fdfile[d] # dir[newpath]

\* Only the new path is guarded: every descriptor that the table has under the
\* old one gets the ring of the new path, reset; the last of them remains.  The
\* code asserts that none of them had one (else the process dies: Crash).
AttachRing ==
    /\ pc = "rename" /\ oldpath \in Plain /\ newpath \in Guarded
    /\ \A d \in OpenAs(oldpath) : guard[d] = None
    /\ IF OpenAs(oldpath) = {}
       THEN UNCHANGED <<ring, guard>> /\ Keep(of)
       ELSE LET r == RingFor(newpath)
                d == CHOOSE d \in OpenAs(oldpath) : \A e \in OpenAs(oldpath) : e <= d
            IN  /\ ring' = [ring EXCEPT ![newpath] = r]
                /\ guard' = [e \in Fd |-> IF e \in OpenAs(oldpath) THEN r ELSE guard[e]]
                /\ Keep([of EXCEPT ![r] = fdfile[d]])
    /\ untracked' = IF NotInTable THEN untracked \cup {oldpath, newpath} ELSE Inherit
    /\ RenameInTable
    /\ Return
    /\ UNCHANGED <<dir, fdfile>>

SlipDropRing ==                         \* the descriptors keep their rings
    /\ pc = "rename" /\ oldpath \in Guarded /\ newpath \in Plain
    /\ ring' = [ring EXCEPT ![oldpath] = None]
    /\ RenameInTable
    /\ untracked' = Inherit
    /\ Return
    /\ UNCHANGED <<dir, fdfile, guard>>
    /\ Keep(of)

\* Only the old path is guarded: its ring is removed, and if it was there the
\* descriptors under the old path are no longer guarded.  (That each of them
\* was is asserted; a failing assertion is a Crash, and not told apart here.)
DropRing ==
    /\ pc = "rename" /\ oldpath \in Guarded /\ newpath \in Plain
    /\ ring' = [ring EXCEPT ![oldpath] = None]
    /\ guard' = [d \in Fd |-> IF ring[oldpath] # None /\ d \in OpenAs(oldpath)
                              THEN None ELSE guard[d]]
    /\ RenameInTable
    /\ untracked' = Inherit
    /\ Return
    /\ UNCHANGED <<dir, fdfile>>
    /\ Keep(of)

RenamePlain ==
    /\ pc = "rename" /\ oldpath \in Plain /\ newpath \in Plain
    /\ RenameInTable
    /\ untracked' = Inherit
    /\ Return
    /\ UNCHANGED <<fileVars, fdfile, guard>>

-----------------------------------------------------------------------------
\* The call has changed one directory and not yet the other: the paths it is
\* about.
CutShort ==
    IF pc = "idle" \/ {oldpath, newpath} \cap Guarded = {}
    THEN {} ELSE {oldpath, newpath} \ {None}

\* faccessat finds the ring, but unlinkat or renameat fails: unlink and rename
\* return -1 with the file gone or renamed, and the table as it was.
SecondCallFails ==
    /\ pc \in {"unlink", "rename"}
    /\ \/ oldpath \in Guarded /\ ring[oldpath] # None
       \/ {oldpath, newpath} \subseteq Guarded /\ ring[newpath] # None
    /\ untracked' = untracked \cup CutShort
    /\ Return
    /\ UNCHANGED <<fileVars, tableVars>>

\* The process dies.
Crash ==
    /\ fdfile' = [d \in Fd |-> None]
    /\ name' = [d \in Fd |-> None] /\ guard' = [d \in Fd |-> None]
    /\ untracked' = untracked \cup CutShort
    /\ Return
    /\ UNCHANGED <<dir, ring>>
    /\ Keep(of)

Next ==
    \/ \E d \in Fd, p \in Path : Open(d, p) \/ OpenCreate(d, p)
    \/ \E p \in Path : OpenRefused(p)
    \/ InitRing \/ OpenFails
    \/ \E d \in Fd : Close(d)
    \/ \E p \in Path : UnlinkFile(p)
    \/ UnlinkRing
    \/ \E p, q \in Path : RenameFile(p, q)
    \/ MoveRing \/ AttachRing \/ DropRing \/ RenamePlain
    \/ SecondCallFails \/ Crash

Spec == Init /\ [][Next]_vars

-----------------------------------------------------------------------------
(* Properties.                                                             *)

\* Types; an entry of fd_table is filled in exactly while its descriptor is
\* open, so that no call finds the entry of an earlier one.
TypeOK ==
    /\ dir \in [Path -> File \cup {None}]
    /\ ring \in [Guarded -> Ring \cup {None}]
    /\ of \in [Ring -> File \cup {None}]
    /\ fdfile \in [Fd -> File \cup {None}]
    /\ name \in [Fd -> Path \cup {None}] /\ guard \in [Fd -> Ring \cup {None}]
    /\ pc \in {"idle", "open", "unlink", "rename"}
    /\ oldpath \in Path \cup {None} /\ newpath \in Path \cup {None}
    /\ untracked \subseteq Path
    /\ \A d \in Fd : fdfile[d] = None => name[d] = None /\ guard[d] = None

\* The ring in the nvm directory under a guarded path is always that of the
\* file at that path: no open ever replays the bytes of another file into it,
\* after any sequence of opens, renames, unlinks and restarts.  If the process
\* died or a system call failed between the two of a call (CutShort), or a
\* plain file became guarded while the table did not have exactly that file
\* (NotInTable), it can be wrong only for the paths of that call and the ones
\* they are renamed to.
RingBelongsToFile ==
    /\ TypeOK
    /\ pc = "idle" =>
        \A g \in Guarded \ untracked : ring[g] # None => of[ring[g]] = dir[g]

\* A descriptor whose file still has the path it was opened or renamed to
\* writes through the ring the next open of that path will find, if the path
\* is guarded, and through none if it is not.
GuardedThroughName ==
    pc = "idle" =>
        \A d \in Fd :
            fdfile[d] # None /\ name[d] \notin untracked /\ dir[name[d]] = fdfile[d] =>
                IF name[d] \in Guarded THEN guard[d] # None /\ guard[d] = ring[name[d]]
                                       ELSE guard[d] = None

-----------------------------------------------------------------------------
(* Why these properties hold: the inductive invariant of their proofs.     *)

\* The descriptor that a call of open has not put into the table yet.
Pending == {d \in Fd : fdfile[d] # None /\ name[d] = None}

\* Where each call stands between its two steps.
CallKnown ==
    /\ pc = "idle" => oldpath = None
    /\ pc # "rename" => newpath = None
    /\ pc = "open" => /\ oldpath \in Guarded
                      /\ ring[oldpath] # None /\ dir[oldpath] # None
                      /\ Pending # {}
    /\ pc = "unlink" => oldpath \in Path /\ dir[oldpath] = None
    /\ pc = "rename" => /\ oldpath \in Path /\ newpath \in Path /\ oldpath # newpath
                        /\ dir[oldpath] = None /\ dir[newpath] # None
    /\ \A d \in Pending : /\ pc = "open" /\ fdfile[d] = dir[oldpath] /\ guard[d] = None
                          /\ \A e \in Pending : d = e

\* No two paths share a file or a ring.
NamesApart ==
    /\ \A p, q \in Path : dir[p] = dir[q] /\ dir[p] # None => p = q
    /\ \A g, h \in Guarded : ring[g] = ring[h] /\ ring[g] # None => g = h

\* The table knows where in the directory the file of a descriptor is.
FilesKnown ==
    \A d \in Fd, q \in Path :
        name[d] # None /\ dir[q] = fdfile[d] /\ fdfile[d] # None =>
            IF pc = "rename" /\ q = newpath
            THEN name[d] = oldpath \/ oldpath \in untracked
            ELSE name[d] = q \/ q \in untracked

\* A ring describes the file it will be opened with; there is one.
RingsKnown ==
    /\ \A g \in Guarded \ untracked :
          g \notin {oldpath, newpath} /\ ring[g] # None => of[ring[g]] = dir[g] /\ dir[g] # None
    /\ pc = "rename" /\ oldpath \in Guarded \ untracked /\ ring[oldpath] # None =>
          of[ring[oldpath]] = dir[newpath]

\* A descriptor writes through the ring of its path.
GuardsKnown ==
    \A d \in Fd :
        /\ name[d] # None /\ name[d] \notin untracked /\ fdfile[d] # None
        /\ IF pc = "rename" /\ name[d] = oldpath THEN dir[newpath] = fdfile[d]
                                                 ELSE dir[name[d]] = fdfile[d]
        /\ pc = "rename" => name[d] # newpath
        => IF name[d] \in Guarded
           THEN guard[d] # None /\ guard[d] = ring[name[d]] /\ (pc = "open" => name[d] # oldpath)
           ELSE guard[d] = None

TrackInv ==
    TypeOK /\ CallKnown /\ NamesApart /\ FilesKnown /\ RingsKnown /\ GuardsKnown
=============================================================================
