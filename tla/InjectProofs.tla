---------------------------- MODULE InjectProofs ----------------------------
(***************************************************************************)
(* Proofs about Inject, for any sets of paths, files, rings and            *)
(* descriptors.                                                            *)
(***************************************************************************)
EXTENDS Inject, FiniteSetTheorems, FunctionTheorems, WellFoundedInduction, TLAPS

\* A set of numbers has a least element, and a bounded one a greatest.
LEMMA LeastIsIn ==
    ASSUME NEW S, S \subseteq Nat, S # {}
    PROVE  Least(S) \in S
<1>1. PICK x \in S : \A y \in S : ~(<<y, x>> \in OpToRel(<, Nat))
  BY NatLessThanWellFounded, WFMin
<1>2. \A y \in S : ~(y < x)
  BY <1>1 DEF OpToRel
<1>3. \A y \in S : x <= y
  BY <1>2
<1>. QED  BY <1>3 DEF Least

LEMMA GreatestIsIn ==
    ASSUME NEW S, S \subseteq Fd, S # {}
    PROVE  \E d \in S : \A e \in S : e <= d
<1>1. PICK n \in Fd : Fd \subseteq Nat /\ \A d \in Fd : d <= n
  BY InjectAssumption
<1>. DEFINE T == {n - d : d \in S}
<1>2. T \subseteq Nat /\ T # {}
  <2>1. \A d \in S : n - d \in Nat
    BY <1>1
  <2>. QED  BY <2>1
<1>. HIDE DEF T
<1>3. PICK x \in T : \A y \in T : ~(<<y, x>> \in OpToRel(<, Nat))
  BY <1>2, NatLessThanWellFounded, WFMin
<1>4. \A y \in T : ~(y < x)
  BY <1>2, <1>3 DEF OpToRel
<1>5. PICK d \in S : x = n - d
  BY DEF T
<1>6. \A e \in S : ~(n - e < n - d)
  BY <1>4, <1>5 DEF T
<1>7. \A e \in S : e <= d
  BY <1>1, <1>6
<1>. QED  BY <1>7

\* There is always a ring for a guarded path that has none.
LEMMA FreshRing ==
    ASSUME TypeOK, NEW g \in Guarded, ring[g] = None
    PROVE  NewRing \in Ring \ Reached
<1>1. SUFFICES Ring \ Reached # {}
  BY LeastIsIn, InjectAssumption DEF NewRing
<1>. DEFINE G == Guarded \ {g}
            rf == [h \in G |-> ring[h]]
            gf == [d \in Fd |-> guard[d]]
            A == {ring[h] : h \in G}
            B == {guard[d] : d \in Fd}
<1>2. IsFiniteSet(Guarded) /\ IsFiniteSet(Ring) /\ IsFiniteSet(Fd)
  BY InjectAssumption, FS_BoundedSetOfNaturals
<1>3. IsFiniteSet(G) /\ Cardinality(G) = Cardinality(Guarded) - 1
  BY <1>2, FS_RemoveElement
<1>4. rf \in Surjection(G, A)
  BY DEF Surjection
<1>5. gf \in Surjection(Fd, B)
  BY DEF Surjection
<1>. HIDE DEF G, rf, gf, A, B
<1>6. IsFiniteSet(A) /\ Cardinality(A) <= Cardinality(G)
  BY <1>3, <1>4, FS_Surjection DEF ExistsSurjection
<1>7. IsFiniteSet(B) /\ Cardinality(B) <= Cardinality(Fd)
  BY <1>2, <1>5, FS_Surjection DEF ExistsSurjection
<1>8. IsFiniteSet(A \cup B) /\ Cardinality(A \cup B) = Cardinality(A) + Cardinality(B) - Cardinality(A \cap B)
  BY <1>6, <1>7, FS_Union
<1>9. Cardinality(A \cap B) \in Nat
  BY <1>6, FS_Intersection, FS_CardinalityType
<1>10. /\ Cardinality(A) \in Nat /\ Cardinality(B) \in Nat /\ Cardinality(Guarded) \in Nat
       /\ Cardinality(Fd) \in Nat /\ Cardinality(Ring) \in Nat /\ Cardinality(A \cup B) \in Nat
  BY <1>2, <1>6, <1>7, <1>8, FS_CardinalityType
<1>11. Cardinality(A \cup B) < Cardinality(Ring)
  BY <1>3, <1>6, <1>7, <1>8, <1>9, <1>10, InjectAssumption
<1>12. ~(Ring \subseteq A \cup B)
  BY <1>8, <1>10, <1>11, FS_Subset
<1>13. Reached \subseteq A \cup B \cup {None}
  BY DEF Reached, G, A, B
<1>. QED  BY <1>12, <1>13, InjectAssumption

LEMMA NoneApart ==
    /\ None \notin Path /\ None \notin File /\ None \notin Ring /\ None \notin Guarded
    /\ \A g \in Guarded : g \in Path /\ g \notin Plain
    /\ \A p \in Path : p \in Guarded \/ p \in Plain
  BY InjectAssumption DEF Path

\* open finds the file at the path, or makes one that nothing else refers to.
LEMMA FileForKnown ==
    ASSUME TypeOK, NEW p \in Path, FileFor(p) # None
    PROVE  /\ FileFor(p) \in File
           /\ dir[p] # None => FileFor(p) = dir[p]
           /\ dir[p] = None => /\ \A q \in Path : dir[q] # FileFor(p)
                               /\ \A d \in Fd : fdfile[d] # FileFor(p)
<1>1. CASE dir[p] # None
  BY <1>1 DEF FileFor, TypeOK
<1>2. CASE dir[p] = None
  <2>1. UnusedFiles # {} /\ FileFor(p) = Least(UnusedFiles)
    BY <1>2 DEF FileFor
  <2>2. UnusedFiles \subseteq Nat
    BY InjectAssumption DEF UnusedFiles
  <2>3. FileFor(p) \in UnusedFiles
    BY <2>1, <2>2, LeastIsIn
  <2>. QED  BY <1>2, <2>3 DEF UnusedFiles
<1>. QED  BY <1>1, <1>2

\* A ring in the directory keeps its words.
LEMMA KeepKnown ==
    ASSUME NEW o \in [Ring -> File \cup {None}], Keep(o)
    PROVE  /\ of' \in [Ring -> File \cup {None}]
           /\ \A g \in Guarded : ring'[g] \in Ring => of'[ring'[g]] = o[ring'[g]]
  BY DEF Keep, Reached

\* The descriptor InitRing and OpenFails are about.
LEMMA NewFdKnown ==
    ASSUME TypeOK, CallKnown, pc = "open"
    PROVE  /\ NewFd \in Fd /\ fdfile[NewFd] # None /\ name[NewFd] = None
           /\ fdfile[NewFd] = dir[oldpath]
           /\ \A d \in Fd : fdfile[d] # None /\ name[d] = None => d = NewFd
<1>1. \E d \in Fd : fdfile[d] # None /\ name[d] = None
  BY DEF CallKnown, Pending
<1>2. NewFd \in Fd /\ fdfile[NewFd] # None /\ name[NewFd] = None
  BY <1>1 DEF NewFd
<1>. QED  BY <1>2 DEF CallKnown, Pending

-----------------------------------------------------------------------------
(* Every step keeps TrackInv.                                              *)

LEMMA OpenStep ==
    ASSUME TrackInv, NEW d \in Fd, NEW p \in Path, Open(d, p)
    PROVE  TrackInv'
<1>. USE NoneApart
<1>. DEFINE f == FileFor(p)
<1>1. /\ pc = "idle" /\ fdfile[d] = None /\ f # None
      /\ p \in Guarded => ring[p] # None
      /\ dir' = [dir EXCEPT ![p] = f] /\ fdfile' = [fdfile EXCEPT ![d] = f]
      /\ name' = [name EXCEPT ![d] = p]
      /\ guard' = [guard EXCEPT ![d] = IF p \in Guarded THEN ring[p] ELSE None]
      /\ UNCHANGED <<ring, of, pc, oldpath, newpath, untracked>>
  BY DEF Open
<1>2. /\ f \in File /\ (dir[p] # None => f = dir[p])
      /\ dir[p] = None => /\ \A q \in Path : dir[q] # f
                          /\ \A e \in Fd : fdfile[e] # f
  BY <1>1, FileForKnown DEF TrackInv
<1>. HIDE DEF f
<1>3. /\ \A q \in Path : dir'[q] = IF q = p THEN f ELSE dir[q]
      /\ \A e \in Fd : /\ fdfile'[e] = IF e = d THEN f ELSE fdfile[e]
                       /\ name'[e] = IF e = d THEN p ELSE name[e]
                       /\ guard'[e] = IF e # d THEN guard[e] ELSE IF p \in Guarded THEN ring[p] ELSE None
  BY <1>1 DEF TrackInv, TypeOK
<1>4. TypeOK'
  BY <1>1, <1>2, <1>3 DEF TrackInv, TypeOK
<1>5. CallKnown'
  BY <1>1, <1>2, <1>3 DEF TrackInv, TypeOK, CallKnown, Pending
<1>6. NamesApart'
  BY <1>1, <1>2, <1>3 DEF TrackInv, NamesApart
<1>7. FilesKnown'
  BY <1>1, <1>2, <1>3 DEF TrackInv, TypeOK, FilesKnown, NamesApart
<1>8. RingsKnown'
  BY <1>1, <1>2, <1>3 DEF TrackInv, RingsKnown, CallKnown
<1>9. GuardsKnown'
  BY <1>1, <1>2, <1>3 DEF TrackInv, TypeOK, GuardsKnown
<1>. QED  BY <1>4, <1>5, <1>6, <1>7, <1>8, <1>9 DEF TrackInv

LEMMA OpenRefusedStep ==
    ASSUME TrackInv, NEW p \in Path, OpenRefused(p)
    PROVE  TrackInv'
<1>. USE NoneApart
<1>. DEFINE f == FileFor(p)
<1>1. /\ pc = "idle" /\ p \in Guarded /\ ring[p] # None /\ dir[p] = None /\ f # None
      /\ dir' = [dir EXCEPT ![p] = f]
      /\ UNCHANGED <<ring, of, fdfile, name, guard, pc, oldpath, newpath, untracked>>
  BY DEF OpenRefused, tableVars
<1>2. /\ f \in File /\ \A q \in Path : dir[q] # f
      /\ \A e \in Fd : fdfile[e] # f
  BY <1>1, FileForKnown DEF TrackInv
<1>. HIDE DEF f
<1>3. \A q \in Path : dir'[q] = IF q = p THEN f ELSE dir[q]
  BY <1>1 DEF TrackInv, TypeOK
<1>4. TypeOK'
  BY <1>1, <1>2 DEF TrackInv, TypeOK
<1>5. CallKnown'
  BY <1>1, <1>3 DEF TrackInv, TypeOK, CallKnown, Pending
<1>6. NamesApart'
  BY <1>1, <1>2, <1>3 DEF TrackInv, NamesApart
<1>7. FilesKnown'
  BY <1>1, <1>2, <1>3 DEF TrackInv, TypeOK, FilesKnown, NamesApart
<1>8. RingsKnown'
  BY <1>1, <1>2, <1>3 DEF TrackInv, RingsKnown, CallKnown
<1>9. GuardsKnown'
  BY <1>1, <1>2, <1>3 DEF TrackInv, TypeOK, GuardsKnown
<1>. QED  BY <1>4, <1>5, <1>6, <1>7, <1>8, <1>9 DEF TrackInv

LEMMA OpenCreateStep ==
    ASSUME TrackInv, NEW d \in Fd, NEW p \in Path, OpenCreate(d, p)
    PROVE  TrackInv'
<1>. USE NoneApart
<1>. DEFINE f == FileFor(p)
            r == NewRing
<1>1. /\ pc = "idle" /\ fdfile[d] = None /\ f # None /\ p \in Guarded /\ ring[p] = None
      /\ dir' = [dir EXCEPT ![p] = f] /\ fdfile' = [fdfile EXCEPT ![d] = f]
      /\ ring' = [ring EXCEPT ![p] = r]
      /\ pc' = "open" /\ oldpath' = p
      /\ UNCHANGED <<of, name, guard, newpath, untracked>>
  BY DEF OpenCreate
<1>2. /\ f \in File /\ (dir[p] # None => f = dir[p])
      /\ dir[p] = None => /\ \A q \in Path : dir[q] # f
                          /\ \A e \in Fd : fdfile[e] # f
  BY <1>1, FileForKnown DEF TrackInv
<1>3. r \in Ring /\ \A g \in Guarded : ring[g] # r
  BY <1>1, FreshRing DEF TrackInv, Reached
<1>. HIDE DEF f, r
<1>4. /\ \A q \in Path : dir'[q] = IF q = p THEN f ELSE dir[q]
      /\ \A e \in Fd : fdfile'[e] = IF e = d THEN f ELSE fdfile[e]
      /\ \A g \in Guarded : ring'[g] = IF g = p THEN r ELSE ring[g]
  BY <1>1 DEF TrackInv, TypeOK
<1>5. /\ \A e \in Fd : fdfile[e] = None => name[e] = None /\ guard[e] = None
      /\ \A e \in Fd : fdfile[e] # None => name[e] # None
  BY <1>1 DEF TrackInv, TypeOK, CallKnown, Pending
<1>6. TypeOK'
  BY <1>1, <1>2, <1>3, <1>4 DEF TrackInv, TypeOK
<1>7. CallKnown'
  <2>1. Pending' = {d}
    BY <1>1, <1>2, <1>4, <1>5 DEF Pending
  <2>2. newpath' = None
    BY <1>1 DEF TrackInv, CallKnown
  <2>. QED  BY <1>1, <1>2, <1>3, <1>4, <1>5, <2>1, <2>2 DEF CallKnown
<1>8. NamesApart'
  BY <1>1, <1>2, <1>3, <1>4 DEF TrackInv, NamesApart
<1>9. FilesKnown'
  BY <1>1, <1>2, <1>4, <1>5 DEF TrackInv, TypeOK, FilesKnown, NamesApart
<1>10. RingsKnown'
  BY <1>1, <1>2, <1>3, <1>4 DEF TrackInv, RingsKnown, CallKnown
<1>11. GuardsKnown'
  BY <1>1, <1>2, <1>4, <1>5 DEF TrackInv, TypeOK, GuardsKnown
<1>. QED  BY <1>6, <1>7, <1>8, <1>9, <1>10, <1>11 DEF TrackInv

LEMMA InitRingStep ==
    ASSUME TrackInv, InitRing
    PROVE  TrackInv'
<1>. USE NoneApart
<1>. DEFINE d == NewFd
<1>1. /\ pc = "open" /\ name' = [name EXCEPT ![d] = oldpath]
      /\ guard' = [guard EXCEPT ![d] = ring[oldpath]]
      /\ of' = [of EXCEPT ![ring[oldpath]] = fdfile[d]]
      /\ pc' = "idle" /\ oldpath' = None /\ newpath' = None
      /\ UNCHANGED <<dir, ring, fdfile, untracked>>
  BY DEF InitRing, Return
<1>2. /\ d \in Fd /\ fdfile[d] # None /\ name[d] = None /\ fdfile[d] = dir[oldpath]
      /\ \A e \in Fd : fdfile[e] # None /\ name[e] = None => e = d
  BY <1>1, NewFdKnown DEF TrackInv
<1>. HIDE DEF d
<1>3. oldpath \in Guarded /\ ring[oldpath] \in Ring /\ newpath = None
  BY <1>1 DEF TrackInv, CallKnown, TypeOK
<1>4. /\ \A e \in Fd : /\ name'[e] = IF e = d THEN oldpath ELSE name[e]
                       /\ guard'[e] = IF e = d THEN ring[oldpath] ELSE guard[e]
      /\ \A r \in Ring : of'[r] = IF r = ring[oldpath] THEN dir[oldpath] ELSE of[r]
  BY <1>1, <1>2, <1>3 DEF TrackInv, TypeOK
<1>5. TypeOK'
  BY <1>1, <1>2, <1>3, <1>4 DEF TrackInv, TypeOK
<1>6. CallKnown'
  BY <1>1, <1>2, <1>3, <1>4 DEF CallKnown, Pending
<1>7. NamesApart'
  BY <1>1 DEF TrackInv, NamesApart
<1>8. FilesKnown'
  BY <1>1, <1>2, <1>3, <1>4 DEF TrackInv, FilesKnown, NamesApart
<1>9. RingsKnown'
  BY <1>1, <1>2, <1>3, <1>4 DEF TrackInv, TypeOK, RingsKnown, NamesApart
<1>10. GuardsKnown'
  BY <1>1, <1>2, <1>3, <1>4 DEF TrackInv, TypeOK, GuardsKnown
<1>. QED  BY <1>5, <1>6, <1>7, <1>8, <1>9, <1>10 DEF TrackInv

LEMMA OpenFailsStep ==
    ASSUME TrackInv, OpenFails
    PROVE  TrackInv'
<1>. USE NoneApart
<1>. DEFINE d == NewFd
<1>1. /\ pc = "open" /\ fdfile' = [fdfile EXCEPT ![d] = None]
      /\ untracked' = untracked \cup {oldpath}
      /\ pc' = "idle" /\ oldpath' = None /\ newpath' = None
      /\ UNCHANGED <<dir, ring, of, name, guard>>
  BY DEF OpenFails, Return, fileVars
<1>2. /\ d \in Fd /\ fdfile[d] # None /\ name[d] = None
      /\ \A e \in Fd : fdfile[e] # None /\ name[e] = None => e = d
  BY <1>1, NewFdKnown DEF TrackInv
<1>. HIDE DEF d
<1>3. oldpath \in Guarded /\ newpath = None
  BY <1>1 DEF TrackInv, CallKnown
<1>4. \A e \in Fd : fdfile'[e] = IF e = d THEN None ELSE fdfile[e]
  BY <1>1, <1>2 DEF TrackInv, TypeOK
<1>5. guard[d] = None
  BY <1>1, <1>2 DEF TrackInv, TypeOK, CallKnown, Pending
<1>6. TypeOK'
  BY <1>1, <1>2, <1>3, <1>4, <1>5 DEF TrackInv, TypeOK
<1>7. CallKnown'
  BY <1>1, <1>2, <1>4 DEF CallKnown, Pending
<1>8. NamesApart'
  BY <1>1 DEF TrackInv, NamesApart
<1>9. FilesKnown'
  BY <1>1, <1>2, <1>3, <1>4 DEF TrackInv, FilesKnown
<1>10. RingsKnown'
  BY <1>1, <1>3 DEF TrackInv, RingsKnown
<1>11. GuardsKnown'
  BY <1>1, <1>2, <1>3, <1>4 DEF TrackInv, GuardsKnown
<1>. QED  BY <1>6, <1>7, <1>8, <1>9, <1>10, <1>11 DEF TrackInv

LEMMA CloseStep ==
    ASSUME TrackInv, NEW d \in Fd, Close(d)
    PROVE  TrackInv'
<1>. USE NoneApart
<1>1. /\ pc = "idle" /\ fdfile' = [fdfile EXCEPT ![d] = None]
      /\ name' = [name EXCEPT ![d] = None] /\ guard' = [guard EXCEPT ![d] = None]
      /\ UNCHANGED <<dir, ring, pc, oldpath, newpath, untracked>>
      /\ Keep(of)
  BY DEF Close
<1>2. /\ of' \in [Ring -> File \cup {None}]
      /\ \A g \in Guarded : ring'[g] \in Ring => of'[ring'[g]] = of[ring'[g]]
  BY <1>1, KeepKnown DEF TrackInv, TypeOK
<1>3. \A e \in Fd : /\ fdfile'[e] = IF e = d THEN None ELSE fdfile[e]
                    /\ name'[e] = IF e = d THEN None ELSE name[e]
                    /\ guard'[e] = IF e = d THEN None ELSE guard[e]
  BY <1>1 DEF TrackInv, TypeOK
<1>4. TypeOK'
  BY <1>1, <1>2, <1>3 DEF TrackInv, TypeOK
<1>5. CallKnown'
  BY <1>1, <1>3 DEF TrackInv, CallKnown, Pending
<1>6. NamesApart'
  BY <1>1 DEF TrackInv, NamesApart
<1>7. FilesKnown'
  BY <1>1, <1>3 DEF TrackInv, FilesKnown
<1>8. RingsKnown'
  BY <1>1, <1>2 DEF TrackInv, TypeOK, RingsKnown
<1>9. GuardsKnown'
  BY <1>1, <1>3 DEF TrackInv, GuardsKnown
<1>. QED  BY <1>4, <1>5, <1>6, <1>7, <1>8, <1>9 DEF TrackInv

LEMMA UnlinkFileStep ==
    ASSUME TrackInv, NEW p \in Path, UnlinkFile(p)
    PROVE  TrackInv'
<1>. USE NoneApart
<1>1. /\ pc = "idle" /\ dir[p] # None /\ dir' = [dir EXCEPT ![p] = None]
      /\ pc' = "unlink" /\ oldpath' = p
      /\ UNCHANGED <<ring, of, fdfile, name, guard, newpath, untracked>>
  BY DEF UnlinkFile, tableVars
<1>2. \A q \in Path : dir'[q] = IF q = p THEN None ELSE dir[q]
  BY <1>1 DEF TrackInv, TypeOK
<1>3. newpath = None /\ oldpath = None /\ Pending = {}
  BY <1>1 DEF TrackInv, CallKnown
<1>4. TypeOK'
  BY <1>1, <1>2 DEF TrackInv, TypeOK
<1>5. CallKnown'
  BY <1>1, <1>2, <1>3 DEF CallKnown, Pending
<1>6. NamesApart'
  BY <1>1, <1>2 DEF TrackInv, NamesApart
<1>7. FilesKnown'
  BY <1>1, <1>2 DEF TrackInv, FilesKnown
<1>8. RingsKnown'
  BY <1>1, <1>2, <1>3 DEF TrackInv, RingsKnown
<1>9. GuardsKnown'
  BY <1>1, <1>2 DEF TrackInv, TypeOK, GuardsKnown
<1>. QED  BY <1>4, <1>5, <1>6, <1>7, <1>8, <1>9 DEF TrackInv

LEMMA UnlinkRingStep ==
    ASSUME TrackInv, UnlinkRing
    PROVE  TrackInv'
<1>. USE NoneApart
<1>1. /\ pc = "unlink" /\ ring' = [g \in Guarded |-> IF g = oldpath THEN None ELSE ring[g]]
      /\ untracked' = untracked \ {oldpath}
      /\ pc' = "idle" /\ oldpath' = None /\ newpath' = None
      /\ UNCHANGED <<dir, fdfile, name, guard>>
      /\ Keep(of)
  BY DEF UnlinkRing, Return, tableVars
<1>2. /\ of' \in [Ring -> File \cup {None}]
      /\ \A g \in Guarded : ring'[g] \in Ring => of'[ring'[g]] = of[ring'[g]]
  BY <1>1, KeepKnown DEF TrackInv, TypeOK
<1>3. \A g \in Guarded : ring'[g] = IF g = oldpath THEN None ELSE ring[g]
  BY <1>1
<1>4. newpath = None /\ oldpath \in Path /\ dir[oldpath] = None /\ Pending = {}
  BY <1>1 DEF TrackInv, CallKnown
<1>5. TypeOK'
  BY <1>1, <1>2, <1>3 DEF TrackInv, TypeOK
<1>6. CallKnown'
  BY <1>1, <1>4 DEF CallKnown, Pending
<1>7. NamesApart'
  BY <1>1, <1>3 DEF TrackInv, NamesApart
<1>8. FilesKnown'
  BY <1>1, <1>4 DEF TrackInv, FilesKnown
<1>9. RingsKnown'
  BY <1>1, <1>2, <1>3, <1>4 DEF TrackInv, TypeOK, RingsKnown
<1>10. GuardsKnown'
  BY <1>1, <1>3, <1>4 DEF TrackInv, TypeOK, GuardsKnown
<1>. QED  BY <1>5, <1>6, <1>7, <1>8, <1>9, <1>10 DEF TrackInv

LEMMA RenameFileStep ==
    ASSUME TrackInv, NEW p \in Path, NEW q \in Path, RenameFile(p, q)
    PROVE  TrackInv'
<1>. USE NoneApart
<1>1. /\ pc = "idle" /\ p # q /\ dir[p] # None
      /\ dir' = [dir EXCEPT ![q] = dir[p], ![p] = None]
      /\ pc' = "rename" /\ oldpath' = p /\ newpath' = q
      /\ UNCHANGED <<ring, of, fdfile, name, guard, untracked>>
  BY DEF RenameFile, tableVars
<1>2. \A x \in Path : dir'[x] = IF x = p THEN None ELSE IF x = q THEN dir[p] ELSE dir[x]
  BY <1>1 DEF TrackInv, TypeOK
<1>3. newpath = None /\ oldpath = None /\ Pending = {}
  BY <1>1 DEF TrackInv, CallKnown
<1>4. TypeOK'
  BY <1>1, <1>2 DEF TrackInv, TypeOK
<1>5. CallKnown'
  BY <1>1, <1>2, <1>3 DEF CallKnown, Pending
<1>6. NamesApart'
  <2>1. \A x, y \in Path : dir[x] = dir[y] /\ dir[x] # None => x = y
    BY DEF TrackInv, NamesApart
  <2>2. ASSUME NEW x \in Path, NEW y \in Path, dir'[x] = dir'[y], dir'[x] # None
        PROVE  x = y
    BY <1>1, <1>2, <2>1, <2>2
  <2>. QED  BY <1>1, <2>2 DEF TrackInv, NamesApart
<1>7. FilesKnown'
  BY <1>1, <1>2 DEF TrackInv, FilesKnown
<1>8. RingsKnown'
  BY <1>1, <1>2, <1>3 DEF TrackInv, RingsKnown
<1>9. GuardsKnown'
  BY <1>1, <1>2 DEF TrackInv, TypeOK, GuardsKnown
<1>. QED  BY <1>4, <1>5, <1>6, <1>7, <1>8, <1>9 DEF TrackInv

\* What the second steps of rename have in common: a descriptor that goes by the
\* new path and has its file went by the old one.
Renamed ==
    /\ oldpath \in Path /\ newpath \in Path /\ oldpath # newpath /\ dir[oldpath] = None
    /\ dir[newpath] # None
    /\ pc' = "idle" /\ oldpath' = None /\ newpath' = None
    /\ name' \in [Fd -> Path \cup {None}] /\ untracked' \subseteq Path
    /\ \A d \in Fd : name'[d] = IF name[d] = oldpath THEN newpath ELSE name[d]
    /\ \A p \in Path : p \notin {oldpath, newpath} => (p \in untracked' <=> p \in untracked)
    /\ oldpath \in untracked => newpath \in untracked'
    /\ CallKnown' /\ FilesKnown'
    /\ \A d \in Fd : fdfile[d] # None /\ name'[d] = newpath /\ newpath \notin untracked'
                     /\ dir[newpath] = fdfile[d] => name[d] = oldpath /\ oldpath \notin untracked

LEMMA RenameEnds ==
    ASSUME TrackInv, pc = "rename", RenameInTable, Return, UNCHANGED <<dir, fdfile>>,
           untracked' \in {Inherit, untracked \cup {oldpath, newpath}}
    PROVE  Renamed
<1>. USE NoneApart
<1>1. oldpath \in Path /\ newpath \in Path /\ oldpath # newpath /\ dir[oldpath] = None /\ dir[newpath] # None
  BY DEF TrackInv, CallKnown
<1>2. pc' = "idle" /\ oldpath' = None /\ newpath' = None
  BY DEF Return
<1>3. /\ name' \in [Fd -> Path \cup {None}]
      /\ \A d \in Fd : name'[d] = IF name[d] = oldpath THEN newpath ELSE name[d]
  BY <1>1 DEF RenameInTable, TrackInv, TypeOK
<1>4. /\ untracked' \subseteq Path
      /\ \A p \in Path : p \notin {oldpath, newpath} => (p \in untracked' <=> p \in untracked)
      /\ oldpath \in untracked => newpath \in untracked'
  BY <1>1 DEF Inherit, TrackInv, TypeOK
<1>5. Pending' = {}
  BY <1>1, <1>3 DEF Pending, TrackInv, CallKnown
<1>6. CallKnown'
  BY <1>2, <1>5 DEF CallKnown
<1>7. FilesKnown'
  BY <1>1, <1>2, <1>3, <1>4 DEF TrackInv, FilesKnown
<1>8. \A d \in Fd : fdfile[d] # None /\ name'[d] = newpath /\ newpath \notin untracked'
                    /\ dir[newpath] = fdfile[d] => name[d] = oldpath /\ oldpath \notin untracked
  BY <1>1, <1>3, <1>4 DEF TrackInv, FilesKnown
<1>. QED  BY <1>1, <1>2, <1>3, <1>4, <1>6, <1>7, <1>8 DEF Renamed

LEMMA MoveRingStep ==
    ASSUME TrackInv, MoveRing
    PROVE  TrackInv'
<1>. USE NoneApart DEF Renamed
<1>1. /\ pc = "rename" /\ oldpath \in Guarded /\ newpath \in Guarded
      /\ ring' = [ring EXCEPT ![newpath] = ring[oldpath], ![oldpath] = None]
      /\ RenameInTable /\ untracked' = Inherit /\ Return
      /\ UNCHANGED <<dir, fdfile, guard>> /\ Keep(of)
  BY DEF MoveRing
<1>2. Renamed
  BY <1>1, RenameEnds
<1>3. /\ of' \in [Ring -> File \cup {None}]
      /\ \A g \in Guarded : ring'[g] \in Ring => of'[ring'[g]] = of[ring'[g]]
  BY <1>1, KeepKnown DEF TrackInv, TypeOK
<1>4. \A g \in Guarded : ring'[g] = IF g = oldpath THEN None
                                    ELSE IF g = newpath THEN ring[oldpath] ELSE ring[g]
  BY <1>1, <1>2 DEF TrackInv, TypeOK
<1>5. TypeOK'
  BY <1>1, <1>2, <1>3 DEF TrackInv, TypeOK
<1>6. NamesApart'
  <2>1. \A g, h \in Guarded : ring[g] = ring[h] /\ ring[g] # None => g = h
    BY DEF TrackInv, NamesApart
  <2>2. ASSUME NEW g \in Guarded, NEW h \in Guarded, ring'[g] = ring'[h], ring'[g] # None
        PROVE  g = h
    BY <1>1, <1>2, <1>4, <2>1, <2>2
  <2>. QED  BY <1>1, <2>2 DEF TrackInv, NamesApart
<1>7. RingsKnown'
  BY <1>1, <1>2, <1>3, <1>4 DEF TrackInv, TypeOK, RingsKnown
<1>8. GuardsKnown'
  BY <1>1, <1>2, <1>4 DEF TrackInv, TypeOK, GuardsKnown
<1>. QED  BY <1>2, <1>5, <1>6, <1>7, <1>8 DEF TrackInv

LEMMA DropRingStep ==
    ASSUME TrackInv, DropRing
    PROVE  TrackInv'
<1>. USE NoneApart DEF Renamed
<1>1. /\ pc = "rename" /\ oldpath \in Guarded /\ newpath \in Plain
      /\ ring' = [ring EXCEPT ![oldpath] = None]
      /\ guard' = [d \in Fd |-> IF ring[oldpath] # None /\ d \in OpenAs(oldpath)
                                THEN None ELSE guard[d]]
      /\ RenameInTable /\ untracked' = Inherit /\ Return
      /\ UNCHANGED <<dir, fdfile>> /\ Keep(of)
  BY DEF DropRing
<1>2. Renamed
  BY <1>1, RenameEnds
<1>3. /\ of' \in [Ring -> File \cup {None}]
      /\ \A g \in Guarded : ring'[g] \in Ring => of'[ring'[g]] = of[ring'[g]]
  BY <1>1, KeepKnown DEF TrackInv, TypeOK
<1>4. /\ \A g \in Guarded : ring'[g] = IF g = oldpath THEN None ELSE ring[g]
      /\ \A d \in Fd : guard'[d] = IF ring[oldpath] # None /\ name[d] = oldpath THEN None ELSE guard[d]
  BY <1>1 DEF TrackInv, TypeOK, OpenAs
<1>5. TypeOK'
  BY <1>1, <1>2, <1>3, <1>4 DEF TrackInv, TypeOK
<1>6. NamesApart'
  BY <1>1, <1>4 DEF TrackInv, NamesApart
<1>7. RingsKnown'
  BY <1>1, <1>2, <1>3, <1>4 DEF TrackInv, TypeOK, RingsKnown
<1>8. GuardsKnown'
  BY <1>1, <1>2, <1>4 DEF TrackInv, TypeOK, GuardsKnown
<1>. QED  BY <1>2, <1>5, <1>6, <1>7, <1>8 DEF TrackInv

LEMMA RenamePlainStep ==
    ASSUME TrackInv, RenamePlain
    PROVE  TrackInv'
<1>. USE NoneApart DEF Renamed
<1>1. /\ pc = "rename" /\ oldpath \in Plain /\ newpath \in Plain
      /\ RenameInTable /\ untracked' = Inherit /\ Return
      /\ UNCHANGED <<dir, ring, of, fdfile, guard>>
  BY DEF RenamePlain, fileVars
<1>2. Renamed
  BY <1>1, RenameEnds
<1>3. TypeOK'
  BY <1>1, <1>2 DEF TrackInv, TypeOK
<1>4. NamesApart'
  BY <1>1 DEF TrackInv, NamesApart
<1>5. RingsKnown'
  BY <1>1, <1>2 DEF TrackInv, RingsKnown
<1>6. GuardsKnown'
  BY <1>1, <1>2 DEF TrackInv, TypeOK, GuardsKnown
<1>. QED  BY <1>2, <1>3, <1>4, <1>5, <1>6 DEF TrackInv

LEMMA AttachRingStep ==
    ASSUME TrackInv, AttachRing
    PROVE  TrackInv'
<1>. USE NoneApart DEF Renamed
<1>1. /\ pc = "rename" /\ oldpath \in Plain /\ newpath \in Guarded
      /\ untracked' = IF NotInTable THEN untracked \cup {oldpath, newpath} ELSE Inherit
      /\ RenameInTable /\ Return /\ UNCHANGED <<dir, fdfile>>
  BY DEF AttachRing
<1>2. Renamed
  BY <1>1, RenameEnds
<1>3. CASE OpenAs(oldpath) = {}
  <2>1. UNCHANGED <<ring, guard>> /\ Keep(of) /\ newpath \in untracked' /\ oldpath \in untracked'
    BY <1>1, <1>3 DEF AttachRing, NotInTable
  <2>2. /\ of' \in [Ring -> File \cup {None}]
        /\ \A g \in Guarded : ring'[g] \in Ring => of'[ring'[g]] = of[ring'[g]]
    BY <2>1, KeepKnown DEF TrackInv, TypeOK
  <2>3. TypeOK'
    BY <1>1, <1>2, <2>1, <2>2 DEF TrackInv, TypeOK, OpenAs
  <2>4. NamesApart'
    BY <1>1, <2>1 DEF TrackInv, NamesApart
  <2>5. RingsKnown'
    BY <1>1, <1>2, <2>1, <2>2 DEF TrackInv, TypeOK, RingsKnown
  <2>6. GuardsKnown'
    BY <1>1, <1>2, <2>1 DEF TrackInv, TypeOK, GuardsKnown
  <2>. QED  BY <1>2, <2>3, <2>4, <2>5, <2>6 DEF TrackInv
<1>4. CASE OpenAs(oldpath) # {}
  <2>. DEFINE r == RingFor(newpath)
              d == CHOOSE d \in OpenAs(oldpath) : \A e \in OpenAs(oldpath) : e <= d
              o == [of EXCEPT ![r] = fdfile[d]]
  <2>1. /\ ring' = [ring EXCEPT ![newpath] = r]
        /\ guard' = [e \in Fd |-> IF e \in OpenAs(oldpath) THEN r ELSE guard[e]]
        /\ Keep(o)
    BY <1>4 DEF AttachRing
  <2>2. d \in OpenAs(oldpath)
    BY <1>4, GreatestIsIn DEF OpenAs
  <2>3. r \in Ring /\ \A g \in Guarded : g # newpath => ring[g] # r
    <3>1. CASE ring[newpath] # None
      BY <1>1, <3>1 DEF RingFor, TrackInv, TypeOK, NamesApart
    <3>2. CASE ring[newpath] = None
      BY <1>1, <3>2, FreshRing DEF RingFor, TrackInv, Reached
    <3>. QED  BY <3>1, <3>2
  <2>4. d \in Fd /\ name[d] = oldpath /\ (newpath \notin untracked' => fdfile[d] = dir[newpath])
    BY <1>1, <2>2 DEF OpenAs, NotInTable
  <2>. HIDE DEF r, d
  <2>5. o \in [Ring -> File \cup {None}] /\ \A s \in Ring : o[s] = IF s = r THEN fdfile[d] ELSE of[s]
    BY <2>3, <2>4 DEF TrackInv, TypeOK
  <2>. HIDE DEF o
  <2>6. /\ of' \in [Ring -> File \cup {None}]
        /\ \A g \in Guarded : ring'[g] \in Ring => of'[ring'[g]] = o[ring'[g]]
    BY <2>1, <2>5, KeepKnown
  <2>7. /\ \A g \in Guarded : ring'[g] = IF g = newpath THEN r ELSE ring[g]
        /\ \A e \in Fd : guard'[e] = IF name[e] = oldpath THEN r ELSE guard[e]
    BY <1>1, <2>1 DEF TrackInv, TypeOK, OpenAs
  <2>8. TypeOK'
    <3>1. \A e \in Fd : fdfile[e] = None => name[e] = None /\ guard[e] = None
      BY DEF TrackInv, TypeOK
    <3>2. ring' \in [Guarded -> Ring \cup {None}] /\ guard' \in [Fd -> Ring \cup {None}]
      BY <1>1, <2>1, <2>3 DEF TrackInv, TypeOK
    <3>3. \A e \in Fd : fdfile'[e] = None => name'[e] = None /\ guard'[e] = None
      BY <1>1, <1>2, <2>7, <3>1
    <3>. QED  BY <1>1, <1>2, <2>6, <3>2, <3>3 DEF TrackInv, TypeOK
  <2>9. NamesApart'
    BY <1>1, <2>3, <2>7 DEF TrackInv, NamesApart
  <2>10. RingsKnown'
    <3>1. ASSUME NEW g \in Guarded \ untracked', ring'[g] # None
          PROVE  of'[ring'[g]] = dir'[g] /\ dir'[g] # None
      <4>1. CASE g = newpath
        BY <1>1, <1>2, <2>3, <2>4, <2>5, <2>6, <2>7, <3>1, <4>1
      <4>2. CASE g # newpath
        <5>1. g # oldpath /\ g \notin untracked /\ ring[g] # None /\ ring'[g] = ring[g] /\ ring[g] # r
          BY <1>1, <1>2, <2>3, <2>7, <3>1, <4>2
        <5>2. of[ring[g]] = dir[g] /\ dir[g] # None /\ ring[g] \in Ring
          BY <4>2, <5>1 DEF TrackInv, TypeOK, RingsKnown
        <5>. QED  BY <1>1, <2>5, <2>6, <5>1, <5>2
      <4>. QED  BY <4>1, <4>2
    <3>. QED  BY <1>2, <3>1 DEF RingsKnown
  <2>11. GuardsKnown'
    BY <1>1, <1>2, <2>3, <2>7 DEF TrackInv, TypeOK, GuardsKnown
  <2>. QED  BY <1>2, <2>8, <2>9, <2>10, <2>11 DEF TrackInv
<1>. QED  BY <1>3, <1>4

LEMMA SecondCallFailsStep ==
    ASSUME TrackInv, SecondCallFails
    PROVE  TrackInv'
<1>. USE NoneApart
<1>1. /\ pc \in {"unlink", "rename"} /\ untracked' = untracked \cup CutShort
      /\ {oldpath, newpath} \cap Guarded # {}
      /\ pc' = "idle" /\ oldpath' = None /\ newpath' = None
      /\ UNCHANGED <<dir, ring, of, fdfile, name, guard>>
  BY DEF SecondCallFails, Return, fileVars, tableVars
<1>2. \A p \in Path : p \in untracked' <=> p \in untracked \/ p \in {oldpath, newpath}
  BY <1>1 DEF CutShort
<1>3. untracked' \subseteq Path
  BY <1>1 DEF CutShort, TrackInv, TypeOK
<1>4. TypeOK'
  BY <1>1, <1>3 DEF TrackInv, TypeOK
<1>5. CallKnown'
  BY <1>1 DEF TrackInv, CallKnown, Pending
<1>6. NamesApart'
  BY <1>1 DEF TrackInv, NamesApart
<1>7. FilesKnown'
  BY <1>1, <1>2 DEF TrackInv, FilesKnown
<1>8. RingsKnown'
  BY <1>1, <1>2 DEF TrackInv, RingsKnown
<1>9. GuardsKnown'
  BY <1>1, <1>2 DEF TrackInv, TypeOK, GuardsKnown
<1>. QED  BY <1>4, <1>5, <1>6, <1>7, <1>8, <1>9 DEF TrackInv

LEMMA CrashStep ==
    ASSUME TrackInv, Crash
    PROVE  TrackInv'
<1>. USE NoneApart
<1>1. /\ fdfile' = [d \in Fd |-> None] /\ name' = [d \in Fd |-> None] /\ guard' = [d \in Fd |-> None]
      /\ untracked' = untracked \cup CutShort
      /\ pc' = "idle" /\ oldpath' = None /\ newpath' = None
      /\ UNCHANGED <<dir, ring>> /\ Keep(of)
  BY DEF Crash, Return
<1>2. /\ of' \in [Ring -> File \cup {None}]
      /\ \A g \in Guarded : ring'[g] \in Ring => of'[ring'[g]] = of[ring'[g]]
  BY <1>1, KeepKnown DEF TrackInv, TypeOK
<1>3. /\ untracked' \subseteq Path
      /\ \A g \in Guarded : g \notin untracked' => g \notin untracked /\ g \notin {oldpath, newpath}
  <2>1. pc = "idle" => oldpath = None /\ newpath = None
    BY DEF TrackInv, CallKnown
  <2>2. CutShort \subseteq Path
    BY DEF CutShort, TrackInv, TypeOK
  <2>3. untracked' \subseteq Path
    BY <1>1, <2>2 DEF TrackInv, TypeOK
  <2>4. \A g \in Guarded : g \in {oldpath, newpath} => g \in CutShort
    BY <2>1 DEF CutShort
  <2>. QED  BY <1>1, <2>3, <2>4
<1>4. TypeOK'
  BY <1>1, <1>2, <1>3 DEF TrackInv, TypeOK
<1>5. CallKnown' /\ NamesApart' /\ FilesKnown' /\ GuardsKnown'
  BY <1>1 DEF TrackInv, CallKnown, Pending, NamesApart, FilesKnown, GuardsKnown
<1>6. RingsKnown'
  BY <1>1, <1>2, <1>3 DEF TrackInv, TypeOK, RingsKnown
<1>. QED  BY <1>4, <1>5, <1>6 DEF TrackInv

-----------------------------------------------------------------------------
(* The theorems.                                                           *)

LEMMA TrackInit == Init => TrackInv
<1>. USE NoneApart
<1>. SUFFICES ASSUME Init PROVE TrackInv
  OBVIOUS
<1>1. Least(File) \in File
  BY InjectAssumption, LeastIsIn
<1>2. dir \in [Path -> {None, Least(File)}] /\ \A p, q \in Path : dir[p] # None /\ dir[q] # None => p = q
  BY DEF Init
<1>3. TypeOK
  BY <1>1, <1>2 DEF Init, TypeOK
<1>4. CallKnown /\ FilesKnown /\ RingsKnown /\ GuardsKnown
  BY DEF Init, CallKnown, Pending, FilesKnown, RingsKnown, GuardsKnown
<1>5. NamesApart
  BY <1>2 DEF Init, NamesApart
<1>. QED  BY <1>3, <1>4, <1>5 DEF TrackInv

LEMMA TrackStep == TrackInv /\ [Next]_vars => TrackInv'
<1>. SUFFICES ASSUME TrackInv, [Next]_vars PROVE TrackInv'
  OBVIOUS
<1>1. CASE Next
  <2>1. CASE \/ \E d \in Fd, p \in Path : Open(d, p) \/ OpenCreate(d, p)
             \/ \E p \in Path : OpenRefused(p)
             \/ InitRing \/ OpenFails \/ \E d \in Fd : Close(d)
    BY <2>1, OpenStep, OpenCreateStep, OpenRefusedStep, InitRingStep, OpenFailsStep, CloseStep
  <2>2. CASE (\E p \in Path : UnlinkFile(p)) \/ UnlinkRing
    BY <2>2, UnlinkFileStep, UnlinkRingStep
  <2>3. CASE \/ \E p, q \in Path : RenameFile(p, q)
             \/ MoveRing \/ AttachRing \/ DropRing \/ RenamePlain
    BY <2>3, RenameFileStep, MoveRingStep, AttachRingStep, DropRingStep, RenamePlainStep
  <2>4. CASE SecondCallFails \/ Crash
    BY <2>4, SecondCallFailsStep, CrashStep
  <2>. QED  BY <1>1, <2>1, <2>2, <2>3, <2>4 DEF Next
<1>2. CASE UNCHANGED vars
  <2>1. UNCHANGED <<dir, ring, of, fdfile, name, guard, pc, oldpath, newpath, untracked>>
    BY <1>2 DEF vars, fileVars, tableVars
  <2>2. TypeOK' /\ CallKnown' /\ NamesApart'
    BY <2>1 DEF TrackInv, TypeOK, CallKnown, Pending, NamesApart
  <2>3. FilesKnown' /\ RingsKnown' /\ GuardsKnown'
    BY <2>1 DEF TrackInv, FilesKnown, RingsKnown, GuardsKnown
  <2>. QED  BY <2>2, <2>3 DEF TrackInv
<1>. QED  BY <1>1, <1>2

\* The invariant that the other theorems rest on holds in every reachable state.
THEOREM TrackInvariant == Spec => []TrackInv
  BY TrackInit, TrackStep, PTL DEF Spec

\* With any number of paths, files and descriptors, and after any sequence of
\* calls, crashes and failed system calls, the ring under a guarded path that
\* the code has not lost track of is that of the file at the path: a replay by
\* open never writes the bytes of another file.
THEOREM ReplaysIntoItsFile == Spec => []RingBelongsToFile
<1>1. TrackInv => RingBelongsToFile
  BY NoneApart DEF TrackInv, CallKnown, RingsKnown, RingBelongsToFile
<1>. QED  BY <1>1, TrackInvariant, PTL

\* A descriptor whose file is still at the path it goes by writes through the
\* ring of that path if the path is guarded, and through none otherwise.
THEOREM WritesThroughItsRing == Spec => []GuardedThroughName
<1>1. ASSUME TrackInv PROVE GuardedThroughName
  <2>1. pc = "idle" => Pending = {}
    BY <1>1 DEF TrackInv, CallKnown
  <2>. QED  BY <1>1, <2>1, NoneApart DEF TrackInv, GuardsKnown, GuardedThroughName, Pending
<1>. QED  BY <1>1, TrackInvariant, PTL
=============================================================================
