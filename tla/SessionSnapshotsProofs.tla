----------------------- MODULE SessionSnapshotsProofs -----------------------
(***************************************************************************)
(* Proofs about SessionSnapshots, for any number of calls, snapshots,      *)
(* programs and changes.                                                   *)
(***************************************************************************)
EXTENDS SessionSnapshots, FiniteSetTheorems, TLAPS

\* Control points at which a call builds the session's next snapshot, and at which it
\* has snapshotUpdateMu locked.
Updating == {"update", "reupdate"}
Locking == {"flushed", "update", "rejected", "again", "reupdate"}
Warming == {"cloning", "cloned", "leaving"}

\* What a call points to and which mutexes it has is determined by its control point.
CallsWellFormed ==
    \A c \in Calls :
        /\ snap[c] # Nil <=> pc[c] \in Updating \union SnapStates
        /\ clone[c] # Nil <=> pc[c] \in {"auto", "clone"}
        /\ updateMu = c <=> pc[c] \in Locking
        /\ snapshotMu = c <=> pc[c] \in Updating

\* A warming task has a clone while it makes and has one; clones are not their own base.
TasksWellFormed ==
    /\ \A s \in Snapshots : /\ child[s] # Nil <=> warm[s] \in {"cloning", "cloned"}
                            /\ child[s] # s
    /\ \A a \in adopts : a[1] # a[2]

\* The counts are exact.
Counted == \A s \in Snapshots : refCount[s] = Holders(s)

\* Whatever somebody has a reference to is not disposed of; the base of an adoption may be.
HeldMade ==
    /\ phase[current] = "made"
    /\ \A c \in Calls : /\ pc[c] \in SnapStates => phase[snap[c]] = "made"
                        /\ pc[c] = "clone" /\ CloneRef(c) => phase[clone[c]] = "made"
    /\ \A a \in adopts : phase[a[2]] = "made" /\ phase[a[1]] # "building"
    /\ \A s \in Snapshots : /\ warm[s] \in Warming => phase[s] = "made"
                            /\ warm[s] = "cloned" => phase[child[s]] = "made"

\* Whoever builds a snapshot has a reference to its parent.
Built ==
    /\ \A c \in Calls :
         /\ pc[c] \in Updating => phase[snap[c]] = "building" /\ parent[snap[c]] = current
         /\ pc[c] = "auto" => phase[clone[c]] = "building" /\ parent[clone[c]] = snap[c]
    /\ \A t \in Snapshots :
         warm[t] = "cloning" => phase[child[t]] = "building" /\ parent[child[t]] = t

\* A snapshot that is being built has a builder, and no task that warms it yet.
Builder(s) ==
    \/ \E c \in Calls : pc[c] \in Updating /\ snap[c] = s
    \/ \E c \in Calls : pc[c] = "auto" /\ clone[c] = s
    \/ \E t \in Snapshots : warm[t] = "cloning" /\ child[t] = s
HasBuilder == \A s \in Snapshots : phase[s] = "building" => Builder(s)
NotWarmed == \A s \in Snapshots : phase[s] = "building" => warm[s] = "none"

\* It has one builder only.
Distinct ==
    /\ \A c, d \in Calls : pc[c] = "auto" /\ pc[d] = "auto" /\ clone[c] = clone[d] => c = d
    /\ \A c, d \in Calls : pc[c] \in Updating /\ pc[d] = "auto" => snap[c] # clone[d]
    /\ \A t, u \in Snapshots :
         warm[t] = "cloning" /\ warm[u] = "cloning" /\ child[t] = child[u] => t = u
    /\ \A c \in Calls, t \in Snapshots : warm[t] = "cloning" =>
         /\ pc[c] \in Updating => snap[c] # child[t]
         /\ pc[c] = "auto" => clone[c] # child[t]

\* A program is counted once per snapshot that has it, and lives as long as there is one;
\* a new program is its first snapshot's alone while that is being built.
Having(p) == {s \in Snapshots : phase[s] = "made" /\ program[s] = p}
Present == {s \in Snapshots : phase[s] # "none"}
ProgramsCounted ==
    /\ \A p \in Programs : refs[p] = Cardinality(Having(p))
    /\ \A p \in Programs : p \in live <=> \E s \in Present : program[s] = p
    /\ \A s \in Snapshots : phase[s] = "building" =>
         \/ program[s] = program[parent[s]]
         \/ \A t \in Present : program[t] = program[s] => t = s

\* The current snapshot, what a call has flushed and what is pending make up all changes;
\* clones for auto-imports have the changes of their base.
FilesTracked ==
    /\ files[current] + pendingFiles + (IF updateMu = Nil THEN 0 ELSE flushed[updateMu].files)
         = written
    /\ \A c \in Calls :
         /\ pc[c] \in Updating => files[snap[c]] = files[current] + flushed[c].files
         /\ pc[c] = "auto" => files[clone[c]] = files[snap[c]]
    /\ \A t \in Snapshots : warm[t] \in {"cloning", "cloned"} => files[child[t]] = files[t]
    /\ \A a \in adopts : phase[a[1]] = "made" => files[a[2]] = files[a[1]]

IInv ==
    /\ TypeOK /\ CallsWellFormed /\ TasksWellFormed /\ Counted /\ HeldMade
    /\ Built /\ HasBuilder /\ NotWarmed /\ Distinct /\ ProgramsCounted /\ FilesTracked

------------------------------------------------------------------------------
(* Counting *)

\* A set that changes at one element at most changes its cardinality accordingly.
LEMMA OnePoint ==
    ASSUME NEW S, NEW T, NEW x, IsFiniteSet(S), \A y : y # x => (y \in S <=> y \in T)
    PROVE  /\ IsFiniteSet(T)
           /\ Cardinality(S) \in Nat /\ Cardinality(T) \in Nat
           /\ Cardinality(T) = Cardinality(S) - (IF x \in S THEN 1 ELSE 0)
                                              + (IF x \in T THEN 1 ELSE 0)
  <1>1. CASE x \in S /\ x \notin T
    <2>1. T = S \ {x}
      BY <1>1
    <2> QED BY <1>1, <2>1, FS_RemoveElement, FS_CardinalityType
  <1>2. CASE x \notin S /\ x \in T
    <2>1. T = S \union {x}
      BY <1>2
    <2> QED BY <1>2, <2>1, FS_AddElement, FS_CardinalityType
  <1>3. CASE x \in S <=> x \in T
    <2>1. T = S
      BY <1>3
    <2> QED BY <1>3, <2>1, FS_CardinalityType
  <1> QED BY <1>1, <1>2, <1>3

\* The parties that hold a snapshot are finitely many.
LEMMA HoldersFinite ==
    ASSUME TypeOK, NEW s \in Snapshots
    PROVE  /\ IsFiniteSet(SnapHolders(s)) /\ Cardinality(SnapHolders(s)) \in Nat
           /\ IsFiniteSet(CloneHolders(s)) /\ Cardinality(CloneHolders(s)) \in Nat
           /\ IsFiniteSet(AdoptHolders(s)) /\ Cardinality(AdoptHolders(s)) \in Nat
           /\ IsFiniteSet(ChildHolders(s)) /\ Cardinality(ChildHolders(s)) \in Nat
  <1>1. IsFiniteSet(Calls) /\ IsFiniteSet(Snapshots) /\ IsFiniteSet(Snapshots \X Snapshots)
    BY CallsAssumption, FS_Product
  <1>2. /\ SnapHolders(s) \subseteq Calls /\ CloneHolders(s) \subseteq Calls
        /\ AdoptHolders(s) \subseteq Snapshots \X Snapshots
        /\ ChildHolders(s) \subseteq Snapshots
    BY DEF SnapHolders, CloneHolders, AdoptHolders, ChildHolders, TypeOK
  <1>3. /\ IsFiniteSet(SnapHolders(s)) /\ IsFiniteSet(CloneHolders(s))
        /\ IsFiniteSet(AdoptHolders(s)) /\ IsFiniteSet(ChildHolders(s))
    BY <1>1, <1>2, FS_Subset
  <1> QED BY <1>3, FS_CardinalityType

\* Everybody who holds a snapshot is counted.
LEMMA HolderCounted ==
    ASSUME TypeOK, Counted, NEW s \in Snapshots
    PROVE  /\ s = current => refCount[s] > 0
           /\ warm[s] \in Warming => refCount[s] > 0
           /\ \A c \in Calls : pc[c] \in SnapStates /\ snap[c] = s => refCount[s] > 0
           /\ \A c \in Calls : pc[c] = "clone" /\ CloneRef(c) /\ clone[c] = s =>
                 refCount[s] > (IF snap[c] = s THEN 1 ELSE 0)
           /\ \A a \in adopts : a[2] = s => refCount[s] > 0
           /\ \A t \in Snapshots : warm[t] = "cloned" /\ child[t] = s => refCount[s] > 0
  <1>1. refCount[s] = Holders(s)
    BY DEF Counted
  <1> DEFINE n1 == Cardinality(SnapHolders(s))
             n2 == Cardinality(CloneHolders(s))
             n3 == Cardinality(AdoptHolders(s))
             n4 == Cardinality(ChildHolders(s))
  <1>2. /\ n1 \in Nat /\ n2 \in Nat /\ n3 \in Nat /\ n4 \in Nat
    BY HoldersFinite
  <1>3. \A S : IsFiniteSet(S) /\ S # {} => Cardinality(S) # 0
    BY FS_EmptySet
  <1>4. /\ SnapHolders(s) # {} => n1 > 0
        /\ CloneHolders(s) # {} => n2 > 0
        /\ AdoptHolders(s) # {} => n3 > 0
        /\ ChildHolders(s) # {} => n4 > 0
    BY <1>2, <1>3, HoldersFinite
  <1>5. refCount[s] = n1 + n2 + n3 + n4 + (IF warm[s] \in Warming THEN 1 ELSE 0)
                        + (IF s = current THEN 1 ELSE 0)
    BY <1>1 DEF Holders, Warming
  <1> HIDE DEF n1, n2, n3, n4
  <1>6. s = current => refCount[s] > 0
    BY <1>2, <1>5
  <1>7. warm[s] \in Warming => refCount[s] > 0
    BY <1>2, <1>5
  <1>8. ASSUME NEW c \in Calls, pc[c] \in SnapStates, snap[c] = s PROVE n1 > 0
    BY <1>4, <1>8 DEF SnapHolders
  <1>9. ASSUME NEW c \in Calls, pc[c] = "clone", CloneRef(c), clone[c] = s
        PROVE  n2 > 0 /\ (snap[c] = s => n1 > 0)
    BY <1>4, <1>8, <1>9 DEF CloneHolders, SnapStates
  <1>10. ASSUME NEW a \in adopts, a[2] = s PROVE n3 > 0
    BY <1>4, <1>10 DEF AdoptHolders
  <1>11. ASSUME NEW t \in Snapshots, warm[t] = "cloned", child[t] = s PROVE n4 > 0
    BY <1>4, <1>11 DEF ChildHolders
  <1>12. \A c \in Calls : pc[c] \in SnapStates /\ snap[c] = s => refCount[s] > 0
    BY <1>2, <1>5, <1>8
  <1>13. \A c \in Calls : pc[c] = "clone" /\ CloneRef(c) /\ clone[c] = s =>
                 refCount[s] > (IF snap[c] = s THEN 1 ELSE 0)
    BY <1>2, <1>5, <1>9
  <1>14. \A a \in adopts : a[2] = s => refCount[s] > 0
    BY <1>2, <1>5, <1>10
  <1>15. \A t \in Snapshots : warm[t] = "cloned" /\ child[t] = s => refCount[s] > 0
    BY <1>2, <1>5, <1>11
  <1> QED BY <1>6, <1>7, <1>12, <1>13, <1>14, <1>15

\* What a call c, an adoption a, a warming task t, the task that warms s and the session
\* contribute to the holders of s.
Weight(s, c, a, t) ==
    (IF c \in SnapHolders(s) THEN 1 ELSE 0) + (IF c \in CloneHolders(s) THEN 1 ELSE 0)
      + (IF a \in AdoptHolders(s) THEN 1 ELSE 0) + (IF t \in ChildHolders(s) THEN 1 ELSE 0)
      + (IF warm[s] \in Warming THEN 1 ELSE 0) + (IF s = current THEN 1 ELSE 0)

\* A step changes no call, adoption and warming task other than c, a and t.
Only(c, a, t) ==
    /\ \A d \in Calls : d # c => snap'[d] = snap[d] /\ clone'[d] = clone[d] /\ pc'[d] = pc[d]
    /\ \A b : b # a => (b \in adopts <=> b \in adopts')
    /\ \A u \in Snapshots : u # t => warm'[u] = warm[u] /\ child'[u] = child[u]

\* How the holders of a snapshot change with one call, one adoption and one warming task.
LEMMA HoldersStep ==
    ASSUME TypeOK, NEW s \in Snapshots, NEW c, NEW a, NEW t, Only(c, a, t)
    PROVE  /\ Holders(s) \in Nat /\ Holders(s)' \in Nat
           /\ Weight(s, c, a, t) \in Nat /\ Weight(s, c, a, t)' \in Nat
           /\ Holders(s)' = Holders(s) - Weight(s, c, a, t) + Weight(s, c, a, t)'
  <1>1. \A d : d # c => (d \in SnapHolders(s) <=> d \in SnapHolders(s)')
    BY DEF Only, SnapHolders
  <1>2. \A d : d # c => (d \in CloneHolders(s) <=> d \in CloneHolders(s)')
    BY DEF Only, CloneHolders, CloneRef
  <1>3. \A b : b # a => (b \in AdoptHolders(s) <=> b \in AdoptHolders(s)')
    BY DEF Only, AdoptHolders
  <1>4. \A u : u # t => (u \in ChildHolders(s) <=> u \in ChildHolders(s)')
    BY DEF Only, ChildHolders
  <1> DEFINE n1 == Cardinality(SnapHolders(s))
             n2 == Cardinality(CloneHolders(s))
             n3 == Cardinality(AdoptHolders(s))
             n4 == Cardinality(ChildHolders(s))
  <1>5. /\ n1 \in Nat /\ n1' \in Nat
        /\ n1' = n1 - (IF c \in SnapHolders(s) THEN 1 ELSE 0) + (IF c \in SnapHolders(s)' THEN 1 ELSE 0)
    BY <1>1, HoldersFinite, OnePoint
  <1>6. /\ n2 \in Nat /\ n2' \in Nat
        /\ n2' = n2 - (IF c \in CloneHolders(s) THEN 1 ELSE 0) + (IF c \in CloneHolders(s)' THEN 1 ELSE 0)
    BY <1>2, HoldersFinite, OnePoint
  <1>7. /\ n3 \in Nat /\ n3' \in Nat
        /\ n3' = n3 - (IF a \in AdoptHolders(s) THEN 1 ELSE 0) + (IF a \in AdoptHolders(s)' THEN 1 ELSE 0)
    BY <1>3, HoldersFinite, OnePoint
  <1>8. /\ n4 \in Nat /\ n4' \in Nat
        /\ n4' = n4 - (IF t \in ChildHolders(s) THEN 1 ELSE 0) + (IF t \in ChildHolders(s)' THEN 1 ELSE 0)
    BY <1>4, HoldersFinite, OnePoint
  <1>9. /\ Holders(s) = n1 + n2 + n3 + n4 + (IF warm[s] \in Warming THEN 1 ELSE 0)
                        + (IF s = current THEN 1 ELSE 0)
        /\ Holders(s)' = n1' + n2' + n3' + n4' + (IF warm'[s] \in Warming THEN 1 ELSE 0)
                        + (IF s = current' THEN 1 ELSE 0)
    BY DEF Holders, Warming
  <1> HIDE DEF n1, n2, n3, n4
  <1> QED BY <1>5, <1>6, <1>7, <1>8, <1>9 DEF Weight

------------------------------------------------------------------------------
(* Types *)

\* Who is at a control point with a snapshot, a clone or a child has one.
LEMMA Pointers ==
    ASSUME TypeOK, CallsWellFormed, TasksWellFormed
    PROVE  /\ \A c \in Calls : pc[c] \in Updating \union SnapStates => snap[c] \in Snapshots
           /\ \A c \in Calls : pc[c] \in {"auto", "clone"} => clone[c] \in Snapshots
           /\ \A s \in Snapshots : warm[s] \in {"cloning", "cloned"} => child[s] \in Snapshots
           /\ \A a \in adopts : a[1] \in Snapshots /\ a[2] \in Snapshots
  <1>1. \A c \in Calls : pc[c] \in Updating \union SnapStates => snap[c] \in Snapshots
    BY DEF TypeOK, CallsWellFormed
  <1>2. \A c \in Calls : pc[c] \in {"auto", "clone"} => clone[c] \in Snapshots
    BY DEF TypeOK, CallsWellFormed
  <1>3. \A s \in Snapshots : warm[s] \in {"cloning", "cloned"} => child[s] \in Snapshots
    BY DEF TypeOK, TasksWellFormed
  <1>4. \A a \in adopts : a[1] \in Snapshots /\ a[2] \in Snapshots
    BY DEF TypeOK
  <1> QED BY <1>1, <1>2, <1>3, <1>4

\* The changes of a call's update are what it has flushed, as far as files go.
LEMMA ChangesType ==
    ASSUME TypeOK, NEW c \in Calls
    PROVE  /\ Changes(c) \in [files : Nat, prefs : Nat]
           /\ Changes(c).files = flushed[c].files
  <1>1. flushed[c] \in [files : Nat, prefs : Nat]
    BY DEF TypeOK
  <1> QED BY <1>1 DEF Changes, NoChanges, NoPrefs

LEMMA NoChangesType == NoChanges \in [files : Nat, prefs : Nat] /\ NoChanges.files = 0
  BY DEF NoChanges, NoPrefs

\* The snapshots with a program are finitely many.
LEMMA HavingFinite ==
    ASSUME NEW p
    PROVE  IsFiniteSet(Having(p)) /\ Cardinality(Having(p)) \in Nat
  BY CallsAssumption, FS_Subset, FS_CardinalityType DEF Having

\* The types of what a clone changes.
ContentsOK ==
    /\ phase \in [Snapshots -> {"none", "building", "made"}]
    /\ parent \in [Snapshots -> Snapshots \union {Nil}]
    /\ files \in [Snapshots -> Nat] /\ userPrefs \in [Snapshots -> Nat]
    /\ program \in [Snapshots -> Programs]
    /\ refs \in [Programs -> Nat]
    /\ live \subseteq Programs

\* What beginning a clone does to the snapshots.
LEMMA BeginCloneType ==
    ASSUME TypeOK, NEW s \in Snapshots, NEW p \in Snapshots,
           NEW d \in [files : Nat, prefs : Nat], BeginClone(s, p, d)
    PROVE  ContentsOK'
  <1>1. files[p] + d.files \in Nat /\ userPrefs[p] \in Nat /\ d.prefs \in Nat
    BY DEF TypeOK
  <1>2. program' \in [Snapshots -> Programs] /\ live' \subseteq Programs
    BY DEF TypeOK, BeginClone
  <1> QED BY <1>1, <1>2 DEF TypeOK, BeginClone, ContentsOK

\* What ending a clone does to the snapshots.
LEMMA EndCloneType ==
    ASSUME TypeOK, NEW s \in Snapshots, EndClone(s)
    PROVE  ContentsOK'
  BY DEF TypeOK, EndClone, ContentsOK

\* The variables keep their types: the counts are decremented by holders only.
LEMMA TypeStep ==
    ASSUME IInv, [Next]_vars
    PROVE  TypeOK'
  <1> USE DEF IInv, Updating, Warming, SnapStates, PCs, WarmStates, sessVars, muVars, snapVars,
          callVars, taskVars
  <1>0. CASE UNCHANGED vars
    BY <1>0 DEF TypeOK, vars
  <1>1. CASE DidChangeFile
    BY <1>1 DEF TypeOK, DidChangeFile
  <1>2. CASE Configure
    BY <1>2 DEF TypeOK, Configure
  <1>3. ASSUME NEW c \in Calls, Flush(c) PROVE TypeOK'
    BY <1>3 DEF TypeOK, Flush, NoPrefs
  <1>4. ASSUME NEW c \in Calls, DidOpenFile(c) PROVE TypeOK'
    BY <1>4 DEF TypeOK, DidOpenFile, NoPrefs
  <1>5. ASSUME NEW c \in Calls, RefCurrent(c) PROVE TypeOK'
    BY <1>5 DEF TypeOK, RefCurrent
  <1>6. ASSUME NEW c \in Calls, SkipUpdate(c) PROVE TypeOK'
    BY <1>6 DEF TypeOK, SkipUpdate
  <1>7. ASSUME NEW c \in Calls, TakeCurrent(c) PROVE TypeOK'
    BY <1>7 DEF TypeOK, TakeCurrent
  <1>8. ASSUME NEW c \in Calls, BeginUpdate(c) PROVE TypeOK'
    <2>1. PICK s \in Snapshots : BeginClone(s, current, Changes(c)) /\ snap' = [snap EXCEPT ![c] = s]
      BY <1>8 DEF BeginUpdate
    <2>2. ContentsOK'
      BY <1>8, <2>1, BeginCloneType, ChangesType DEF TypeOK, BeginUpdate
    <2> QED BY <1>8, <2>1, <2>2 DEF TypeOK, ContentsOK, BeginUpdate
  <1>9. ASSUME NEW c \in Calls, EndUpdate(c) PROVE TypeOK'
    <2>1. refCount[current] - 1 \in Nat /\ snap[c] \in Snapshots
      BY <1>9, Pointers, HolderCounted DEF TypeOK, EndUpdate
    <2>2. snap[c] # current
      BY <1>9 DEF EndUpdate, Built, HeldMade
    <2>3. refCount' \in [Snapshots -> Nat]
      BY <1>9, <2>1, <2>2 DEF TypeOK, EndUpdate
    <2>4. /\ warm' \in [Snapshots -> WarmStates] /\ flushed' \in [Calls -> [files : Nat, prefs : Nat]]
          /\ pc' \in [Calls -> PCs] /\ snap' \in [Calls -> Snapshots \union {Nil}]
      BY <1>9, <2>1, NoChangesType DEF TypeOK, EndUpdate
    <2>5. ContentsOK'
      BY <1>9, <2>1, <2>3, <2>4, EndCloneType DEF TypeOK, EndUpdate
    <2> QED BY <1>9, <2>1, <2>3, <2>4, <2>5 DEF TypeOK, ContentsOK, EndUpdate
  <1>10. ASSUME NEW c \in Calls, RejectUpdate(c) PROVE TypeOK'
    <2>1. snap[c] \in Snapshots
      BY <1>10, Pointers DEF TypeOK, RejectUpdate
    <2>2. ContentsOK'
      BY <1>10, <2>1, EndCloneType DEF TypeOK, RejectUpdate
    <2> QED BY <1>10, <2>1, <2>2 DEF TypeOK, ContentsOK, RejectUpdate
  <1>11. ASSUME NEW c \in Calls, ReleaseRejected(c) PROVE TypeOK'
    <2>1. refCount[snap[c]] - 1 \in Nat /\ snap[c] \in Snapshots
      BY <1>11, Pointers, HolderCounted DEF TypeOK, ReleaseRejected
    <2>2. /\ refCount' \in [Snapshots -> Nat] /\ snap' \in [Calls -> Snapshots \union {Nil}]
          /\ pc' \in [Calls -> PCs] /\ updateMu' \in Calls \union {Nil}
      BY <1>11, <2>1 DEF TypeOK, ReleaseRejected
    <2>3. flushed' \in [Calls -> [files : Nat, prefs : Nat]]
      BY <1>11, NoChangesType DEF TypeOK, ReleaseRejected
    <2> QED BY <1>11, <2>2, <2>3 DEF TypeOK, ReleaseRejected
  <1>12. ASSUME NEW c \in Calls, BeginAutoImports(c) PROVE TypeOK'
    <2>1. snap[c] \in Snapshots
      BY <1>12, Pointers DEF BeginAutoImports
    <2>2. PICK s \in Snapshots : BeginClone(s, snap[c], NoChanges) /\ clone' = [clone EXCEPT ![c] = s]
      BY <1>12 DEF BeginAutoImports
    <2>3. ContentsOK'
      BY <1>12, <2>1, <2>2, BeginCloneType, NoChangesType DEF TypeOK, BeginAutoImports
    <2> QED BY <1>12, <2>1, <2>2, <2>3 DEF TypeOK, ContentsOK, BeginAutoImports
  <1>13. ASSUME NEW c \in Calls, EndAutoImports(c) PROVE TypeOK'
    <2>1. snap[c] \in Snapshots /\ clone[c] \in Snapshots
      BY <1>13, Pointers DEF EndAutoImports
    <2>2. ContentsOK'
      BY <1>13, <2>1, EndCloneType DEF EndAutoImports
    <2>3. refCount' \in [Snapshots -> Nat] /\ adopts' \subseteq Snapshots \X Snapshots
      BY <1>13, <2>1 DEF TypeOK, EndAutoImports
    <2> QED BY <1>13, <2>2, <2>3 DEF TypeOK, ContentsOK, EndAutoImports
  <1>14. ASSUME NEW c \in Calls, NoProjectForClone(c) PROVE TypeOK'
    <2>1. clone[c] \in Snapshots
      BY <1>14, Pointers DEF TypeOK, NoProjectForClone
    <2>2. ContentsOK'
      BY <1>14, <2>1, EndCloneType DEF TypeOK, NoProjectForClone
    <2> QED BY <1>14, <2>1, <2>2 DEF TypeOK, ContentsOK, NoProjectForClone
  <1>15. ASSUME NEW c \in Calls, Return(c) PROVE TypeOK'
    <2>1. ASSUME NEW s \in Snapshots PROVE refCount'[s] \in Nat
      <3>1. refCount[s] \in Nat
        BY DEF TypeOK
      <3>2. snap[c] = s => refCount[s] > 0
        BY <1>15, HolderCounted DEF Return
      <3>3. pc[c] = "clone" /\ CloneRef(c) /\ clone[c] = s => refCount[s] > (IF snap[c] = s THEN 1 ELSE 0)
        BY HolderCounted
      <3>4. pc[c] # "clone" => clone[c] # s
        BY <1>15, SnapshotsAssumption DEF CallsWellFormed, Return
      <3> QED BY <1>15, <3>1, <3>2, <3>3, <3>4 DEF Return
    <2> QED BY <1>15, <2>1 DEF TypeOK, Return
  <1>16. ASSUME NEW s \in Snapshots, Dispose(s) PROVE TypeOK'
    <2>1. refs[program[s]] - 1 \in Nat
      <3>1. s \in Having(program[s]) /\ program[s] \in Programs
        BY <1>16 DEF TypeOK, Dispose, Having
      <3>2. /\ IsFiniteSet(Having(program[s])) /\ Cardinality(Having(program[s])) \in Nat
            /\ Cardinality(Having(program[s])) # 0
        BY <3>1, HavingFinite, FS_EmptySet
      <3> QED BY <3>1, <3>2 DEF ProgramsCounted
    <2>2. FirstProgram \in Programs
      BY SnapshotsAssumption
    <2>3. refs' \in [Programs -> Nat] /\ program' \in [Snapshots -> Programs] /\ live' \subseteq Programs
      BY <1>16, <2>1, <2>2 DEF TypeOK, Dispose, NoPrefs
    <2> QED BY <1>16, <2>3 DEF TypeOK, Dispose, NoPrefs
  <1>17. ASSUME NEW s \in Snapshots, WarmTooLate(s) PROVE TypeOK'
    BY <1>17 DEF TypeOK, WarmTooLate
  <1>18. ASSUME NEW s \in Snapshots, WarmBegin(s) PROVE TypeOK'
    <2>1. PICK t \in Snapshots : BeginClone(t, s, NoChanges) /\ child' = [child EXCEPT ![s] = t]
      BY <1>18 DEF WarmBegin
    <2>2. ContentsOK'
      BY <1>18, <2>1, BeginCloneType, NoChangesType DEF TypeOK, WarmBegin
    <2>3. refCount' \in [Snapshots -> Nat] /\ child' \in [Snapshots -> Snapshots \union {Nil}]
      BY <1>18, <2>1 DEF TypeOK, WarmBegin
    <2> QED BY <1>18, <2>2, <2>3 DEF TypeOK, ContentsOK, WarmBegin
  <1>19. ASSUME NEW s \in Snapshots, WarmEnd(s) PROVE TypeOK'
    <2>1. child[s] \in Snapshots
      BY <1>19, Pointers DEF TypeOK, WarmEnd
    <2>2. ContentsOK'
      BY <1>19, <2>1, EndCloneType DEF TypeOK, WarmEnd
    <2> QED BY <1>19, <2>1, <2>2 DEF TypeOK, ContentsOK, WarmEnd
  <1>20. ASSUME NEW s \in Snapshots, WarmCanceled(s) PROVE TypeOK'
    <2>1. child[s] \in Snapshots /\ refCount[child[s]] - 1 \in Nat
      BY <1>20, Pointers, HolderCounted DEF TypeOK, WarmCanceled
    <2> QED BY <1>20, <2>1 DEF TypeOK, WarmCanceled
  <1>21. ASSUME NEW s \in Snapshots, WarmAdopt(s) PROVE TypeOK'
    <2>1. child[s] \in Snapshots /\ refCount[child[s]] - 1 \in Nat /\ refCount[current] - 1 \in Nat
      BY <1>21, Pointers, HolderCounted DEF TypeOK, WarmAdopt, AdoptOrRelease
    <2>2. refCount' \in [Snapshots -> Nat] /\ current' \in Snapshots
      BY <1>21, <2>1 DEF TypeOK, WarmAdopt, AdoptOrRelease
    <2> QED BY <1>21, <2>2 DEF TypeOK, WarmAdopt, AdoptOrRelease
  <1>22. ASSUME NEW s \in Snapshots, WarmLeave(s) PROVE TypeOK'
    <2>1. refCount[s] - 1 \in Nat
      BY <1>22, HolderCounted DEF TypeOK, WarmLeave
    <2> QED BY <1>22, <2>1 DEF TypeOK, WarmLeave
  <1>23. ASSUME NEW a \in adopts, Adopt(a) PROVE TypeOK'
    <2>1. a[2] \in Snapshots /\ refCount[a[2]] - 1 \in Nat /\ refCount[current] - 1 \in Nat
      BY <1>23, Pointers, HolderCounted DEF TypeOK, Adopt, AdoptOrRelease
    <2> QED BY <1>23, <2>1 DEF TypeOK, Adopt, AdoptOrRelease
  <1> QED BY <1>0, <1>1, <1>2, <1>3, <1>4, <1>5, <1>6, <1>7, <1>8, <1>9, <1>10, <1>11, <1>12,
             <1>13, <1>14, <1>15, <1>16, <1>17, <1>18, <1>19, <1>20, <1>21, <1>22, <1>23
          DEF Next, UpdateStep, RequestStep, WarmStep

------------------------------------------------------------------------------
(* Control points *)

\* A call that moves keeps its pointers and its mutexes in step with its control point.
LEMMA CallsStep ==
    ASSUME IInv, [Next]_vars
    PROVE  CallsWellFormed'
  <1> USE SnapshotsAssumption DEF IInv, Updating, Locking, SnapStates, muVars, callVars
  <1>1. CASE UNCHANGED <<muVars, callVars>>
    BY <1>1 DEF CallsWellFormed
  <1>2. ASSUME NEW c \in Calls, Flush(c) PROVE CallsWellFormed'
    BY <1>2 DEF TypeOK, CallsWellFormed, Flush
  <1>3. ASSUME NEW c \in Calls, DidOpenFile(c) PROVE CallsWellFormed'
    BY <1>3 DEF TypeOK, CallsWellFormed, DidOpenFile
  <1>4. ASSUME NEW c \in Calls, RefCurrent(c) PROVE CallsWellFormed'
    BY <1>4 DEF TypeOK, CallsWellFormed, RefCurrent
  <1>5. ASSUME NEW c \in Calls, SkipUpdate(c) PROVE CallsWellFormed'
    BY <1>5 DEF TypeOK, CallsWellFormed, SkipUpdate
  <1>6. ASSUME NEW c \in Calls, TakeCurrent(c) PROVE CallsWellFormed'
    BY <1>6 DEF TypeOK, CallsWellFormed, TakeCurrent
  <1>7. ASSUME NEW c \in Calls, BeginUpdate(c) PROVE CallsWellFormed'
    <2>1. PICK s \in Snapshots : snap' = [snap EXCEPT ![c] = s]
      BY <1>7 DEF BeginUpdate
    <2> QED BY <1>7, <2>1 DEF TypeOK, CallsWellFormed, BeginUpdate
  <1>8. ASSUME NEW c \in Calls, EndUpdate(c) PROVE CallsWellFormed'
    BY <1>8 DEF TypeOK, CallsWellFormed, EndUpdate, CallerRef
  <1>9. ASSUME NEW c \in Calls, RejectUpdate(c) PROVE CallsWellFormed'
    BY <1>9 DEF TypeOK, CallsWellFormed, RejectUpdate
  <1>10. ASSUME NEW c \in Calls, ReleaseRejected(c) PROVE CallsWellFormed'
    BY <1>10 DEF TypeOK, CallsWellFormed, ReleaseRejected
  <1>11. ASSUME NEW c \in Calls, BeginAutoImports(c) PROVE CallsWellFormed'
    <2>1. PICK s \in Snapshots : clone' = [clone EXCEPT ![c] = s]
      BY <1>11 DEF BeginAutoImports
    <2> QED BY <1>11, <2>1 DEF TypeOK, CallsWellFormed, BeginAutoImports
  <1>12. ASSUME NEW c \in Calls, EndAutoImports(c) PROVE CallsWellFormed'
    BY <1>12 DEF TypeOK, CallsWellFormed, EndAutoImports
  <1>13. ASSUME NEW c \in Calls, NoProjectForClone(c) PROVE CallsWellFormed'
    BY <1>13 DEF TypeOK, CallsWellFormed, NoProjectForClone
  <1>14. ASSUME NEW c \in Calls, Return(c) PROVE CallsWellFormed'
    BY <1>14 DEF TypeOK, CallsWellFormed, Return
  <1>15. ASSUME NEW s \in Snapshots, Dispose(s) \/ WarmStep(s) PROVE UNCHANGED <<muVars, callVars>>
    BY <1>15 DEF Dispose, WarmStep, WarmTooLate, WarmBegin, WarmEnd, WarmCanceled, WarmAdopt,
       WarmLeave,
                AdoptOrRelease
  <1>16. ASSUME NEW a \in adopts, Adopt(a) PROVE UNCHANGED <<muVars, callVars>>
    BY <1>16 DEF Adopt, AdoptOrRelease
  <1>17. DidChangeFile \/ Configure \/ UNCHANGED vars => UNCHANGED <<muVars, callVars>>
    BY DEF DidChangeFile, Configure, vars
  <1> QED BY <1>1, <1>2, <1>3, <1>4, <1>5, <1>6, <1>7, <1>8, <1>9, <1>10, <1>11, <1>12, <1>13,
             <1>14, <1>15, <1>16, <1>17 DEF Next, UpdateStep, RequestStep

\* A warming task keeps its child in step with its state, and clones are new.
LEMMA TasksStep ==
    ASSUME IInv, [Next]_vars
    PROVE  TasksWellFormed'
  <1> USE SnapshotsAssumption DEF IInv, taskVars
  <1>1. CASE UNCHANGED taskVars
    BY <1>1 DEF TasksWellFormed
  <1>2. ASSUME NEW s \in Snapshots, WarmTooLate(s) PROVE TasksWellFormed'
    BY <1>2 DEF TypeOK, TasksWellFormed, WarmTooLate
  <1>3. ASSUME NEW s \in Snapshots, WarmBegin(s) PROVE TasksWellFormed'
    <2>1. PICK t \in Snapshots : Unused(t) /\ child' = [child EXCEPT ![s] = t]
      BY <1>3 DEF WarmBegin, BeginClone
    <2>2. t # s
      BY <1>3, <2>1 DEF WarmBegin, Unused
    <2> QED BY <1>3, <2>1, <2>2 DEF TypeOK, TasksWellFormed, WarmBegin
  <1>4. ASSUME NEW s \in Snapshots, WarmEnd(s) PROVE TasksWellFormed'
    BY <1>4 DEF TypeOK, TasksWellFormed, WarmEnd
  <1>5. ASSUME NEW s \in Snapshots, WarmCanceled(s) PROVE TasksWellFormed'
    BY <1>5 DEF TypeOK, TasksWellFormed, WarmCanceled
  <1>6. ASSUME NEW s \in Snapshots, WarmAdopt(s) PROVE TasksWellFormed'
    BY <1>6 DEF TypeOK, TasksWellFormed, WarmAdopt
  <1>7. ASSUME NEW s \in Snapshots, WarmLeave(s) PROVE TasksWellFormed'
    BY <1>7 DEF TypeOK, TasksWellFormed, WarmLeave
  <1>8. ASSUME NEW a \in adopts, Adopt(a) PROVE TasksWellFormed'
    BY <1>8 DEF TasksWellFormed, Adopt
  <1>9. ASSUME NEW c \in Calls, EndUpdate(c) PROVE TasksWellFormed'
    <2>1. snap[c] \in Snapshots /\ warm[snap[c]] = "none"
      BY <1>9, Pointers DEF EndUpdate, Built, NotWarmed, Updating
    <2> QED BY <1>9, <2>1 DEF TypeOK, TasksWellFormed, EndUpdate
  <1>10. ASSUME NEW c \in Calls, EndAutoImports(c) PROVE TasksWellFormed'
    <2>1. snap[c] # clone[c]
      BY <1>10 DEF EndAutoImports, Built, HeldMade, SnapStates
    <2> QED BY <1>10, <2>1 DEF TasksWellFormed, EndAutoImports
  <1>11. ASSUME NEW c \in Calls,
                 \/ Flush(c) \/ DidOpenFile(c) \/ RefCurrent(c) \/ SkipUpdate(c) \/ TakeCurrent(c)
                 \/ BeginUpdate(c) \/ RejectUpdate(c) \/ ReleaseRejected(c) \/ BeginAutoImports(c)
                 \/ NoProjectForClone(c) \/ Return(c)
         PROVE UNCHANGED taskVars
    BY <1>11 DEF Flush, DidOpenFile, RefCurrent, SkipUpdate, TakeCurrent, BeginUpdate, RejectUpdate,
                ReleaseRejected, BeginAutoImports, NoProjectForClone, Return
  <1>12. DidChangeFile \/ Configure \/ UNCHANGED vars \/ (\E s \in Snapshots : Dispose(s)) =>
           UNCHANGED taskVars
    BY DEF DidChangeFile, Configure, Dispose, vars
  <1> QED BY <1>1, <1>2, <1>3, <1>4, <1>5, <1>6, <1>7, <1>8, <1>9, <1>10, <1>11, <1>12
          DEF Next, UpdateStep, RequestStep, WarmStep

------------------------------------------------------------------------------
(* Reference counts *)

\* A snapshot that is being built or disposed of has no holders.
LEMMA NotMade ==
    ASSUME TypeOK, Counted, HeldMade, NEW s \in Snapshots, phase[s] # "made"
    PROVE  Holders(s) = 0 /\ refCount[s] = 0
  <1>1. SnapHolders(s) = {} /\ CloneHolders(s) = {} /\ AdoptHolders(s) = {} /\ ChildHolders(s) = {}
    BY DEF SnapHolders, CloneHolders, AdoptHolders, ChildHolders, HeldMade
  <1>2. warm[s] \notin {"cloning", "cloned", "leaving"} /\ s # current
    BY DEF HeldMade, Warming
  <1> QED BY <1>1, <1>2, FS_EmptySet DEF Holders, Counted

\* Every step that adds or removes a holder adjusts the count of what it holds.
LEMMA CountedStep ==
    ASSUME IInv, [Next]_vars
    PROVE  Counted'
  <1> USE DEF IInv, Updating, Warming, SnapStates, sessVars, muVars, snapVars, callVars, taskVars
  <1> SUFFICES ASSUME NEW s \in Snapshots PROVE refCount'[s] = Holders(s)'
    BY DEF Counted
  <1>1. refCount[s] = Holders(s) /\ refCount[s] \in Nat /\ refCount'[s] \in Nat
    BY TypeStep DEF Counted, TypeOK
  <1>2. CASE UNCHANGED <<refCount, current, callVars, taskVars>>
    BY <1>1, <1>2 DEF Holders, SnapHolders, CloneHolders, AdoptHolders, ChildHolders
  <1>3. ASSUME NEW c \in Calls, Flush(c) PROVE refCount'[s] = Holders(s)'
    <2>1. Only(c, Nil, Nil)
      BY <1>3 DEF TypeOK, Flush, CloneRef, Only
    <2>2. refCount'[s] - refCount[s] = Weight(s, c, Nil, Nil)' - Weight(s, c, Nil, Nil)
      BY <1>1, <1>3, SnapshotsAssumption, Pointers
      DEF TypeOK, CallsWellFormed, Flush, CloneRef, Weight, SnapHolders, CloneHolders,
          AdoptHolders, ChildHolders
    <2> QED BY <1>1, <2>1, <2>2, HoldersStep
  <1>4. ASSUME NEW c \in Calls, DidOpenFile(c) PROVE refCount'[s] = Holders(s)'
    <2>1. Only(c, Nil, Nil)
      BY <1>4 DEF TypeOK, DidOpenFile, CloneRef, Only
    <2>2. refCount'[s] - refCount[s] = Weight(s, c, Nil, Nil)' - Weight(s, c, Nil, Nil)
      BY <1>1, <1>4, SnapshotsAssumption, Pointers
      DEF TypeOK, CallsWellFormed, DidOpenFile, CloneRef, Weight, SnapHolders, CloneHolders,
          AdoptHolders, ChildHolders
    <2> QED BY <1>1, <2>1, <2>2, HoldersStep
  <1>5. ASSUME NEW c \in Calls, RefCurrent(c) PROVE refCount'[s] = Holders(s)'
    <2>1. Only(c, Nil, Nil)
      BY <1>5 DEF TypeOK, RefCurrent, CloneRef, Only
    <2>2. refCount'[s] - refCount[s] = Weight(s, c, Nil, Nil)' - Weight(s, c, Nil, Nil)
      BY <1>1, <1>5, SnapshotsAssumption, Pointers
      DEF TypeOK, CallsWellFormed, RefCurrent, CloneRef, Weight, SnapHolders, CloneHolders,
          AdoptHolders, ChildHolders
    <2> QED BY <1>1, <2>1, <2>2, HoldersStep
  <1>6. ASSUME NEW c \in Calls, SkipUpdate(c) PROVE refCount'[s] = Holders(s)'
    <2>1. Only(c, Nil, Nil)
      BY <1>6 DEF TypeOK, SkipUpdate, CloneRef, Only
    <2>2. refCount'[s] - refCount[s] = Weight(s, c, Nil, Nil)' - Weight(s, c, Nil, Nil)
      BY <1>1, <1>6, SnapshotsAssumption, Pointers
      DEF TypeOK, CallsWellFormed, SkipUpdate, CloneRef, Weight, SnapHolders, CloneHolders,
          AdoptHolders, ChildHolders
    <2> QED BY <1>1, <2>1, <2>2, HoldersStep
  <1>7. ASSUME NEW c \in Calls, TakeCurrent(c) PROVE refCount'[s] = Holders(s)'
    <2>1. Only(c, Nil, Nil)
      BY <1>7 DEF TypeOK, TakeCurrent, CloneRef, Only
    <2>2. refCount'[s] - refCount[s] = Weight(s, c, Nil, Nil)' - Weight(s, c, Nil, Nil)
      BY <1>1, <1>7, SnapshotsAssumption, Pointers
      DEF TypeOK, CallsWellFormed, TakeCurrent, CloneRef, Weight, SnapHolders, CloneHolders,
          AdoptHolders, ChildHolders
    <2> QED BY <1>1, <2>1, <2>2, HoldersStep
  <1>8. ASSUME NEW c \in Calls, BeginUpdate(c) PROVE refCount'[s] = Holders(s)'
    <2>1. Only(c, Nil, Nil)
      BY <1>8 DEF TypeOK, BeginUpdate, CloneRef, Only
    <2>2. refCount'[s] - refCount[s] = Weight(s, c, Nil, Nil)' - Weight(s, c, Nil, Nil)
      BY <1>1, <1>8, SnapshotsAssumption, Pointers
      DEF TypeOK, CallsWellFormed, BeginUpdate, CloneRef, Weight, SnapHolders, CloneHolders,
          AdoptHolders, ChildHolders
    <2> QED BY <1>1, <2>1, <2>2, HoldersStep
  <1>9. ASSUME NEW c \in Calls, EndUpdate(c) PROVE refCount'[s] = Holders(s)'
    <2>1. PICK u \in Snapshots : u = snap[c]
      BY <1>9, Pointers DEF EndUpdate
    <2>2. Only(c, Nil, u)
      BY <1>9, <2>1 DEF TypeOK, EndUpdate, Only
    <2>3. u # current /\ refCount[u] = 0 /\ warm[u] = "none"
      BY <1>9, <2>1, NotMade DEF EndUpdate, Built, NotWarmed, HeldMade
    <2>4. c \notin SnapHolders(s) /\ (c \in SnapHolders(s)' <=> CallerRef(c) /\ s = u)
      BY <1>9, <2>1, SnapshotsAssumption DEF TypeOK, SnapHolders, EndUpdate
    <2>5. c \notin CloneHolders(s) /\ c \notin CloneHolders(s)'
      BY <1>9 DEF TypeOK, CloneHolders, EndUpdate
    <2>6. AdoptHolders(s)' = AdoptHolders(s)
      BY <1>9 DEF AdoptHolders, EndUpdate
    <2>7. u \notin ChildHolders(s) /\ u \notin ChildHolders(s)'
      BY <1>9, <2>1, <2>3 DEF TypeOK, ChildHolders, EndUpdate
    <2>8. warm'[s] \in Warming <=> warm[s] \in Warming
      BY <1>9, <2>1, <2>3 DEF TypeOK, EndUpdate
    <2>9. refCount'[s] = IF s = u THEN (IF CallerRef(c) THEN 2 ELSE 1)
                         ELSE IF s = current THEN refCount[s] - 1 ELSE refCount[s]
      BY <1>9, <2>1, <2>3 DEF TypeOK, EndUpdate
    <2>10. current' = u
      BY <1>9, <2>1 DEF EndUpdate
    <2>11. refCount'[s] - refCount[s] = Weight(s, c, Nil, u)' - Weight(s, c, Nil, u)
      BY <1>1, <2>3, <2>4, <2>5, <2>6, <2>7, <2>8, <2>9, <2>10 DEF Weight
    <2> QED BY <1>1, <2>2, <2>11, HoldersStep
  <1>10. ASSUME NEW c \in Calls, RejectUpdate(c) PROVE refCount'[s] = Holders(s)'
    <2>1. Only(c, Nil, Nil)
      BY <1>10 DEF TypeOK, RejectUpdate, CloneRef, Only
    <2>2. snap[c] \in Snapshots /\ snap[c] # current /\ refCount[snap[c]] = 0
      BY <1>10, Pointers, NotMade DEF RejectUpdate, Built, HeldMade
    <2>3. refCount'[s] - refCount[s] = Weight(s, c, Nil, Nil)' - Weight(s, c, Nil, Nil)
      BY <1>1, <1>10, SnapshotsAssumption, Pointers, <2>2
      DEF TypeOK, CallsWellFormed, RejectUpdate, CloneRef, Weight, SnapHolders, CloneHolders,
          AdoptHolders, ChildHolders
    <2> QED BY <1>1, <2>1, <2>3, HoldersStep
  <1>11. ASSUME NEW c \in Calls, ReleaseRejected(c) PROVE refCount'[s] = Holders(s)'
    <2>1. Only(c, Nil, Nil)
      BY <1>11 DEF TypeOK, ReleaseRejected, CloneRef, Only
    <2>2. refCount'[s] - refCount[s] = Weight(s, c, Nil, Nil)' - Weight(s, c, Nil, Nil)
      BY <1>1, <1>11, SnapshotsAssumption, Pointers
      DEF TypeOK, CallsWellFormed, ReleaseRejected, CloneRef, Weight, SnapHolders, CloneHolders,
          AdoptHolders, ChildHolders
    <2> QED BY <1>1, <2>1, <2>2, HoldersStep
  <1>12. ASSUME NEW c \in Calls, BeginAutoImports(c) PROVE refCount'[s] = Holders(s)'
    <2>1. Only(c, Nil, Nil)
      BY <1>12 DEF TypeOK, BeginAutoImports, CloneRef, Only
    <2>2. refCount'[s] - refCount[s] = Weight(s, c, Nil, Nil)' - Weight(s, c, Nil, Nil)
      BY <1>1, <1>12, SnapshotsAssumption, Pointers
      DEF TypeOK, CallsWellFormed, BeginAutoImports, CloneRef, Weight, SnapHolders, CloneHolders,
          AdoptHolders, ChildHolders
    <2> QED BY <1>1, <2>1, <2>2, HoldersStep
  <1>13. ASSUME NEW c \in Calls, EndAutoImports(c) PROVE refCount'[s] = Holders(s)'
    <2>1. PICK a : a = <<snap[c], clone[c]>>
      OBVIOUS
    <2>2. Only(c, a, Nil)
      BY <1>13, <2>1 DEF TypeOK, EndAutoImports, Only
    <2>3. clone[c] \in Snapshots /\ refCount[clone[c]] = 0 /\ phase[clone[c]] = "building"
      BY <1>13, Pointers, NotMade DEF EndAutoImports, Built
    <2>4. c \in SnapHolders(s)' <=> c \in SnapHolders(s)
      BY <1>13 DEF TypeOK, SnapHolders, EndAutoImports
    <2>5. c \notin CloneHolders(s) /\ (c \in CloneHolders(s)' <=> CloneRef(c) /\ s = clone[c])
      BY <1>13 DEF TypeOK, CloneHolders, CloneRef, EndAutoImports
    <2>6. a \notin AdoptHolders(s) /\ (a \in AdoptHolders(s)' <=> s = clone[c])
      BY <1>13, <2>1, <2>3 DEF AdoptHolders, EndAutoImports, HeldMade
    <2>7. UNCHANGED <<current, warm, child>>
      BY <1>13 DEF EndAutoImports
    <2>8. refCount'[s] = IF s = clone[c] THEN (IF CloneRef(c) THEN 2 ELSE 1) ELSE refCount[s]
      BY <1>13 DEF TypeOK, EndAutoImports
    <2>9. ChildHolders(s)' = ChildHolders(s)
      BY <2>7 DEF ChildHolders
    <2>10. refCount'[s] - refCount[s] = Weight(s, c, a, Nil)' - Weight(s, c, a, Nil)
      BY <1>1, <2>3, <2>4, <2>5, <2>6, <2>7, <2>8, <2>9 DEF Weight
    <2> QED BY <1>1, <2>2, <2>10, HoldersStep
  <1>14. ASSUME NEW c \in Calls, NoProjectForClone(c) PROVE refCount'[s] = Holders(s)'
    <2>1. Only(c, Nil, Nil)
      BY <1>14 DEF TypeOK, NoProjectForClone, CloneRef, Only
    <2>2. refCount'[s] - refCount[s] = Weight(s, c, Nil, Nil)' - Weight(s, c, Nil, Nil)
      BY <1>1, <1>14, SnapshotsAssumption, Pointers
      DEF TypeOK, CallsWellFormed, NoProjectForClone, CloneRef, Weight, SnapHolders, CloneHolders,
          AdoptHolders, ChildHolders
    <2> QED BY <1>1, <2>1, <2>2, HoldersStep
  <1>15. ASSUME NEW c \in Calls, Return(c) PROVE refCount'[s] = Holders(s)'
    <2>1. Only(c, Nil, Nil)
      BY <1>15 DEF TypeOK, Return, Only
    <2>2. c \notin SnapHolders(s)' /\ (c \in SnapHolders(s) <=> s = snap[c])
      BY <1>15 DEF TypeOK, SnapHolders, Return
    <2>3. clone[c] = s => pc[c] = "clone"
      BY <1>15, SnapshotsAssumption DEF CallsWellFormed, Return
    <2>4. c \notin CloneHolders(s)' /\ (c \in CloneHolders(s) <=> s = clone[c] /\ CloneRef(c))
      BY <1>15, <2>3 DEF TypeOK, CloneHolders, Return
    <2>5. UNCHANGED <<current, adopts, warm, child>>
      BY <1>15 DEF Return
    <2>6. AdoptHolders(s)' = AdoptHolders(s) /\ ChildHolders(s)' = ChildHolders(s)
      BY <2>5 DEF AdoptHolders, ChildHolders
    <2>7. refCount'[s] = refCount[s] - (IF s = snap[c] THEN 1 ELSE 0)
                                     - (IF s = clone[c] /\ CloneRef(c) THEN 1 ELSE 0)
      BY <1>15 DEF Return
    <2>8. refCount'[s] - refCount[s] = Weight(s, c, Nil, Nil)' - Weight(s, c, Nil, Nil)
      BY <1>1, <2>2, <2>4, <2>5, <2>6, <2>7 DEF Weight
    <2> QED BY <1>1, <2>1, <2>8, HoldersStep
  <1>16. ASSUME NEW t \in Snapshots, WarmTooLate(t) PROVE refCount'[s] = Holders(s)'
    <2>1. Only(Nil, Nil, t)
      BY <1>16 DEF TypeOK, WarmTooLate, Only
    <2>2. refCount'[s] - refCount[s] = Weight(s, Nil, Nil, t)' - Weight(s, Nil, Nil, t)
      BY <1>1, <1>16, SnapshotsAssumption, Pointers
      DEF TypeOK, TasksWellFormed, WarmTooLate, Weight, SnapHolders, CloneHolders, AdoptHolders,
          ChildHolders
    <2> QED BY <1>1, <2>1, <2>2, HoldersStep
  <1>17. ASSUME NEW t \in Snapshots, WarmBegin(t) PROVE refCount'[s] = Holders(s)'
    <2>1. Only(Nil, Nil, t)
      BY <1>17 DEF TypeOK, WarmBegin, Only
    <2>2. refCount'[s] - refCount[s] = Weight(s, Nil, Nil, t)' - Weight(s, Nil, Nil, t)
      BY <1>1, <1>17, SnapshotsAssumption, Pointers
      DEF TypeOK, TasksWellFormed, WarmBegin, Weight, SnapHolders, CloneHolders, AdoptHolders,
          ChildHolders
    <2> QED BY <1>1, <2>1, <2>2, HoldersStep
  <1>18. ASSUME NEW t \in Snapshots, WarmEnd(t) PROVE refCount'[s] = Holders(s)'
    <2>1. Only(Nil, Nil, t)
      BY <1>18 DEF TypeOK, WarmEnd, Only
    <2>3. child[t] \in Snapshots /\ child[t] # current /\ refCount[child[t]] = 0
      BY <1>18, Pointers, NotMade DEF WarmEnd, Built, HeldMade
    <2>2. refCount'[s] - refCount[s] = Weight(s, Nil, Nil, t)' - Weight(s, Nil, Nil, t)
      BY <1>1, <1>18, SnapshotsAssumption, Pointers, <2>3
      DEF TypeOK, TasksWellFormed, WarmEnd, Weight, SnapHolders, CloneHolders, AdoptHolders,
          ChildHolders
    <2> QED BY <1>1, <2>1, <2>2, HoldersStep
  <1>19. ASSUME NEW t \in Snapshots, WarmCanceled(t) PROVE refCount'[s] = Holders(s)'
    <2>1. Only(Nil, Nil, t)
      BY <1>19 DEF TypeOK, WarmCanceled, Only
    <2>3. refCount'[s] - refCount[s] = Weight(s, Nil, Nil, t)' - Weight(s, Nil, Nil, t)
      BY <1>1, <1>19, SnapshotsAssumption, Pointers
      DEF TypeOK, TasksWellFormed, WarmCanceled, Weight, SnapHolders, CloneHolders, AdoptHolders,
          ChildHolders
    <2> QED BY <1>1, <2>1, <2>3, HoldersStep
  <1>20. ASSUME NEW t \in Snapshots, WarmAdopt(t) PROVE refCount'[s] = Holders(s)'
    <2>1. Only(Nil, Nil, t)
      BY <1>20 DEF TypeOK, WarmAdopt, AdoptOrRelease, Only
    <2>2. refCount'[s] - refCount[s] = Weight(s, Nil, Nil, t)' - Weight(s, Nil, Nil, t)
      BY <1>1, <1>20, SnapshotsAssumption, Pointers
      DEF TypeOK, TasksWellFormed, WarmAdopt, AdoptOrRelease, Weight, SnapHolders, CloneHolders,
          AdoptHolders, ChildHolders
    <2> QED BY <1>1, <2>1, <2>2, HoldersStep
  <1>21. ASSUME NEW t \in Snapshots, WarmLeave(t) PROVE refCount'[s] = Holders(s)'
    <2>1. Only(Nil, Nil, t)
      BY <1>21 DEF TypeOK, WarmLeave, Only
    <2>2. refCount'[s] - refCount[s] = Weight(s, Nil, Nil, t)' - Weight(s, Nil, Nil, t)
      BY <1>1, <1>21, SnapshotsAssumption, Pointers
      DEF TypeOK, TasksWellFormed, WarmLeave, Weight, SnapHolders, CloneHolders, AdoptHolders,
          ChildHolders
    <2> QED BY <1>1, <2>1, <2>2, HoldersStep
  <1>22. ASSUME NEW a \in adopts, Adopt(a) PROVE refCount'[s] = Holders(s)'
    <2>1. Only(Nil, a, Nil)
      BY <1>22 DEF TypeOK, Adopt, AdoptOrRelease, Only
    <2>2. refCount'[s] - refCount[s] = Weight(s, Nil, a, Nil)' - Weight(s, Nil, a, Nil)
      BY <1>1, <1>22, SnapshotsAssumption, Pointers
      DEF TypeOK, TasksWellFormed, Adopt, AdoptOrRelease, Weight, SnapHolders, CloneHolders,
          AdoptHolders, ChildHolders
    <2> QED BY <1>1, <2>1, <2>2, HoldersStep
  <1>23. DidChangeFile \/ Configure \/ UNCHANGED vars \/ (\E t \in Snapshots : Dispose(t)) =>
           UNCHANGED <<refCount, current, callVars, taskVars>>
    BY DEF DidChangeFile, Configure, Dispose, vars
  <1> QED BY <1>2, <1>3, <1>4, <1>5, <1>6, <1>7, <1>8, <1>9, <1>10, <1>11, <1>12, <1>13, <1>14,
             <1>15, <1>16, <1>17, <1>18, <1>19, <1>20, <1>21, <1>22, <1>23
          DEF Next, UpdateStep, RequestStep, WarmStep

------------------------------------------------------------------------------
(* Phases *)

\* What beginning a clone s of p does to the phases and parents: s was used by nobody.
LEMMA BeginClonePhase ==
    ASSUME TypeOK, NEW s \in Snapshots, NEW p \in Snapshots, NEW d, BeginClone(s, p, d)
    PROVE  /\ Unused(s) /\ phase[s] = "none"
           /\ phase'[s] = "building" /\ parent'[s] = p
           /\ \A u \in Snapshots : u # s => phase'[u] = phase[u] /\ parent'[u] = parent[u]
  BY DEF TypeOK, BeginClone, Unused

\* What ending a clone does to the phases and parents.
LEMMA EndClonePhase ==
    ASSUME TypeOK, NEW s \in Snapshots, EndClone(s)
    PROVE  /\ phase'[s] = "made" /\ parent'[s] = Nil
           /\ \A u \in Snapshots : u # s => phase'[u] = phase[u] /\ parent'[u] = parent[u]
  BY DEF TypeOK, EndClone

\* What is held stays made: only snapshots without references are disposed of.
LEMMA HeldStep ==
    ASSUME IInv, [Next]_vars
    PROVE  HeldMade'
  <1> USE SnapshotsAssumption, Pointers
      DEF IInv, CloneRef, Updating, Warming, SnapStates, sessVars, muVars, snapVars, callVars,
          taskVars
  <1>0. CASE DidChangeFile \/ Configure \/ UNCHANGED vars
    BY <1>0 DEF HeldMade, DidChangeFile, Configure, vars
  <1>1. ASSUME NEW c \in Calls, Flush(c) PROVE HeldMade'
    BY <1>1 DEF TypeOK, CallsWellFormed, TasksWellFormed, HeldMade, Built, Flush
  <1>2. ASSUME NEW c \in Calls, DidOpenFile(c) PROVE HeldMade'
    BY <1>2 DEF TypeOK, CallsWellFormed, TasksWellFormed, HeldMade, Built, DidOpenFile
  <1>3. ASSUME NEW c \in Calls, RefCurrent(c) PROVE HeldMade'
    BY <1>3 DEF TypeOK, CallsWellFormed, TasksWellFormed, HeldMade, Built, RefCurrent
  <1>4. ASSUME NEW c \in Calls, SkipUpdate(c) PROVE HeldMade'
    BY <1>4 DEF TypeOK, CallsWellFormed, TasksWellFormed, HeldMade, Built, SkipUpdate
  <1>5. ASSUME NEW c \in Calls, TakeCurrent(c) PROVE HeldMade'
    BY <1>5 DEF TypeOK, CallsWellFormed, TasksWellFormed, HeldMade, Built, TakeCurrent
  <1>6. ASSUME NEW c \in Calls, BeginUpdate(c) PROVE HeldMade'
    <2>1. PICK s \in Snapshots : BeginClone(s, current, Changes(c)) /\ snap' = [snap EXCEPT ![c] = s]
      BY <1>6 DEF BeginUpdate
    <2>2. current \in Snapshots
      BY <1>6 DEF TypeOK, BeginUpdate
    <2>3. /\ Unused(s) /\ phase[s] = "none"
          /\ phase'[s] = "building" /\ parent'[s] = current
          /\ \A u \in Snapshots : u # s => phase'[u] = phase[u] /\ parent'[u] = parent[u]
      BY <2>1, <2>2, BeginClonePhase
    <2> QED BY <1>6, <2>1, <2>2, <2>3
            DEF TypeOK, Unused, CallsWellFormed, TasksWellFormed, HeldMade, Built, BeginUpdate
  <1>7. ASSUME NEW c \in Calls, EndUpdate(c) PROVE HeldMade'
    <2>1. snap[c] \in Snapshots
      BY <1>7 DEF EndUpdate
    <2>2. /\ phase'[snap[c]] = "made"
          /\ \A u \in Snapshots : u # snap[c] => phase'[u] = phase[u] /\ parent'[u] = parent[u]
      BY <1>7, <2>1, EndClonePhase DEF EndUpdate
    <2> QED BY <1>7, <2>1, <2>2
            DEF TypeOK, CallsWellFormed, TasksWellFormed, HeldMade, Built, EndUpdate, CallerRef
  <1>8. ASSUME NEW c \in Calls, RejectUpdate(c) PROVE HeldMade'
    <2>1. snap[c] \in Snapshots
      BY <1>8 DEF RejectUpdate
    <2>2. /\ phase'[snap[c]] = "made"
          /\ \A u \in Snapshots : u # snap[c] => phase'[u] = phase[u] /\ parent'[u] = parent[u]
      BY <1>8, <2>1, EndClonePhase DEF RejectUpdate
    <2> QED BY <1>8, <2>1, <2>2
            DEF TypeOK, CallsWellFormed, TasksWellFormed, HeldMade, Built, RejectUpdate
  <1>9. ASSUME NEW c \in Calls, ReleaseRejected(c) PROVE HeldMade'
    BY <1>9 DEF TypeOK, CallsWellFormed, TasksWellFormed, HeldMade, Built, ReleaseRejected
  <1>10. ASSUME NEW c \in Calls, BeginAutoImports(c) PROVE HeldMade'
    <2>1. PICK s \in Snapshots : BeginClone(s, snap[c], NoChanges) /\ clone' = [clone EXCEPT ![c] = s]
      BY <1>10 DEF BeginAutoImports
    <2>2. snap[c] \in Snapshots
      BY <1>10 DEF TypeOK, BeginAutoImports
    <2>3. /\ Unused(s) /\ phase[s] = "none"
          /\ phase'[s] = "building" /\ parent'[s] = snap[c]
          /\ \A u \in Snapshots : u # s => phase'[u] = phase[u] /\ parent'[u] = parent[u]
      BY <2>1, <2>2, BeginClonePhase
    <2> QED BY <1>10, <2>1, <2>2, <2>3
            DEF TypeOK, Unused, CallsWellFormed, TasksWellFormed, HeldMade, Built, BeginAutoImports
  <1>11. ASSUME NEW c \in Calls, EndAutoImports(c) PROVE HeldMade'
    <2>1. clone[c] \in Snapshots
      BY <1>11 DEF EndAutoImports
    <2>2. /\ phase'[clone[c]] = "made"
          /\ \A u \in Snapshots : u # clone[c] => phase'[u] = phase[u] /\ parent'[u] = parent[u]
      BY <1>11, <2>1, EndClonePhase DEF EndAutoImports
    <2> QED BY <1>11, <2>1, <2>2
            DEF TypeOK, CallsWellFormed, TasksWellFormed, HeldMade, Built, EndAutoImports
  <1>12. ASSUME NEW c \in Calls, NoProjectForClone(c) PROVE HeldMade'
    <2>1. clone[c] \in Snapshots
      BY <1>12 DEF NoProjectForClone
    <2>2. /\ phase'[clone[c]] = "made"
          /\ \A u \in Snapshots : u # clone[c] => phase'[u] = phase[u] /\ parent'[u] = parent[u]
      BY <1>12, <2>1, EndClonePhase DEF NoProjectForClone
    <2> QED BY <1>12, <2>1, <2>2
            DEF TypeOK, CallsWellFormed, TasksWellFormed, HeldMade, Built, NoProjectForClone
  <1>13. ASSUME NEW c \in Calls, Return(c) PROVE HeldMade'
    BY <1>13 DEF TypeOK, CallsWellFormed, TasksWellFormed, HeldMade, Built, Return
  <1>14. ASSUME NEW t \in Snapshots, Dispose(t) PROVE HeldMade'
    BY <1>14, HolderCounted DEF TypeOK, CallsWellFormed, TasksWellFormed, HeldMade, Built, Dispose
  <1>15. ASSUME NEW t \in Snapshots, WarmTooLate(t) PROVE HeldMade'
    BY <1>15 DEF TypeOK, CallsWellFormed, TasksWellFormed, HeldMade, Built, WarmTooLate
  <1>16. ASSUME NEW t \in Snapshots, WarmBegin(t) PROVE HeldMade'
    <2>1. PICK s \in Snapshots : BeginClone(s, t, NoChanges) /\ child' = [child EXCEPT ![t] = s]
      BY <1>16 DEF WarmBegin
    <2>2. /\ Unused(s) /\ phase[s] = "none"
          /\ phase'[s] = "building" /\ parent'[s] = t
          /\ \A u \in Snapshots : u # s => phase'[u] = phase[u] /\ parent'[u] = parent[u]
      BY <2>1, BeginClonePhase
    <2>3. phase[t] = "made"
      BY <1>16, NotMade DEF TypeOK, WarmBegin
    <2> QED BY <1>16, <2>1, <2>2, <2>3
            DEF TypeOK, Unused, CallsWellFormed, TasksWellFormed, HeldMade, WarmBegin
  <1>17. ASSUME NEW t \in Snapshots, WarmEnd(t) PROVE HeldMade'
    <2>1. child[t] \in Snapshots
      BY <1>17 DEF WarmEnd
    <2>2. /\ phase'[child[t]] = "made"
          /\ \A u \in Snapshots : u # child[t] => phase'[u] = phase[u] /\ parent'[u] = parent[u]
      BY <1>17, <2>1, EndClonePhase DEF WarmEnd
    <2> QED BY <1>17, <2>1, <2>2
            DEF TypeOK, CallsWellFormed, TasksWellFormed, HeldMade, Built, WarmEnd
  <1>18. ASSUME NEW t \in Snapshots, WarmCanceled(t) PROVE HeldMade'
    BY <1>18 DEF TypeOK, CallsWellFormed, TasksWellFormed, HeldMade, Built, WarmCanceled
  <1>19. ASSUME NEW t \in Snapshots, WarmAdopt(t) PROVE HeldMade'
    BY <1>19 DEF TypeOK, CallsWellFormed, TasksWellFormed, HeldMade, Built, WarmAdopt,
       AdoptOrRelease
  <1>20. ASSUME NEW t \in Snapshots, WarmLeave(t) PROVE HeldMade'
    BY <1>20 DEF TypeOK, CallsWellFormed, TasksWellFormed, HeldMade, Built, WarmLeave
  <1>21. ASSUME NEW a \in adopts, Adopt(a) PROVE HeldMade'
    BY <1>21 DEF TypeOK, CallsWellFormed, TasksWellFormed, HeldMade, Built, Adopt, AdoptOrRelease
  <1> QED BY <1>0, <1>1, <1>2, <1>3, <1>4, <1>5, <1>6, <1>7, <1>8, <1>9, <1>10, <1>11, <1>12,
             <1>13, <1>14, <1>15, <1>16, <1>17, <1>18, <1>19, <1>20, <1>21
          DEF Next, UpdateStep, RequestStep, WarmStep

\* Every snapshot that is being built keeps its builder and its parent.
LEMMA BuiltStep ==
    ASSUME IInv, [Next]_vars
    PROVE  Built'
  <1> USE SnapshotsAssumption, Pointers
      DEF IInv, Locking, Updating, Warming, SnapStates, sessVars, muVars, snapVars, callVars,
          taskVars
  <1>0. CASE DidChangeFile \/ Configure \/ UNCHANGED vars
    BY <1>0 DEF Built, DidChangeFile, Configure, vars
  <1>1. ASSUME NEW c \in Calls, Flush(c) PROVE Built'
    BY <1>1 DEF TypeOK, CallsWellFormed, TasksWellFormed, HeldMade, Built, Distinct, Flush
  <1>2. ASSUME NEW c \in Calls, DidOpenFile(c) PROVE Built'
    BY <1>2 DEF TypeOK, CallsWellFormed, TasksWellFormed, HeldMade, Built, Distinct, DidOpenFile
  <1>3. ASSUME NEW c \in Calls, RefCurrent(c) PROVE Built'
    BY <1>3 DEF TypeOK, CallsWellFormed, TasksWellFormed, HeldMade, Built, Distinct, RefCurrent
  <1>4. ASSUME NEW c \in Calls, SkipUpdate(c) PROVE Built'
    BY <1>4 DEF TypeOK, CallsWellFormed, TasksWellFormed, HeldMade, Built, Distinct, SkipUpdate
  <1>5. ASSUME NEW c \in Calls, TakeCurrent(c) PROVE Built'
    BY <1>5 DEF TypeOK, CallsWellFormed, TasksWellFormed, HeldMade, Built, Distinct, TakeCurrent
  <1>6. ASSUME NEW c \in Calls, BeginUpdate(c) PROVE Built'
    <2>1. PICK s \in Snapshots : BeginClone(s, current, Changes(c)) /\ snap' = [snap EXCEPT ![c] = s]
      BY <1>6 DEF BeginUpdate
    <2>2. current \in Snapshots
      BY <1>6 DEF TypeOK, BeginUpdate
    <2>3. /\ Unused(s) /\ phase[s] = "none"
          /\ phase'[s] = "building" /\ parent'[s] = current
          /\ \A u \in Snapshots : u # s => phase'[u] = phase[u] /\ parent'[u] = parent[u]
      BY <2>1, <2>2, BeginClonePhase
    <2> QED BY <1>6, <2>1, <2>2, <2>3
            DEF TypeOK, Unused, CallsWellFormed, TasksWellFormed, HeldMade, Built, Distinct,
                BeginUpdate
  <1>7. ASSUME NEW c \in Calls, EndUpdate(c) PROVE Built'
    <2>1. snap[c] \in Snapshots
      BY <1>7 DEF EndUpdate
    <2>2. /\ phase'[snap[c]] = "made"
          /\ \A u \in Snapshots : u # snap[c] => phase'[u] = phase[u] /\ parent'[u] = parent[u]
      BY <1>7, <2>1, EndClonePhase DEF EndUpdate
    <2> QED BY <1>7, <2>1, <2>2
            DEF TypeOK, CallsWellFormed, TasksWellFormed, HeldMade, Built, Distinct, EndUpdate,
                CallerRef
  <1>8. ASSUME NEW c \in Calls, RejectUpdate(c) PROVE Built'
    <2>1. snap[c] \in Snapshots
      BY <1>8 DEF RejectUpdate
    <2>2. /\ phase'[snap[c]] = "made"
          /\ \A u \in Snapshots : u # snap[c] => phase'[u] = phase[u] /\ parent'[u] = parent[u]
      BY <1>8, <2>1, EndClonePhase DEF RejectUpdate
    <2> QED BY <1>8, <2>1, <2>2
            DEF TypeOK, CallsWellFormed, TasksWellFormed, HeldMade, Built, Distinct, RejectUpdate
  <1>9. ASSUME NEW c \in Calls, ReleaseRejected(c) PROVE Built'
    BY <1>9 DEF TypeOK, CallsWellFormed, TasksWellFormed, HeldMade, Built, Distinct, ReleaseRejected
  <1>10. ASSUME NEW c \in Calls, BeginAutoImports(c) PROVE Built'
    <2>1. PICK s \in Snapshots : BeginClone(s, snap[c], NoChanges) /\ clone' = [clone EXCEPT ![c] = s]
      BY <1>10 DEF BeginAutoImports
    <2>2. snap[c] \in Snapshots
      BY <1>10 DEF TypeOK, BeginAutoImports
    <2>3. /\ Unused(s) /\ phase[s] = "none"
          /\ phase'[s] = "building" /\ parent'[s] = snap[c]
          /\ \A u \in Snapshots : u # s => phase'[u] = phase[u] /\ parent'[u] = parent[u]
      BY <2>1, <2>2, BeginClonePhase
    <2> QED BY <1>10, <2>1, <2>2, <2>3
            DEF TypeOK, Unused, CallsWellFormed, TasksWellFormed, HeldMade, Built, Distinct,
                BeginAutoImports
  <1>11. ASSUME NEW c \in Calls, EndAutoImports(c) PROVE Built'
    <2>1. clone[c] \in Snapshots
      BY <1>11 DEF EndAutoImports
    <2>2. /\ phase'[clone[c]] = "made"
          /\ \A u \in Snapshots : u # clone[c] => phase'[u] = phase[u] /\ parent'[u] = parent[u]
      BY <1>11, <2>1, EndClonePhase DEF EndAutoImports
    <2> QED BY <1>11, <2>1, <2>2
            DEF TypeOK, CallsWellFormed, TasksWellFormed, HeldMade, Built, Distinct, EndAutoImports
  <1>12. ASSUME NEW c \in Calls, NoProjectForClone(c) PROVE Built'
    <2>1. clone[c] \in Snapshots
      BY <1>12 DEF NoProjectForClone
    <2>2. /\ phase'[clone[c]] = "made"
          /\ \A u \in Snapshots : u # clone[c] => phase'[u] = phase[u] /\ parent'[u] = parent[u]
      BY <1>12, <2>1, EndClonePhase DEF NoProjectForClone
    <2> QED BY <1>12, <2>1, <2>2
            DEF TypeOK, CallsWellFormed, TasksWellFormed, HeldMade, Built, Distinct,
                NoProjectForClone
  <1>13. ASSUME NEW c \in Calls, Return(c) PROVE Built'
    BY <1>13 DEF TypeOK, CallsWellFormed, TasksWellFormed, HeldMade, Built, Distinct, Return
  <1>14. ASSUME NEW t \in Snapshots, Dispose(t) PROVE Built'
    BY <1>14, HolderCounted
    DEF TypeOK, CallsWellFormed, TasksWellFormed, HeldMade, Built, Distinct, Dispose
  <1>15. ASSUME NEW t \in Snapshots, WarmTooLate(t) PROVE Built'
    BY <1>15 DEF TypeOK, CallsWellFormed, TasksWellFormed, HeldMade, Built, Distinct, WarmTooLate
  <1>16. ASSUME NEW t \in Snapshots, WarmBegin(t) PROVE Built'
    <2>1. PICK s \in Snapshots : BeginClone(s, t, NoChanges) /\ child' = [child EXCEPT ![t] = s]
      BY <1>16 DEF WarmBegin
    <2>2. /\ Unused(s) /\ phase[s] = "none"
          /\ phase'[s] = "building" /\ parent'[s] = t
          /\ \A u \in Snapshots : u # s => phase'[u] = phase[u] /\ parent'[u] = parent[u]
      BY <2>1, BeginClonePhase
    <2> QED BY <1>16, <2>1, <2>2
            DEF TypeOK, Unused, CallsWellFormed, TasksWellFormed, HeldMade, Built, Distinct,
                WarmBegin
  <1>17. ASSUME NEW t \in Snapshots, WarmEnd(t) PROVE Built'
    <2>1. child[t] \in Snapshots
      BY <1>17 DEF WarmEnd
    <2>2. /\ phase'[child[t]] = "made"
          /\ \A u \in Snapshots : u # child[t] => phase'[u] = phase[u] /\ parent'[u] = parent[u]
      BY <1>17, <2>1, EndClonePhase DEF WarmEnd
    <2> QED BY <1>17, <2>1, <2>2
            DEF TypeOK, CallsWellFormed, TasksWellFormed, HeldMade, Built, Distinct, WarmEnd
  <1>18. ASSUME NEW t \in Snapshots, WarmCanceled(t) PROVE Built'
    BY <1>18 DEF TypeOK, CallsWellFormed, TasksWellFormed, HeldMade, Built, Distinct, WarmCanceled
  <1>19. ASSUME NEW t \in Snapshots, WarmAdopt(t) PROVE Built'
    BY <1>19 DEF TypeOK, CallsWellFormed, TasksWellFormed, HeldMade, Built, Distinct, WarmAdopt,
       AdoptOrRelease
  <1>20. ASSUME NEW t \in Snapshots, WarmLeave(t) PROVE Built'
    BY <1>20 DEF TypeOK, CallsWellFormed, TasksWellFormed, HeldMade, Built, Distinct, WarmLeave
  <1>21. ASSUME NEW a \in adopts, Adopt(a) PROVE Built'
    BY <1>21 DEF TypeOK, CallsWellFormed, TasksWellFormed, HeldMade, Built, Distinct, Adopt,
       AdoptOrRelease
  <1> QED BY <1>0, <1>1, <1>2, <1>3, <1>4, <1>5, <1>6, <1>7, <1>8, <1>9, <1>10, <1>11, <1>12,
             <1>13, <1>14, <1>15, <1>16, <1>17, <1>18, <1>19, <1>20, <1>21
          DEF Next, UpdateStep, RequestStep, WarmStep

\* Outside of S no clone begins and no builder stops; what is built in S has a builder.
BuildersGoOn(S) ==
    /\ \A u \in Snapshots \ S : phase'[u] = "building" => phase[u] = "building"
    /\ \A u \in Snapshots \intersect S : phase'[u] = "building" => Builder(u)'
    /\ \A c \in Calls :
         /\ pc[c] \in Updating /\ snap[c] \notin S => pc'[c] \in Updating /\ snap'[c] = snap[c]
         /\ pc[c] = "auto" /\ clone[c] \notin S => pc'[c] = "auto" /\ clone'[c] = clone[c]
    /\ \A t \in Snapshots : warm[t] = "cloning" /\ child[t] \notin S =>
         warm'[t] = "cloning" /\ child'[t] = child[t]

\* Then whatever is being built has a builder.
LEMMA BuildersKept ==
    ASSUME HasBuilder, NEW S, BuildersGoOn(S)
    PROVE  HasBuilder'
  <1>1. ASSUME NEW u \in Snapshots \ S, phase'[u] = "building" PROVE Builder(u)'
    <2>1. Builder(u)
      BY <1>1 DEF HasBuilder, BuildersGoOn
    <2>2. CASE \E c \in Calls : pc[c] \in Updating /\ snap[c] = u
      BY <1>1, <2>2 DEF Builder, BuildersGoOn
    <2>3. CASE \E c \in Calls : pc[c] = "auto" /\ clone[c] = u
      BY <1>1, <2>3 DEF Builder, BuildersGoOn
    <2>4. CASE \E t \in Snapshots : warm[t] = "cloning" /\ child[t] = u
      BY <1>1, <2>4 DEF Builder, BuildersGoOn
    <2> QED BY <2>1, <2>2, <2>3, <2>4 DEF Builder
  <1> QED BY <1>1 DEF HasBuilder, BuildersGoOn

\* A snapshot has a builder until its clone ends.
LEMMA HasBuilderStep ==
    ASSUME IInv, [Next]_vars
    PROVE  HasBuilder'
  <1> USE SnapshotsAssumption, Pointers
      DEF IInv, Updating, Warming, SnapStates, sessVars, muVars, snapVars, callVars, taskVars
  <1>0. CASE DidChangeFile \/ Configure \/ UNCHANGED vars
    BY <1>0 DEF HasBuilder, Builder, DidChangeFile, Configure, vars
  <1>1. ASSUME NEW c \in Calls, Flush(c) PROVE HasBuilder'
    <2>1. /\ \A d \in Calls : d # c => pc'[d] = pc[d]
          /\ pc[c] \in {"idle", "flushed"} /\ UNCHANGED <<phase, snap, clone, warm, child>>
      BY <1>1 DEF TypeOK, Flush
    <2>2. BuildersGoOn({})
      BY <2>1 DEF BuildersGoOn
    <2> QED BY <2>2, BuildersKept
  <1>2. ASSUME NEW c \in Calls, DidOpenFile(c) PROVE HasBuilder'
    <2>1. /\ \A d \in Calls : d # c => pc'[d] = pc[d]
          /\ pc[c] \in {"idle", "flushed"} /\ UNCHANGED <<phase, snap, clone, warm, child>>
      BY <1>2 DEF TypeOK, DidOpenFile
    <2>2. BuildersGoOn({})
      BY <2>1 DEF BuildersGoOn
    <2> QED BY <2>2, BuildersKept
  <1>3. ASSUME NEW c \in Calls, RefCurrent(c) PROVE HasBuilder'
    <2>1. /\ \A d \in Calls : d # c => pc'[d] = pc[d] /\ snap'[d] = snap[d]
          /\ pc[c] \in {"idle", "flushed"} /\ UNCHANGED <<phase, clone, warm, child>>
      BY <1>3 DEF TypeOK, RefCurrent
    <2>2. BuildersGoOn({})
      BY <2>1 DEF BuildersGoOn
    <2> QED BY <2>2, BuildersKept
  <1>4. ASSUME NEW c \in Calls, SkipUpdate(c) PROVE HasBuilder'
    <2>1. /\ \A d \in Calls : d # c => pc'[d] = pc[d]
          /\ pc[c] \in {"idle", "flushed"} /\ UNCHANGED <<phase, snap, clone, warm, child>>
      BY <1>4 DEF TypeOK, SkipUpdate
    <2>2. BuildersGoOn({})
      BY <2>1 DEF BuildersGoOn
    <2> QED BY <2>2, BuildersKept
  <1>5. ASSUME NEW c \in Calls, TakeCurrent(c) PROVE HasBuilder'
    <2>1. /\ \A d \in Calls : d # c => pc'[d] = pc[d] /\ snap'[d] = snap[d]
          /\ pc[c] \in {"idle", "flushed"} /\ UNCHANGED <<phase, clone, warm, child>>
      BY <1>5 DEF TypeOK, TakeCurrent
    <2>2. BuildersGoOn({})
      BY <2>1 DEF BuildersGoOn
    <2> QED BY <2>2, BuildersKept
  <1>6. ASSUME NEW c \in Calls, BeginUpdate(c) PROVE HasBuilder'
    <2>1. PICK s \in Snapshots : BeginClone(s, current, Changes(c)) /\ snap' = [snap EXCEPT ![c] = s]
      BY <1>6 DEF BeginUpdate
    <2>2. current \in Snapshots
      BY <1>6 DEF TypeOK, BeginUpdate
    <2>3. /\ Unused(s) /\ phase[s] = "none"
          /\ phase'[s] = "building" /\ parent'[s] = current
          /\ \A u \in Snapshots : u # s => phase'[u] = phase[u] /\ parent'[u] = parent[u]
      BY <2>1, <2>2, BeginClonePhase
    <2>4. /\ pc'[c] \in Updating /\ snap'[c] = s /\ UNCHANGED <<clone, warm, child>>
          /\ pc[c] \notin Updating /\ pc[c] # "auto"
          /\ \A d \in Calls : d # c => pc'[d] = pc[d] /\ snap'[d] = snap[d]
      BY <1>6, <2>1 DEF TypeOK, BeginUpdate
    <2>5. Builder(s)'
      BY <2>4 DEF Builder
    <2>6. BuildersGoOn({s})
      BY <2>3, <2>4, <2>5 DEF BuildersGoOn
    <2> QED BY <2>6, BuildersKept
  <1>7. ASSUME NEW c \in Calls, EndUpdate(c) PROVE HasBuilder'
    <2>1. snap[c] \in Snapshots
      BY <1>7 DEF EndUpdate
    <2>2. /\ phase'[snap[c]] = "made"
          /\ \A u \in Snapshots : u # snap[c] => phase'[u] = phase[u] /\ parent'[u] = parent[u]
      BY <1>7, <2>1, EndClonePhase DEF EndUpdate
    <2>3. /\ \A d \in Calls : d # c => pc'[d] = pc[d] /\ snap'[d] = snap[d]
          /\ pc[c] # "auto" /\ UNCHANGED <<clone, child>>
      BY <1>7 DEF TypeOK, EndUpdate
    <2>4. \A t \in Snapshots : warm[t] = "cloning" => warm'[t] = "cloning"
      BY <1>7, <2>1 DEF TypeOK, Built, NotWarmed, EndUpdate
    <2> QED BY <2>1, <2>2, <2>3, <2>4 DEF HasBuilder, Builder
  <1>8. ASSUME NEW c \in Calls, RejectUpdate(c) PROVE HasBuilder'
    <2>1. snap[c] \in Snapshots
      BY <1>8 DEF RejectUpdate
    <2>2. /\ phase'[snap[c]] = "made"
          /\ \A u \in Snapshots : u # snap[c] => phase'[u] = phase[u] /\ parent'[u] = parent[u]
      BY <1>8, <2>1, EndClonePhase DEF RejectUpdate
    <2>3. /\ \A d \in Calls : d # c => pc'[d] = pc[d]
          /\ pc[c] # "auto" /\ UNCHANGED <<snap, clone, warm, child>>
      BY <1>8 DEF TypeOK, RejectUpdate
    <2>4. BuildersGoOn({snap[c]})
      BY <2>2, <2>3 DEF BuildersGoOn
    <2> QED BY <2>4, BuildersKept
  <1>9. ASSUME NEW c \in Calls, ReleaseRejected(c) PROVE HasBuilder'
    <2>1. /\ \A d \in Calls : d # c => pc'[d] = pc[d] /\ snap'[d] = snap[d]
          /\ pc[c] = "rejected" /\ UNCHANGED <<phase, clone, warm, child>>
      BY <1>9 DEF TypeOK, ReleaseRejected
    <2>2. BuildersGoOn({})
      BY <2>1 DEF BuildersGoOn
    <2> QED BY <2>2, BuildersKept
  <1>10. ASSUME NEW c \in Calls, BeginAutoImports(c) PROVE HasBuilder'
    <2>1. PICK s \in Snapshots : BeginClone(s, snap[c], NoChanges) /\ clone' = [clone EXCEPT ![c] = s]
      BY <1>10 DEF BeginAutoImports
    <2>2. snap[c] \in Snapshots
      BY <1>10 DEF TypeOK, BeginAutoImports
    <2>3. /\ Unused(s) /\ phase[s] = "none"
          /\ phase'[s] = "building" /\ parent'[s] = snap[c]
          /\ \A u \in Snapshots : u # s => phase'[u] = phase[u] /\ parent'[u] = parent[u]
      BY <2>1, <2>2, BeginClonePhase
    <2>4. /\ pc'[c] = "auto" /\ clone'[c] = s /\ pc[c] = "held"
          /\ UNCHANGED <<snap, warm, child>>
          /\ \A d \in Calls : d # c => pc'[d] = pc[d] /\ clone'[d] = clone[d]
      BY <1>10, <2>1 DEF TypeOK, BeginAutoImports
    <2>5. Builder(s)'
      BY <2>4 DEF Builder
    <2>6. BuildersGoOn({s})
      BY <2>3, <2>4, <2>5 DEF BuildersGoOn
    <2> QED BY <2>6, BuildersKept
  <1>11. ASSUME NEW c \in Calls, EndAutoImports(c) PROVE HasBuilder'
    <2>1. clone[c] \in Snapshots
      BY <1>11 DEF EndAutoImports
    <2>2. /\ phase'[clone[c]] = "made"
          /\ \A u \in Snapshots : u # clone[c] => phase'[u] = phase[u] /\ parent'[u] = parent[u]
      BY <1>11, <2>1, EndClonePhase DEF EndAutoImports
    <2>3. /\ \A d \in Calls : d # c => pc'[d] = pc[d]
          /\ pc[c] = "auto" /\ UNCHANGED <<snap, clone, warm, child>>
      BY <1>11 DEF TypeOK, EndAutoImports
    <2>4. BuildersGoOn({clone[c]})
      BY <2>2, <2>3 DEF BuildersGoOn
    <2> QED BY <2>4, BuildersKept
  <1>12. ASSUME NEW c \in Calls, NoProjectForClone(c) PROVE HasBuilder'
    <2>1. clone[c] \in Snapshots
      BY <1>12 DEF NoProjectForClone
    <2>2. /\ phase'[clone[c]] = "made"
          /\ \A u \in Snapshots : u # clone[c] => phase'[u] = phase[u] /\ parent'[u] = parent[u]
      BY <1>12, <2>1, EndClonePhase DEF NoProjectForClone
    <2>3. /\ \A d \in Calls : d # c => pc'[d] = pc[d] /\ clone'[d] = clone[d]
          /\ pc[c] = "auto" /\ UNCHANGED <<snap, warm, child>>
      BY <1>12 DEF TypeOK, NoProjectForClone
    <2> QED BY <2>1, <2>2, <2>3 DEF HasBuilder, Builder
  <1>13. ASSUME NEW c \in Calls, Return(c) PROVE HasBuilder'
    <2>1. /\ \A d \in Calls : d # c => pc'[d] = pc[d] /\ snap'[d] = snap[d] /\ clone'[d] = clone[d]
          /\ pc[c] \in {"held", "clone", "error"} /\ UNCHANGED <<phase, warm, child>>
      BY <1>13 DEF TypeOK, Return
    <2>2. BuildersGoOn({})
      BY <2>1 DEF BuildersGoOn
    <2> QED BY <2>2, BuildersKept
  <1>14. ASSUME NEW t \in Snapshots, Dispose(t) PROVE HasBuilder'
    <2>1. /\ \A u \in Snapshots : phase'[u] = "building" => phase[u] = "building"
          /\ UNCHANGED <<pc, snap, clone, warm, child>>
      BY <1>14 DEF TypeOK, Dispose
    <2>2. BuildersGoOn({})
      BY <2>1 DEF BuildersGoOn
    <2> QED BY <2>2, BuildersKept
  <1>15. ASSUME NEW t \in Snapshots, WarmTooLate(t) PROVE HasBuilder'
    <2>1. /\ \A u \in Snapshots : u # t => warm'[u] = warm[u]
          /\ warm[t] = "queued" /\ UNCHANGED <<phase, pc, snap, clone, child>>
      BY <1>15 DEF TypeOK, WarmTooLate
    <2>2. BuildersGoOn({})
      BY <2>1 DEF BuildersGoOn
    <2> QED BY <2>2, BuildersKept
  <1>16. ASSUME NEW t \in Snapshots, WarmBegin(t) PROVE HasBuilder'
    <2>1. PICK s \in Snapshots : BeginClone(s, t, NoChanges) /\ child' = [child EXCEPT ![t] = s]
      BY <1>16 DEF WarmBegin
    <2>2. /\ Unused(s) /\ phase[s] = "none"
          /\ phase'[s] = "building" /\ parent'[s] = t
          /\ \A u \in Snapshots : u # s => phase'[u] = phase[u] /\ parent'[u] = parent[u]
      BY <2>1, BeginClonePhase
    <2>3. /\ warm'[t] = "cloning" /\ child'[t] = s /\ warm[t] = "queued"
          /\ UNCHANGED <<pc, snap, clone>>
          /\ \A u \in Snapshots : u # t => warm'[u] = warm[u] /\ child'[u] = child[u]
      BY <1>16, <2>1 DEF TypeOK, WarmBegin
    <2>4. Builder(s)'
      BY <2>3 DEF Builder
    <2>5. BuildersGoOn({s})
      BY <2>2, <2>3, <2>4 DEF BuildersGoOn
    <2> QED BY <2>5, BuildersKept
  <1>17. ASSUME NEW t \in Snapshots, WarmEnd(t) PROVE HasBuilder'
    <2>1. child[t] \in Snapshots
      BY <1>17 DEF WarmEnd
    <2>2. /\ phase'[child[t]] = "made"
          /\ \A u \in Snapshots : u # child[t] => phase'[u] = phase[u] /\ parent'[u] = parent[u]
      BY <1>17, <2>1, EndClonePhase DEF WarmEnd
    <2>3. /\ \A u \in Snapshots : u # t => warm'[u] = warm[u]
          /\ UNCHANGED <<pc, snap, clone, child>>
      BY <1>17 DEF TypeOK, WarmEnd
    <2>4. BuildersGoOn({child[t]})
      BY <2>2, <2>3 DEF BuildersGoOn
    <2> QED BY <2>4, BuildersKept
  <1>18. ASSUME NEW t \in Snapshots, WarmCanceled(t) PROVE HasBuilder'
    <2>1. /\ \A u \in Snapshots : u # t => warm'[u] = warm[u] /\ child'[u] = child[u]
          /\ warm[t] = "cloned" /\ UNCHANGED <<phase, pc, snap, clone>>
      BY <1>18 DEF TypeOK, WarmCanceled
    <2>2. BuildersGoOn({})
      BY <2>1 DEF BuildersGoOn
    <2> QED BY <2>2, BuildersKept
  <1>19. ASSUME NEW t \in Snapshots, WarmAdopt(t) PROVE HasBuilder'
    <2>1. /\ \A u \in Snapshots : u # t => warm'[u] = warm[u] /\ child'[u] = child[u]
          /\ warm[t] = "cloned" /\ UNCHANGED <<phase, pc, snap, clone>>
      BY <1>19 DEF TypeOK, WarmAdopt, AdoptOrRelease
    <2>2. BuildersGoOn({})
      BY <2>1 DEF BuildersGoOn
    <2> QED BY <2>2, BuildersKept
  <1>20. ASSUME NEW t \in Snapshots, WarmLeave(t) PROVE HasBuilder'
    BY <1>20 DEF TypeOK, CallsWellFormed, TasksWellFormed, Built, HasBuilder, Builder, WarmLeave
  <1>21. ASSUME NEW a \in adopts, Adopt(a) PROVE HasBuilder'
    <2>1. UNCHANGED <<phase, pc, snap, clone, warm, child>>
      BY <1>21 DEF Adopt, AdoptOrRelease
    <2>2. BuildersGoOn({})
      BY <2>1 DEF BuildersGoOn
    <2> QED BY <2>2, BuildersKept
  <1> QED BY <1>0, <1>1, <1>2, <1>3, <1>4, <1>5, <1>6, <1>7, <1>8, <1>9, <1>10, <1>11, <1>12,
             <1>13, <1>14, <1>15, <1>16, <1>17, <1>18, <1>19, <1>20, <1>21
          DEF Next, UpdateStep, RequestStep, WarmStep

\* Only what is made gets warmed.
LEMMA NotWarmedStep ==
    ASSUME IInv, [Next]_vars
    PROVE  NotWarmed'
  <1> USE SnapshotsAssumption, Pointers
      DEF IInv, Updating, Warming, SnapStates, sessVars, muVars, snapVars, callVars, taskVars
  <1>0. CASE DidChangeFile \/ Configure \/ UNCHANGED vars
    BY <1>0 DEF NotWarmed, DidChangeFile, Configure, vars
  <1>1. ASSUME NEW c \in Calls, Flush(c) PROVE NotWarmed'
    BY <1>1 DEF TypeOK, NotWarmed, Flush
  <1>2. ASSUME NEW c \in Calls, DidOpenFile(c) PROVE NotWarmed'
    BY <1>2 DEF TypeOK, NotWarmed, DidOpenFile
  <1>3. ASSUME NEW c \in Calls, RefCurrent(c) PROVE NotWarmed'
    BY <1>3 DEF TypeOK, NotWarmed, RefCurrent
  <1>4. ASSUME NEW c \in Calls, SkipUpdate(c) PROVE NotWarmed'
    BY <1>4 DEF TypeOK, NotWarmed, SkipUpdate
  <1>5. ASSUME NEW c \in Calls, TakeCurrent(c) PROVE NotWarmed'
    BY <1>5 DEF TypeOK, NotWarmed, TakeCurrent
  <1>6. ASSUME NEW c \in Calls, BeginUpdate(c) PROVE NotWarmed'
    <2>1. PICK s \in Snapshots : BeginClone(s, current, Changes(c)) /\ snap' = [snap EXCEPT ![c] = s]
      BY <1>6 DEF BeginUpdate
    <2>2. current \in Snapshots
      BY <1>6 DEF TypeOK, BeginUpdate
    <2>3. /\ Unused(s) /\ phase[s] = "none"
          /\ phase'[s] = "building" /\ parent'[s] = current
          /\ \A u \in Snapshots : u # s => phase'[u] = phase[u] /\ parent'[u] = parent[u]
      BY <2>1, <2>2, BeginClonePhase
    <2> QED BY <1>6, <2>1, <2>2, <2>3 DEF TypeOK, Unused, NotWarmed, BeginUpdate
  <1>7. ASSUME NEW c \in Calls, EndUpdate(c) PROVE NotWarmed'
    <2>1. snap[c] \in Snapshots
      BY <1>7 DEF EndUpdate
    <2>2. /\ phase'[snap[c]] = "made"
          /\ \A u \in Snapshots : u # snap[c] => phase'[u] = phase[u] /\ parent'[u] = parent[u]
      BY <1>7, <2>1, EndClonePhase DEF EndUpdate
    <2> QED BY <1>7, <2>1, <2>2 DEF TypeOK, NotWarmed, EndUpdate, CallerRef
  <1>8. ASSUME NEW c \in Calls, RejectUpdate(c) PROVE NotWarmed'
    <2>1. snap[c] \in Snapshots
      BY <1>8 DEF RejectUpdate
    <2>2. /\ phase'[snap[c]] = "made"
          /\ \A u \in Snapshots : u # snap[c] => phase'[u] = phase[u] /\ parent'[u] = parent[u]
      BY <1>8, <2>1, EndClonePhase DEF RejectUpdate
    <2> QED BY <1>8, <2>1, <2>2 DEF TypeOK, NotWarmed, RejectUpdate
  <1>9. ASSUME NEW c \in Calls, ReleaseRejected(c) PROVE NotWarmed'
    BY <1>9 DEF TypeOK, NotWarmed, ReleaseRejected
  <1>10. ASSUME NEW c \in Calls, BeginAutoImports(c) PROVE NotWarmed'
    <2>1. PICK s \in Snapshots : BeginClone(s, snap[c], NoChanges) /\ clone' = [clone EXCEPT ![c] = s]
      BY <1>10 DEF BeginAutoImports
    <2>2. snap[c] \in Snapshots
      BY <1>10 DEF TypeOK, BeginAutoImports
    <2>3. /\ Unused(s) /\ phase[s] = "none"
          /\ phase'[s] = "building" /\ parent'[s] = snap[c]
          /\ \A u \in Snapshots : u # s => phase'[u] = phase[u] /\ parent'[u] = parent[u]
      BY <2>1, <2>2, BeginClonePhase
    <2> QED BY <1>10, <2>1, <2>2, <2>3 DEF TypeOK, Unused, NotWarmed, BeginAutoImports
  <1>11. ASSUME NEW c \in Calls, EndAutoImports(c) PROVE NotWarmed'
    <2>1. clone[c] \in Snapshots
      BY <1>11 DEF EndAutoImports
    <2>2. /\ phase'[clone[c]] = "made"
          /\ \A u \in Snapshots : u # clone[c] => phase'[u] = phase[u] /\ parent'[u] = parent[u]
      BY <1>11, <2>1, EndClonePhase DEF EndAutoImports
    <2> QED BY <1>11, <2>1, <2>2 DEF TypeOK, NotWarmed, EndAutoImports
  <1>12. ASSUME NEW c \in Calls, NoProjectForClone(c) PROVE NotWarmed'
    <2>1. clone[c] \in Snapshots
      BY <1>12 DEF NoProjectForClone
    <2>2. /\ phase'[clone[c]] = "made"
          /\ \A u \in Snapshots : u # clone[c] => phase'[u] = phase[u] /\ parent'[u] = parent[u]
      BY <1>12, <2>1, EndClonePhase DEF NoProjectForClone
    <2> QED BY <1>12, <2>1, <2>2 DEF TypeOK, NotWarmed, NoProjectForClone
  <1>13. ASSUME NEW c \in Calls, Return(c) PROVE NotWarmed'
    BY <1>13 DEF TypeOK, NotWarmed, Return
  <1>14. ASSUME NEW t \in Snapshots, Dispose(t) PROVE NotWarmed'
    BY <1>14, HolderCounted DEF TypeOK, NotWarmed, Dispose
  <1>15. ASSUME NEW t \in Snapshots, WarmTooLate(t) PROVE NotWarmed'
    BY <1>15 DEF TypeOK, NotWarmed, WarmTooLate
  <1>16. ASSUME NEW t \in Snapshots, WarmBegin(t) PROVE NotWarmed'
    <2>1. PICK s \in Snapshots : BeginClone(s, t, NoChanges) /\ child' = [child EXCEPT ![t] = s]
      BY <1>16 DEF WarmBegin
    <2>2. /\ Unused(s) /\ phase[s] = "none"
          /\ phase'[s] = "building" /\ parent'[s] = t
          /\ \A u \in Snapshots : u # s => phase'[u] = phase[u] /\ parent'[u] = parent[u]
      BY <2>1, BeginClonePhase
    <2> QED BY <1>16, <2>1, <2>2 DEF TypeOK, Unused, NotWarmed, WarmBegin
  <1>17. ASSUME NEW t \in Snapshots, WarmEnd(t) PROVE NotWarmed'
    <2>1. child[t] \in Snapshots
      BY <1>17 DEF WarmEnd
    <2>2. /\ phase'[child[t]] = "made"
          /\ \A u \in Snapshots : u # child[t] => phase'[u] = phase[u] /\ parent'[u] = parent[u]
      BY <1>17, <2>1, EndClonePhase DEF WarmEnd
    <2> QED BY <1>17, <2>1, <2>2 DEF TypeOK, NotWarmed, WarmEnd
  <1>18. ASSUME NEW t \in Snapshots, WarmCanceled(t) PROVE NotWarmed'
    BY <1>18 DEF TypeOK, NotWarmed, WarmCanceled
  <1>19. ASSUME NEW t \in Snapshots, WarmAdopt(t) PROVE NotWarmed'
    BY <1>19 DEF TypeOK, NotWarmed, WarmAdopt, AdoptOrRelease
  <1>20. ASSUME NEW t \in Snapshots, WarmLeave(t) PROVE NotWarmed'
    BY <1>20 DEF TypeOK, NotWarmed, WarmLeave
  <1>21. ASSUME NEW a \in adopts, Adopt(a) PROVE NotWarmed'
    BY <1>21 DEF TypeOK, NotWarmed, Adopt, AdoptOrRelease
  <1> QED BY <1>0, <1>1, <1>2, <1>3, <1>4, <1>5, <1>6, <1>7, <1>8, <1>9, <1>10, <1>11, <1>12,
             <1>13, <1>14, <1>15, <1>16, <1>17, <1>18, <1>19, <1>20, <1>21
          DEF Next, UpdateStep, RequestStep, WarmStep

\* Builders have different clones: a new one is used by nobody.
LEMMA DistinctStep ==
    ASSUME IInv, [Next]_vars
    PROVE  Distinct'
  <1> USE SnapshotsAssumption, Pointers
      DEF IInv, Updating, Warming, SnapStates, sessVars, muVars, snapVars, callVars, taskVars
  <1>0. CASE DidChangeFile \/ Configure \/ UNCHANGED vars
    BY <1>0 DEF Distinct, DidChangeFile, Configure, vars
  <1>1. ASSUME NEW c \in Calls, Flush(c) PROVE Distinct'
    BY <1>1 DEF TypeOK, CallsWellFormed, TasksWellFormed, Distinct, Flush
  <1>2. ASSUME NEW c \in Calls, DidOpenFile(c) PROVE Distinct'
    BY <1>2 DEF TypeOK, CallsWellFormed, TasksWellFormed, Distinct, DidOpenFile
  <1>3. ASSUME NEW c \in Calls, RefCurrent(c) PROVE Distinct'
    BY <1>3 DEF TypeOK, CallsWellFormed, TasksWellFormed, Distinct, RefCurrent
  <1>4. ASSUME NEW c \in Calls, SkipUpdate(c) PROVE Distinct'
    BY <1>4 DEF TypeOK, CallsWellFormed, TasksWellFormed, Distinct, SkipUpdate
  <1>5. ASSUME NEW c \in Calls, TakeCurrent(c) PROVE Distinct'
    BY <1>5 DEF TypeOK, CallsWellFormed, TasksWellFormed, Distinct, TakeCurrent
  <1>6. ASSUME NEW c \in Calls, BeginUpdate(c) PROVE Distinct'
    <2>1. PICK s \in Snapshots : BeginClone(s, current, Changes(c)) /\ snap' = [snap EXCEPT ![c] = s]
      BY <1>6 DEF BeginUpdate
    <2>2. current \in Snapshots
      BY <1>6 DEF TypeOK, BeginUpdate
    <2>3. /\ Unused(s) /\ phase[s] = "none"
          /\ phase'[s] = "building" /\ parent'[s] = current
          /\ \A u \in Snapshots : u # s => phase'[u] = phase[u] /\ parent'[u] = parent[u]
      BY <2>1, <2>2, BeginClonePhase
    <2> QED BY <1>6, <2>1, <2>2, <2>3
            DEF TypeOK, Unused, CallsWellFormed, TasksWellFormed, Distinct, BeginUpdate
  <1>7. ASSUME NEW c \in Calls, EndUpdate(c) PROVE Distinct'
    <2>1. snap[c] \in Snapshots
      BY <1>7 DEF EndUpdate
    <2>2. /\ phase'[snap[c]] = "made"
          /\ \A u \in Snapshots : u # snap[c] => phase'[u] = phase[u] /\ parent'[u] = parent[u]
      BY <1>7, <2>1, EndClonePhase DEF EndUpdate
    <2> QED BY <1>7, <2>1, <2>2
            DEF TypeOK, CallsWellFormed, TasksWellFormed, Distinct, EndUpdate, CallerRef
  <1>8. ASSUME NEW c \in Calls, RejectUpdate(c) PROVE Distinct'
    <2>1. snap[c] \in Snapshots
      BY <1>8 DEF RejectUpdate
    <2>2. /\ phase'[snap[c]] = "made"
          /\ \A u \in Snapshots : u # snap[c] => phase'[u] = phase[u] /\ parent'[u] = parent[u]
      BY <1>8, <2>1, EndClonePhase DEF RejectUpdate
    <2> QED BY <1>8, <2>1, <2>2 DEF TypeOK, CallsWellFormed, TasksWellFormed, Distinct, RejectUpdate
  <1>9. ASSUME NEW c \in Calls, ReleaseRejected(c) PROVE Distinct'
    <2>1. /\ \A d \in Calls : d # c => pc'[d] = pc[d] /\ snap'[d] = snap[d]
          /\ pc'[c] \in {"again", "idle"} /\ UNCHANGED <<clone, warm, child>>
      BY <1>9 DEF TypeOK, ReleaseRejected
    <2> QED BY <2>1 DEF Distinct
  <1>10. ASSUME NEW c \in Calls, BeginAutoImports(c) PROVE Distinct'
    <2>1. PICK s \in Snapshots : BeginClone(s, snap[c], NoChanges) /\ clone' = [clone EXCEPT ![c] = s]
      BY <1>10 DEF BeginAutoImports
    <2>2. snap[c] \in Snapshots
      BY <1>10 DEF TypeOK, BeginAutoImports
    <2>3. /\ Unused(s) /\ phase[s] = "none"
          /\ phase'[s] = "building" /\ parent'[s] = snap[c]
          /\ \A u \in Snapshots : u # s => phase'[u] = phase[u] /\ parent'[u] = parent[u]
      BY <2>1, <2>2, BeginClonePhase
    <2> QED BY <1>10, <2>1, <2>2, <2>3
            DEF TypeOK, Unused, CallsWellFormed, TasksWellFormed, Distinct, BeginAutoImports
  <1>11. ASSUME NEW c \in Calls, EndAutoImports(c) PROVE Distinct'
    <2>1. clone[c] \in Snapshots
      BY <1>11 DEF EndAutoImports
    <2>2. /\ phase'[clone[c]] = "made"
          /\ \A u \in Snapshots : u # clone[c] => phase'[u] = phase[u] /\ parent'[u] = parent[u]
      BY <1>11, <2>1, EndClonePhase DEF EndAutoImports
    <2> QED BY <1>11, <2>1, <2>2
            DEF TypeOK, CallsWellFormed, TasksWellFormed, Distinct, EndAutoImports
  <1>12. ASSUME NEW c \in Calls, NoProjectForClone(c) PROVE Distinct'
    <2>1. clone[c] \in Snapshots
      BY <1>12 DEF NoProjectForClone
    <2>2. /\ phase'[clone[c]] = "made"
          /\ \A u \in Snapshots : u # clone[c] => phase'[u] = phase[u] /\ parent'[u] = parent[u]
      BY <1>12, <2>1, EndClonePhase DEF NoProjectForClone
    <2> QED BY <1>12, <2>1, <2>2
            DEF TypeOK, CallsWellFormed, TasksWellFormed, Distinct, NoProjectForClone
  <1>13. ASSUME NEW c \in Calls, Return(c) PROVE Distinct'
    BY <1>13 DEF TypeOK, CallsWellFormed, TasksWellFormed, Distinct, Return
  <1>14. ASSUME NEW t \in Snapshots, Dispose(t) PROVE Distinct'
    BY <1>14, HolderCounted DEF TypeOK, CallsWellFormed, TasksWellFormed, Distinct, Dispose
  <1>15. ASSUME NEW t \in Snapshots, WarmTooLate(t) PROVE Distinct'
    BY <1>15 DEF TypeOK, CallsWellFormed, TasksWellFormed, Distinct, WarmTooLate
  <1>16. ASSUME NEW t \in Snapshots, WarmBegin(t) PROVE Distinct'
    <2>1. PICK s \in Snapshots : BeginClone(s, t, NoChanges) /\ child' = [child EXCEPT ![t] = s]
      BY <1>16 DEF WarmBegin
    <2>2. /\ Unused(s) /\ phase[s] = "none"
          /\ phase'[s] = "building" /\ parent'[s] = t
          /\ \A u \in Snapshots : u # s => phase'[u] = phase[u] /\ parent'[u] = parent[u]
      BY <2>1, BeginClonePhase
    <2> QED BY <1>16, <2>1, <2>2
            DEF TypeOK, Unused, CallsWellFormed, TasksWellFormed, Distinct, WarmBegin
  <1>17. ASSUME NEW t \in Snapshots, WarmEnd(t) PROVE Distinct'
    <2>1. child[t] \in Snapshots
      BY <1>17 DEF WarmEnd
    <2>2. /\ phase'[child[t]] = "made"
          /\ \A u \in Snapshots : u # child[t] => phase'[u] = phase[u] /\ parent'[u] = parent[u]
      BY <1>17, <2>1, EndClonePhase DEF WarmEnd
    <2> QED BY <1>17, <2>1, <2>2 DEF TypeOK, CallsWellFormed, TasksWellFormed, Distinct, WarmEnd
  <1>18. ASSUME NEW t \in Snapshots, WarmCanceled(t) PROVE Distinct'
    BY <1>18 DEF TypeOK, CallsWellFormed, TasksWellFormed, Distinct, WarmCanceled
  <1>19. ASSUME NEW t \in Snapshots, WarmAdopt(t) PROVE Distinct'
    BY <1>19 DEF TypeOK, CallsWellFormed, TasksWellFormed, Distinct, WarmAdopt, AdoptOrRelease
  <1>20. ASSUME NEW t \in Snapshots, WarmLeave(t) PROVE Distinct'
    BY <1>20 DEF TypeOK, CallsWellFormed, TasksWellFormed, Distinct, WarmLeave
  <1>21. ASSUME NEW a \in adopts, Adopt(a) PROVE Distinct'
    BY <1>21 DEF TypeOK, CallsWellFormed, TasksWellFormed, Distinct, Adopt, AdoptOrRelease
  <1> QED BY <1>0, <1>1, <1>2, <1>3, <1>4, <1>5, <1>6, <1>7, <1>8, <1>9, <1>10, <1>11, <1>12,
             <1>13, <1>14, <1>15, <1>16, <1>17, <1>18, <1>19, <1>20, <1>21
          DEF Next, UpdateStep, RequestStep, WarmStep

------------------------------------------------------------------------------
(* Programs *)

\* The parent of a snapshot that is being built is held by the builder.
LEMMA ParentHeld ==
    ASSUME IInv, NEW s \in Snapshots, phase[s] = "building"
    PROVE  parent[s] \in Snapshots /\ phase[parent[s]] = "made" /\ refCount[parent[s]] > 0
  <1> USE DEF IInv, Updating, Warming, SnapStates
  <1>1. Builder(s)
    BY DEF HasBuilder
  <1>2. ASSUME NEW c \in Calls, pc[c] \in Updating, snap[c] = s
        PROVE  parent[s] \in Snapshots /\ phase[parent[s]] = "made" /\ refCount[parent[s]] > 0
    BY <1>2, HolderCounted DEF TypeOK, Built, HeldMade
  <1>3. ASSUME NEW c \in Calls, pc[c] = "auto", clone[c] = s
        PROVE  parent[s] \in Snapshots /\ phase[parent[s]] = "made" /\ refCount[parent[s]] > 0
    BY <1>3, HolderCounted, Pointers DEF Built, HeldMade
  <1>4. ASSUME NEW t \in Snapshots, warm[t] = "cloning", child[t] = s
        PROVE  parent[s] \in Snapshots /\ phase[parent[s]] = "made" /\ refCount[parent[s]] > 0
    BY <1>4, HolderCounted DEF Built, HeldMade
  <1> QED BY <1>1, <1>2, <1>3, <1>4 DEF Builder

\* Beginning a clone of a snapshot that is not disposed of: no count changes, and a new
\* program is the clone's alone.
LEMMA BeginClonePrograms ==
    ASSUME IInv, NEW s \in Snapshots, NEW p \in Snapshots, NEW d, BeginClone(s, p, d),
           phase[p] = "made"
    PROVE  ProgramsCounted'
  <1> USE DEF IInv
  <1>1. /\ Unused(s) /\ phase[s] = "none" /\ p # s
        /\ phase'[s] = "building" /\ parent'[s] = p
        /\ \A u \in Snapshots : u # s => phase'[u] = phase[u] /\ parent'[u] = parent[u]
    BY BeginClonePhase
  <1>2. /\ \A u \in Snapshots : u # s => program'[u] = program[u]
        /\ \/ program'[s] = program[p] /\ live' = live
           \/ program'[s] \in Programs \ live /\ live' = live \union {program'[s]}
    BY DEF TypeOK, BeginClone
  <1>3. \A q \in Programs : refs'[q] = Cardinality(Having(q)')
    <2> SUFFICES ASSUME NEW q \in Programs PROVE refs'[q] = Cardinality(Having(q)')
      OBVIOUS
    <2>1. Having(q)' = Having(q)
      BY <1>1, <1>2 DEF Having
    <2> QED BY <2>1 DEF ProgramsCounted, BeginClone
  <1>4. program[p] \in live /\ p \in Present
    BY DEF ProgramsCounted, Present, TypeOK
  <1>5. Present' = Present \union {s} /\ s \notin Present
    BY <1>1 DEF Present
  <1>6. \A q \in Programs : q \in live' <=> \E u \in Present' : program'[u] = q
    BY <1>1, <1>2, <1>4, <1>5 DEF ProgramsCounted, Present
  <1>7. ASSUME NEW u \in Snapshots, phase'[u] = "building"
        PROVE  \/ program'[u] = program'[parent'[u]]
               \/ \A t \in Present' : program'[t] = program'[u] => t = u
    <2>1. CASE u = s
      <3>1. CASE program'[s] = program[p]
        BY <1>1, <1>2, <2>1, <3>1
      <3>2. CASE program'[s] \in Programs \ live
        BY <1>1, <1>2, <1>5, <2>1, <3>2 DEF ProgramsCounted, Present
      <3> QED BY <1>2, <3>1, <3>2
    <2>2. CASE u # s
      <3>1. phase[u] = "building" /\ parent'[u] = parent[u] /\ parent[u] # s /\ u # p
        BY <1>1, <1>7, <2>2 DEF Unused
      <3>2. parent[u] \in Snapshots
        BY <3>1, ParentHeld
      <3>3. CASE program[u] = program[parent[u]]
        BY <1>2, <2>2, <3>1, <3>2, <3>3
      <3>4. CASE \A t \in Present : program[t] = program[u] => t = u
        <4>1. program[p] # program[u] /\ program[u] \in live
          BY <1>4, <3>1, <3>4 DEF ProgramsCounted, Present, TypeOK
        <4> QED BY <1>2, <1>5, <2>2, <3>4, <4>1 DEF Present
      <3> QED BY <3>1, <3>3, <3>4 DEF ProgramsCounted
    <2> QED BY <2>1, <2>2
  <1> QED BY <1>3, <1>6, <1>7 DEF ProgramsCounted

\* Ending a clone counts its program once more.
LEMMA EndClonePrograms ==
    ASSUME IInv, NEW s \in Snapshots, phase[s] = "building", EndClone(s)
    PROVE  ProgramsCounted'
  <1> USE DEF IInv
  <1>1. /\ phase'[s] = "made"
        /\ \A u \in Snapshots : u # s => phase'[u] = phase[u] /\ parent'[u] = parent[u]
    BY EndClonePhase
  <1>2. ASSUME NEW q \in Programs PROVE refs'[q] = Cardinality(Having(q)')
    <2>1. program[s] \in Programs /\ refs[q] \in Nat /\ refs[q] = Cardinality(Having(q))
      BY DEF TypeOK, ProgramsCounted
    <2>2. CASE q = program[s]
      <3>1. Having(q)' = Having(q) \union {s} /\ s \notin Having(q)
        BY <1>1, <2>2 DEF Having, EndClone
      <3>2. Cardinality(Having(q) \union {s}) = Cardinality(Having(q)) + 1
        BY <3>1, HavingFinite, FS_AddElement
      <3> QED BY <2>1, <2>2, <3>1, <3>2 DEF TypeOK, EndClone
    <2>3. CASE q # program[s]
      <3>1. Having(q)' = Having(q)
        BY <1>1, <2>3 DEF Having, EndClone
      <3> QED BY <2>1, <2>3, <3>1 DEF TypeOK, EndClone
    <2> QED BY <2>2, <2>3
  <1>3. Present' = Present
    BY <1>1 DEF Present
  <1>4. UNCHANGED <<program, live>>
    BY DEF EndClone
  <1>5. \A q \in Programs : q \in live' <=> \E u \in Present' : program'[u] = q
    BY <1>3, <1>4 DEF ProgramsCounted
  <1>6. ASSUME NEW u \in Snapshots, phase'[u] = "building"
        PROVE  \/ program'[u] = program'[parent'[u]]
               \/ \A t \in Present' : program'[t] = program'[u] => t = u
    BY <1>1, <1>3, <1>4, <1>6 DEF ProgramsCounted
  <1> QED BY <1>2, <1>5, <1>6 DEF ProgramsCounted

\* Disposing of a snapshot releases its program if no other snapshot has it: a snapshot
\* that is being built has its program from another one, or alone.
LEMMA DisposePrograms ==
    ASSUME IInv, NEW s \in Snapshots, Dispose(s)
    PROVE  ProgramsCounted'
  <1> USE DEF IInv
  <1> DEFINE q == program[s]
  <1>1. /\ phase[s] = "made" /\ phase'[s] = "none" /\ UNCHANGED parent
        /\ \A u \in Snapshots : u # s => phase'[u] = phase[u] /\ program'[u] = program[u]
    BY DEF TypeOK, Dispose
  <1>2. Present' = Present \ {s} /\ s \in Present
    BY <1>1 DEF Present
  <1>3. \A u \in Snapshots : phase[u] = "building" => parent[u] \in Snapshots \ {s}
    BY ParentHeld DEF Dispose
  <1>4. q \in Programs /\ s \in Having(q) /\ refs[q] = Cardinality(Having(q)) /\ q \in live
    BY <1>1, <1>2 DEF TypeOK, Having, ProgramsCounted
  <1>5. /\ IsFiniteSet(Having(q) \ {s}) /\ Cardinality(Having(q)) \in Nat
        /\ Cardinality(Having(q) \ {s}) = Cardinality(Having(q)) - 1
    BY <1>4, HavingFinite, FS_RemoveElement
  <1>6. ASSUME NEW p \in Programs PROVE refs'[p] = Cardinality(Having(p)')
    <2>1. refs[p] = Cardinality(Having(p))
      BY DEF ProgramsCounted
    <2>2. CASE p = q
      <3>1. Having(p)' = Having(p) \ {s}
        BY <1>1 DEF Having
      <3> QED BY <1>4, <1>5, <2>1, <2>2, <3>1 DEF TypeOK, Dispose
    <2>3. CASE p # q
      <3>1. Having(p)' = Having(p)
        BY <1>1, <2>3 DEF Having
      <3> QED BY <1>4, <2>1, <2>3, <3>1 DEF TypeOK, Dispose
    <2> QED BY <2>2, <2>3
  <1>7. ASSUME NEW p \in Programs, p # q PROVE p \in live' <=> \E u \in Present' : program'[u] = p
    <2>1. p \in live' <=> p \in live
      BY <1>7 DEF Dispose
    <2> QED BY <1>1, <1>2, <1>7, <2>1 DEF ProgramsCounted, Present
  <1>8. q \in live' <=> \E u \in Present' : program'[u] = q
    <2>1. q \in live' <=> refs[q] # 1
      BY <1>4 DEF Dispose
    <2>2. refs[q] = 1 <=> Having(q) \ {s} = {}
      BY <1>4, <1>5, FS_EmptySet
    <2>3. ASSUME NEW u \in Having(q) \ {s} PROVE u \in Present' /\ program'[u] = q
      BY <1>1, <1>2 DEF Having, Present
    <2>4. ASSUME NEW u \in Present', program'[u] = q PROVE Having(q) \ {s} # {}
      <3>1. u \in Snapshots \ {s} /\ phase[u] \in {"building", "made"} /\ program[u] = q
        BY <1>1, <1>2, <2>4 DEF Present, TypeOK
      <3>2. CASE phase[u] = "made"
        BY <3>1, <3>2 DEF Having
      <3>3. CASE phase[u] = "building"
        <4>1. program[u] = program[parent[u]]
          BY <1>2, <3>1, <3>3 DEF ProgramsCounted
        <4>2. parent[u] \in Having(q) \ {s}
          BY <1>3, <3>1, <3>3, <4>1, ParentHeld DEF Having
        <4> QED BY <4>2
      <3> QED BY <3>1, <3>2, <3>3
    <2> QED BY <2>1, <2>2, <2>3, <2>4
  <1>9. ASSUME NEW u \in Snapshots, phase'[u] = "building"
        PROVE  \/ program'[u] = program'[parent'[u]]
               \/ \A t \in Present' : program'[t] = program'[u] => t = u
    <2>1. u # s /\ phase[u] = "building" /\ parent[u] \in Snapshots \ {s}
      BY <1>1, <1>3, <1>9
    <2> QED BY <1>1, <1>2, <2>1 DEF ProgramsCounted, Present
  <1> QED BY <1>6, <1>7, <1>8, <1>9 DEF ProgramsCounted

\* Programs are counted whatever happens.
LEMMA ProgramsStep ==
    ASSUME IInv, [Next]_vars
    PROVE  ProgramsCounted'
  <1> USE DEF IInv, Updating, SnapStates, sessVars, muVars, snapVars, callVars, taskVars
  <1>1. CASE UNCHANGED <<phase, parent, program, refs, live>>
    BY <1>1 DEF ProgramsCounted, Having, Present
  <1>2. ASSUME NEW c \in Calls, BeginUpdate(c) PROVE ProgramsCounted'
    BY <1>2, BeginClonePrograms DEF BeginUpdate, TypeOK, HeldMade
  <1>3. ASSUME NEW c \in Calls, BeginAutoImports(c) PROVE ProgramsCounted'
    BY <1>3, BeginClonePrograms, Pointers DEF BeginAutoImports, HeldMade
  <1>4. ASSUME NEW t \in Snapshots, WarmBegin(t) PROVE ProgramsCounted'
    <2>1. phase[t] = "made"
      BY <1>4, NotMade DEF WarmBegin, TypeOK
    <2> QED BY <1>4, <2>1, BeginClonePrograms DEF WarmBegin
  <1>5. ASSUME NEW c \in Calls, EndUpdate(c) \/ RejectUpdate(c) PROVE ProgramsCounted'
    BY <1>5, EndClonePrograms, Pointers DEF EndUpdate, RejectUpdate, Built
  <1>6. ASSUME NEW c \in Calls, EndAutoImports(c) \/ NoProjectForClone(c) PROVE ProgramsCounted'
    BY <1>6, EndClonePrograms, Pointers DEF EndAutoImports, NoProjectForClone, Built
  <1>7. ASSUME NEW t \in Snapshots, WarmEnd(t) PROVE ProgramsCounted'
    BY <1>7, EndClonePrograms, Pointers DEF WarmEnd, Built
  <1>8. ASSUME NEW c \in Calls,
               \/ Flush(c) \/ DidOpenFile(c) \/ RefCurrent(c) \/ SkipUpdate(c) \/ TakeCurrent(c)
               \/ ReleaseRejected(c) \/ Return(c)
        PROVE  UNCHANGED <<phase, parent, program, refs, live>>
    BY <1>8 DEF Flush, DidOpenFile, RefCurrent, SkipUpdate, TakeCurrent, ReleaseRejected, Return
  <1>9. ASSUME NEW t \in Snapshots,
               WarmTooLate(t) \/ WarmCanceled(t) \/ WarmAdopt(t) \/ WarmLeave(t)
        PROVE  UNCHANGED <<phase, parent, program, refs, live>>
    BY <1>9 DEF WarmTooLate, WarmCanceled, WarmAdopt, WarmLeave, AdoptOrRelease
  <1>10. DidChangeFile \/ Configure \/ UNCHANGED vars \/ (\E a \in adopts : Adopt(a)) =>
           UNCHANGED <<phase, parent, program, refs, live>>
    BY DEF DidChangeFile, Configure, vars, Adopt, AdoptOrRelease
  <1> QED BY <1>1, <1>2, <1>3, <1>4, <1>5, <1>6, <1>7, <1>8, <1>9, <1>10, DisposePrograms
          DEF Next, UpdateStep, RequestStep, WarmStep

------------------------------------------------------------------------------
(* Files *)

\* The client's changes move from the pending ones to a call and on to the current
\* snapshot, and no step loses any.
LEMMA FilesStep ==
    ASSUME IInv, [Next]_vars
    PROVE  FilesTracked'
  <1> USE SnapshotsAssumption, Pointers
      DEF IInv, Updating, Locking, Warming, SnapStates, sessVars, muVars, snapVars, callVars,
          taskVars
  <1>0. CASE UNCHANGED vars \/ Configure
    BY <1>0 DEF FilesTracked, Configure, vars
  <1>1. CASE DidChangeFile
    <2>1. (IF updateMu = Nil THEN 0 ELSE flushed[updateMu].files) \in Nat
      BY DEF TypeOK
    <2>2. files[current] \in Nat /\ pendingFiles \in Nat /\ written \in Nat
      BY DEF TypeOK
    <2>3. files'[current'] + pendingFiles' + (IF updateMu' = Nil THEN 0 ELSE flushed'[updateMu'].files)
            = written'
      BY <1>1, <2>1, <2>2 DEF FilesTracked, DidChangeFile
    <2> QED BY <1>1, <2>3 DEF FilesTracked, DidChangeFile
  <1>2. ASSUME NEW c \in Calls, Flush(c) PROVE FilesTracked'
    BY <1>2 DEF TypeOK, CallsWellFormed, TasksWellFormed, HeldMade, Built, FilesTracked, Flush
  <1>3. ASSUME NEW c \in Calls, DidOpenFile(c) PROVE FilesTracked'
    BY <1>3 DEF TypeOK, CallsWellFormed, TasksWellFormed, HeldMade, Built, FilesTracked, DidOpenFile
  <1>4. ASSUME NEW c \in Calls, RefCurrent(c) PROVE FilesTracked'
    BY <1>4 DEF TypeOK, CallsWellFormed, TasksWellFormed, HeldMade, Built, FilesTracked, RefCurrent
  <1>5. ASSUME NEW c \in Calls, SkipUpdate(c) PROVE FilesTracked'
    BY <1>5 DEF TypeOK, CallsWellFormed, TasksWellFormed, HeldMade, Built, FilesTracked,
       SkipUpdate, NoChanges
  <1>6. ASSUME NEW c \in Calls, TakeCurrent(c) PROVE FilesTracked'
    BY <1>6 DEF TypeOK, CallsWellFormed, TasksWellFormed, HeldMade, Built, FilesTracked,
       TakeCurrent, NoChanges
  <1>7. ASSUME NEW c \in Calls, BeginUpdate(c) PROVE FilesTracked'
    <2>1. PICK s \in Snapshots : BeginClone(s, current, Changes(c)) /\ snap' = [snap EXCEPT ![c] = s]
      BY <1>7 DEF BeginUpdate
    <2>2. current \in Snapshots
      BY <1>7 DEF TypeOK, BeginUpdate
    <2>3. /\ Unused(s) /\ s # current /\ files'[s] = files[current] + flushed[c].files
          /\ \A u \in Snapshots : u # s => files'[u] = files[u] /\ phase'[u] = phase[u]
      BY <1>7, <2>1, <2>2, ChangesType, NoChangesType
      DEF TypeOK, BeginClone, Unused, HeldMade, BeginUpdate
    <2> QED BY <1>7, <2>1, <2>2, <2>3
            DEF Unused, TypeOK, CallsWellFormed, TasksWellFormed, HeldMade, Built, FilesTracked,
                BeginUpdate
  <1>8. ASSUME NEW c \in Calls, EndUpdate(c) PROVE FilesTracked'
    <2>1. updateMu = c /\ updateMu' = Nil /\ current' = snap[c] /\ snap[c] \in Snapshots
      BY <1>8 DEF CallsWellFormed, EndUpdate
    <2>2. /\ files[current] \in Nat /\ pendingFiles \in Nat /\ flushed[c].files \in Nat
          /\ UNCHANGED <<files, pendingFiles, written, clone, adopts, child>>
      BY <1>8 DEF TypeOK, EndUpdate, EndClone
    <2>3. files'[current'] + pendingFiles' = written'
      BY <1>8, <2>1, <2>2 DEF FilesTracked, EndUpdate
    <2>4. \A d \in Calls : /\ pc'[d] \notin Updating
                           /\ pc'[d] = "auto" => d # c /\ pc[d] = "auto" /\ snap'[d] = snap[d]
      BY <1>8 DEF TypeOK, CallsWellFormed, EndUpdate
    <2>5. \A t \in Snapshots : warm'[t] \in {"cloning", "cloned"} => warm[t] \in {"cloning", "cloned"}
      BY <1>8 DEF TypeOK, EndUpdate
    <2>6. \A a \in adopts : phase'[a[1]] = "made" => phase[a[1]] = "made"
      BY <1>8, <2>1 DEF TypeOK, HeldMade, Built, EndUpdate, EndClone
    <2> QED BY <2>1, <2>2, <2>3, <2>4, <2>5, <2>6 DEF FilesTracked
  <1>9. ASSUME NEW c \in Calls, RejectUpdate(c) PROVE FilesTracked'
    BY <1>9 DEF TypeOK, CallsWellFormed, TasksWellFormed, HeldMade, Built, FilesTracked,
       RejectUpdate, EndClone
  <1>10. ASSUME NEW c \in Calls, ReleaseRejected(c) PROVE FilesTracked'
    BY <1>10 DEF TypeOK, CallsWellFormed, TasksWellFormed, HeldMade, Built, FilesTracked,
       ReleaseRejected
  <1>11. ASSUME NEW c \in Calls, BeginAutoImports(c) PROVE FilesTracked'
    <2>1. PICK s \in Snapshots : BeginClone(s, snap[c], NoChanges) /\ clone' = [clone EXCEPT ![c] = s]
      BY <1>11 DEF BeginAutoImports
    <2>2. snap[c] \in Snapshots
      BY <1>11 DEF TypeOK, BeginAutoImports
    <2>3. /\ Unused(s) /\ s # snap[c] /\ files'[s] = files[snap[c]] + 0
          /\ \A u \in Snapshots : u # s => files'[u] = files[u] /\ phase'[u] = phase[u]
      BY <1>11, <2>1, <2>2, ChangesType, NoChangesType
      DEF TypeOK, BeginClone, Unused, HeldMade, BeginAutoImports
    <2> QED BY <1>11, <2>1, <2>2, <2>3
            DEF Unused, TypeOK, CallsWellFormed, TasksWellFormed, HeldMade, Built, FilesTracked,
                BeginAutoImports
  <1>12. ASSUME NEW c \in Calls, EndAutoImports(c) PROVE FilesTracked'
    BY <1>12 DEF TypeOK, CallsWellFormed, TasksWellFormed, HeldMade, Built, FilesTracked,
       EndAutoImports, EndClone
  <1>13. ASSUME NEW c \in Calls, NoProjectForClone(c) PROVE FilesTracked'
    BY <1>13 DEF TypeOK, CallsWellFormed, TasksWellFormed, HeldMade, Built, FilesTracked,
       NoProjectForClone, EndClone
  <1>14. ASSUME NEW c \in Calls, Return(c) PROVE FilesTracked'
    BY <1>14 DEF TypeOK, CallsWellFormed, TasksWellFormed, HeldMade, Built, FilesTracked, Return
  <1>15. ASSUME NEW t \in Snapshots, Dispose(t) PROVE FilesTracked'
    BY <1>15, HolderCounted
    DEF TypeOK, CallsWellFormed, TasksWellFormed, HeldMade, Built, FilesTracked, Dispose
  <1>16. ASSUME NEW t \in Snapshots, WarmTooLate(t) PROVE FilesTracked'
    BY <1>16 DEF TypeOK, CallsWellFormed, TasksWellFormed, HeldMade, Built, FilesTracked,
       WarmTooLate
  <1>17. ASSUME NEW t \in Snapshots, WarmBegin(t) PROVE FilesTracked'
    <2>1. PICK s \in Snapshots : BeginClone(s, t, NoChanges) /\ child' = [child EXCEPT ![t] = s]
      BY <1>17 DEF WarmBegin
    <2>3. /\ Unused(s) /\ s # t /\ files'[s] = files[t] + 0
          /\ \A u \in Snapshots : u # s => files'[u] = files[u] /\ phase'[u] = phase[u]
      BY <1>17, <2>1, ChangesType, NoChangesType DEF TypeOK, BeginClone, Unused, HeldMade, WarmBegin
    <2> QED BY <1>17, <2>1, <2>3
            DEF Unused, TypeOK, CallsWellFormed, TasksWellFormed, HeldMade, Built, FilesTracked,
                WarmBegin
  <1>18. ASSUME NEW t \in Snapshots, WarmEnd(t) PROVE FilesTracked'
    BY <1>18 DEF TypeOK, CallsWellFormed, TasksWellFormed, HeldMade, Built, FilesTracked, WarmEnd,
       EndClone
  <1>19. ASSUME NEW t \in Snapshots, WarmCanceled(t) PROVE FilesTracked'
    BY <1>19 DEF TypeOK, CallsWellFormed, TasksWellFormed, HeldMade, Built, FilesTracked,
       WarmCanceled
  <1>20. ASSUME NEW t \in Snapshots, WarmAdopt(t) PROVE FilesTracked'
    BY <1>20 DEF TypeOK, CallsWellFormed, TasksWellFormed, HeldMade, Built, FilesTracked,
       WarmAdopt, AdoptOrRelease
  <1>21. ASSUME NEW t \in Snapshots, WarmLeave(t) PROVE FilesTracked'
    BY <1>21 DEF TypeOK, CallsWellFormed, TasksWellFormed, HeldMade, Built, FilesTracked, WarmLeave
  <1>22. ASSUME NEW a \in adopts, Adopt(a) PROVE FilesTracked'
    BY <1>22 DEF TypeOK, CallsWellFormed, TasksWellFormed, HeldMade, Built, FilesTracked, Adopt,
       AdoptOrRelease
  <1> QED BY <1>0, <1>1, <1>2, <1>3, <1>4, <1>5, <1>6, <1>7, <1>8, <1>9, <1>10, <1>11, <1>12,
             <1>13, <1>14, <1>15, <1>16, <1>17, <1>18, <1>19, <1>20, <1>21, <1>22
          DEF Next, UpdateStep, RequestStep, WarmStep

------------------------------------------------------------------------------
(* Theorems *)

\* A new session has one snapshot, which it holds itself.
LEMMA InitInv == Init => IInv
  <1> SUFFICES ASSUME Init PROVE IInv
    OBVIOUS
  <1> USE SnapshotsAssumption DEF Init
  <1>1. TypeOK
    BY DEF TypeOK, PCs, WarmStates, NoChanges, NoPrefs
  <1>2. CallsWellFormed /\ TasksWellFormed
    BY DEF CallsWellFormed, TasksWellFormed, Updating, Locking, SnapStates
  <1>3. ASSUME NEW s \in Snapshots PROVE refCount[s] = Holders(s)
    <2>1. SnapHolders(s) = {} /\ CloneHolders(s) = {} /\ AdoptHolders(s) = {} /\ ChildHolders(s) = {}
      BY DEF SnapHolders, CloneHolders, AdoptHolders, ChildHolders, SnapStates
    <2> QED BY <2>1, FS_EmptySet DEF Holders
  <1>4. HeldMade /\ Built /\ HasBuilder /\ NotWarmed /\ Distinct
    BY DEF HeldMade, Built, HasBuilder, NotWarmed, Distinct, Updating, SnapStates, Warming
  <1>5. \A p \in Programs : refs[p] = Cardinality(Having(p))
    <2>1. Having(FirstProgram) = {First}
      BY DEF Having
    <2>2. \A p \in Programs : p # FirstProgram => Having(p) = {}
      BY DEF Having
    <2> QED BY <2>1, <2>2, FS_EmptySet, FS_Singleton
  <1>6. ProgramsCounted
    BY <1>5 DEF ProgramsCounted, Present
  <1>7. FilesTracked
    BY DEF FilesTracked, Updating
  <1> QED BY <1>1, <1>2, <1>3, <1>4, <1>6, <1>7 DEF IInv, Counted

\* IInv is an invariant: every step keeps each of its parts.
THEOREM Inductive == Spec => []IInv
  <1>1. IInv /\ [Next]_vars => IInv'
    BY TypeStep, CallsStep, TasksStep, CountedStep, HeldStep, BuiltStep, HasBuilderStep,
       NotWarmedStep,
       DistinctStep, ProgramsStep, FilesStep
    DEF IInv
  <1> QED BY InitInv, <1>1, PTL DEF Spec

\* References to snapshots are counted exactly, for any number of requests, API updates,
\* adoptions and warming tasks (Snapshot.ref, Deref, tryRef): no snapshot is disposed of
\* while somebody has a reference to it, none is released twice and none is leaked.
THEOREM SnapshotsRefsExact == Spec => []RefsExact
  <1>1. IInv => RefsExact
    BY NotMade DEF IInv, Counted, RefsExact
  <1> QED BY Inductive, <1>1, PTL

\* The programs whose files and checker pool are held are those of the snapshots that are
\* not disposed of (programCounter.Ref, Deref): none is released while a snapshot has it or
\* is cloned from one that has it, and none outlives its last snapshot.
THEOREM SnapshotsProgramsLive == Spec => []ProgramsLive
  <1>1. IInv => ProgramsLive
    <2> SUFFICES ASSUME IInv PROVE ProgramsLive
      OBVIOUS
    <2>1. live = {program[s] : s \in {t \in Snapshots : phase[t] # "none"}}
      BY DEF IInv, TypeOK, ProgramsCounted, Present
    <2> QED BY <2>1, ParentHeld DEF ProgramsLive
  <1> QED BY Inductive, <1>1, PTL

\* Whatever clones are adopted, rejected or released in between, the current snapshot and
\* the pending changes hold all changes of the client whenever no call is updating
\* (updateSnapshot, adoptSnapshotChange, APIUpdate).
THEOREM SnapshotsFilesNotLost == Spec => []FilesNotLost
  <1>1. IInv => FilesNotLost
    BY DEF IInv, TypeOK, FilesTracked, FilesNotLost
  <1> QED BY Inductive, <1>1, PTL
=============================================================================
