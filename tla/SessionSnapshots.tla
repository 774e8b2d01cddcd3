-------------------------- MODULE SessionSnapshots --------------------------
(***************************************************************************)
(* The language server's snapshots: which one is current, who holds        *)
(* references to them, when they are disposed of, and how the changes of   *)
(* the client get into them (internal/project/session.go, snapshot.go,     *)
(* snapshothost.go, programcounter.go, api.go).                            *)
(*                                                                         *)
(* The actors are calls (request handlers, API updates, notifications),    *)
(* and background tasks that warm the auto-import cache of a snapshot or   *)
(* adopt a clone as the session's snapshot.  snapshotUpdateMu serialises   *)
(* the calls' updates; snapshotMu protects the current snapshot and is     *)
(* held throughout the cloning of an update, but not by the clones of      *)
(* handlers and background tasks.                                          *)
(*                                                                         *)
(* A snapshot is abstracted to the number of file changes in it, the       *)
(* version of the user preferences, and one program.  ATA changes travel   *)
(* like file changes.                                                      *)
(***************************************************************************)
EXTENDS Integers, FiniteSets

CONSTANTS
    Calls,        \* goroutines that serve requests and notifications
    Kind,         \* call |-> what it is
    Snapshots,    \* identities of snapshots
    First,        \* the snapshot of a new session
    Programs,     \* identities of programs
    FirstProgram,
    MaxChanges,   \* bound: file changes made by the client
    MaxPrefs,     \* bound: changes of the user preferences
    Nil

(***************************************************************************)
(*   "request"   uses a snapshot, with a reference of its own              *)
(*   "api"       APIUpdate, which returns a snapshot and may fail          *)
(*   "open"      textDocument/didOpen                                      *)
(*   "timer"     a scheduled snapshot update or idle cleaning              *)
(*   "publish"   publishGlobalDiagnostics                                  *)
(***************************************************************************)
Kinds == {"request", "api", "open", "timer", "publish"}

ASSUME CallsAssumption ==
    Kind \in [Calls -> Kinds] /\ IsFiniteSet(Calls) /\ IsFiniteSet(Snapshots)
ASSUME SnapshotsAssumption ==
    /\ First \in Snapshots /\ FirstProgram \in Programs
    /\ Nil \notin Calls \union Snapshots \union Programs
ASSUME BoundsAssumption == MaxChanges \in Nat /\ MaxPrefs \in Nat

VARIABLES
    current,      \* Session.snapshot
    snapshotMu,   \* the call that has snapshotMu locked, or Nil
    updateMu,     \* the call that has snapshotUpdateMu locked, or Nil
    pendingFiles, \* number of file changes that wait to be flushed
    pendingPrefs, \* pendingUserConfigChanges
    prefs,        \* version of workspaceUserPreferences
    refCount,     \* snapshot |-> its reference count
    phase,        \* snapshot |-> "none" (or disposed of), "building" or "made"
    parent,       \* snapshot |-> the one it is being cloned from, or Nil
    files,        \* snapshot |-> number of file changes in it
    userPrefs,    \* snapshot |-> version of the preferences in it
    program,      \* snapshot |-> its program
    refs,         \* programCounter: program |-> number of references
    live,         \* programs whose files and checker pool are not released
    pc,           \* call |-> control point
    snap,         \* call |-> the snapshot it builds or holds
    clone,        \* call |-> the auto-import clone it builds or works with
    flushed,      \* call |-> the changes it flushed
    adopts,       \* queued adoptions: pairs of base and clone
    warm,         \* snapshot |-> state of the task that warms its auto-import cache
    child,        \* snapshot |-> the clone made by that task
    written       \* number of file changes the client has made

sessVars == <<current, pendingFiles, pendingPrefs, prefs, written>>
muVars == <<snapshotMu, updateMu>>
snapVars == <<refCount, phase, parent, files, userPrefs, program, refs, live>>
callVars == <<pc, snap, clone, flushed>>
taskVars == <<adopts, warm, child>>
vars == <<sessVars, muVars, snapVars, callVars, taskVars>>

(***************************************************************************)
(*   "idle"      not running                                               *)
(*   "flushed"   has locked snapshotUpdateMu and flushed pending changes   *)
(*   "update"    builds a snapshot in updateSnapshot                       *)
(*   "rejected"  the API request failed; has the rejected snapshot         *)
(*   "again"     the rejected snapshot is released, the host had changes   *)
(*   "reupdate"  builds a snapshot with the host's changes                 *)
(*   "held"      works with a snapshot it has a reference to               *)
(*   "auto"      clones that snapshot for auto-imports                     *)
(*   "clone"     works with the clone                                      *)
(*   "error"     could not use the clone                                   *)
(***************************************************************************)
PCs == {"idle", "flushed", "update", "rejected", "again", "reupdate", "held", "auto", "clone", "error"}
WarmStates == {"none", "queued", "cloning", "cloned", "leaving"}
NoPrefs == 0
NoChanges == [files |-> 0, prefs |-> NoPrefs]

Init ==
    /\ current = First
    /\ snapshotMu = Nil /\ updateMu = Nil
    /\ pendingFiles = 0 /\ pendingPrefs = FALSE /\ prefs = 0 /\ written = 0
    /\ refCount = [s \in Snapshots |-> IF s = First THEN 1 ELSE 0]
    /\ phase = [s \in Snapshots |-> IF s = First THEN "made" ELSE "none"]
    /\ parent = [s \in Snapshots |-> Nil]
    /\ files = [s \in Snapshots |-> 0]
    /\ userPrefs = [s \in Snapshots |-> 0]
    /\ program = [s \in Snapshots |-> FirstProgram]
    /\ refs = [p \in Programs |-> IF p = FirstProgram THEN 1 ELSE 0]
    /\ live = {FirstProgram}
    /\ pc = [c \in Calls |-> "idle"]
    /\ snap = [c \in Calls |-> Nil]
    /\ clone = [c \in Calls |-> Nil]
    /\ flushed = [c \in Calls |-> NoChanges]
    /\ adopts = {}
    /\ warm = [s \in Snapshots |-> "none"]
    /\ child = [s \in Snapshots |-> Nil]

------------------------------------------------------------------------------
(* Snapshots *)

\* Identities are used again once nobody knows them any more.
Unused(s) ==
    /\ phase[s] = "none" /\ refCount[s] = 0
    /\ warm[s] = "none" /\ s # current
    /\ \A c \in Calls : s \notin {snap[c], clone[c]}
    /\ \A a \in adopts : s \notin {a[1], a[2]}
    /\ \A t \in Snapshots : s \notin {parent[t], child[t]}

\* Clone begins: the new snapshot has the parent's contents and the changes d, and
\* keeps the parent's program or makes a new one.
BeginClone(s, p, d) ==
    /\ Unused(s)
    /\ phase' = [phase EXCEPT ![s] = "building"]
    /\ parent' = [parent EXCEPT ![s] = p]
    /\ files' = [files EXCEPT ![s] = files[p] + d.files]
    /\ userPrefs' = [userPrefs EXCEPT ![s] = IF d.prefs = NoPrefs THEN userPrefs[p] ELSE d.prefs]
    /\ \/ program' = [program EXCEPT ![s] = program[p]] /\ UNCHANGED live
       \/ \E q \in Programs \ live :
            program' = [program EXCEPT ![s] = q] /\ live' = live \union {q}
    /\ UNCHANGED refs

\* Mutant of EndClone: counts only programs the clone has made.
EndCloneNewOnly(s) ==
    /\ phase' = [phase EXCEPT ![s] = "made"]
    /\ parent' = [parent EXCEPT ![s] = Nil]
    /\ refs' = IF program[s] = program[parent[s]] THEN refs ELSE [refs EXCEPT ![program[s]] = @ + 1]
    /\ UNCHANGED <<files, userPrefs, program, live>>

\* Clone ends with programCounter.Ref.
EndClone(s) ==
    /\ phase' = [phase EXCEPT ![s] = "made"]
    /\ parent' = [parent EXCEPT ![s] = Nil]
    /\ refs' = [refs EXCEPT ![program[s]] = @ + 1]
    /\ UNCHANGED <<files, userPrefs, program, live>>

\* Deref took the last reference: dispose, after any delay.  The program goes with the
\* last snapshot that has it.  The contents are forgotten.
Dispose(s) ==
    /\ phase[s] = "made" /\ refCount[s] = 0
    /\ phase' = [phase EXCEPT ![s] = "none"]
    /\ refs' = [refs EXCEPT ![program[s]] = @ - 1]
    /\ live' = IF refs[program[s]] = 1 THEN live \ {program[s]} ELSE live
    /\ files' = [files EXCEPT ![s] = 0]
    /\ userPrefs' = [userPrefs EXCEPT ![s] = NoPrefs]
    /\ program' = [program EXCEPT ![s] = FirstProgram]
    /\ UNCHANGED <<refCount, parent, sessVars, muVars, callVars, taskVars>>

------------------------------------------------------------------------------
(* Changes by the client *)

DidChangeFile ==
    /\ written < MaxChanges
    /\ written' = written + 1
    /\ pendingFiles' = pendingFiles + 1
    /\ UNCHANGED <<current, pendingPrefs, prefs, muVars, snapVars, callVars, taskVars>>

Configure ==
    /\ prefs < MaxPrefs
    /\ prefs' = prefs + 1
    /\ pendingPrefs' = TRUE
    /\ UNCHANGED <<current, pendingFiles, written, muVars, snapVars, callVars, taskVars>>

------------------------------------------------------------------------------
(* Updating the session's snapshot *)

\* snapshotUpdateMu is locked and pending changes are flushed.
Flush(c) ==
    /\ pc[c] = "idle" /\ Kind[c] \in {"request", "api", "timer"}
    /\ updateMu = Nil /\ updateMu' = c
    /\ flushed' = [flushed EXCEPT ![c] = [files |-> pendingFiles,
                                              prefs |-> IF pendingPrefs THEN prefs ELSE NoPrefs]]
    /\ pendingFiles' = 0 /\ pendingPrefs' = FALSE
    /\ pc' = [pc EXCEPT ![c] = "flushed"]
    /\ UNCHANGED <<current, prefs, written, snapshotMu, snapVars, snap, clone, taskVars>>

\* DidOpenFile flushes with its own change, and leaves the preferences pending.
DidOpenFile(c) ==
    /\ pc[c] = "idle" /\ Kind[c] = "open"
    /\ written < MaxChanges /\ written' = written + 1
    /\ updateMu = Nil /\ updateMu' = c
    /\ flushed' = [flushed EXCEPT ![c] = [files |-> pendingFiles + 1, prefs |-> NoPrefs]]
    /\ pendingFiles' = 0
    /\ pc' = [pc EXCEPT ![c] = "flushed"]
    /\ UNCHANGED <<current, pendingPrefs, prefs, snapshotMu, snapVars, snap, clone, taskVars>>

\* A scheduled update has nothing to do.
SkipUpdate(c) ==
    /\ pc[c] = "flushed" /\ Kind[c] = "timer"
    /\ flushed[c] = NoChanges
    /\ pc' = [pc EXCEPT ![c] = "idle"]
    /\ updateMu' = Nil
    /\ UNCHANGED <<sessVars, snapshotMu, snapVars, snap, clone, flushed, taskVars>>

\* getSnapshot: nothing has changed and the current snapshot will do.
TakeCurrent(c) ==
    /\ pc[c] = "flushed" /\ Kind[c] = "request"
    /\ flushed[c] = NoChanges
    /\ snapshotMu = Nil
    /\ refCount' = [refCount EXCEPT ![current] = @ + 1]
    /\ snap' = [snap EXCEPT ![c] = current]
    /\ pc' = [pc EXCEPT ![c] = "held"]
    /\ updateMu' = Nil
    /\ UNCHANGED <<phase, parent, files, userPrefs, program, refs, live,
                   sessVars, snapshotMu, clone, flushed, taskVars>>

\* publishGlobalDiagnostics takes the current snapshot as it is.
RefCurrent(c) ==
    /\ pc[c] = "idle" /\ Kind[c] = "publish"
    /\ snapshotMu = Nil
    /\ refCount' = [refCount EXCEPT ![current] = @ + 1]
    /\ snap' = [snap EXCEPT ![c] = current]
    /\ pc' = [pc EXCEPT ![c] = "held"]
    /\ UNCHANGED <<phase, parent, files, userPrefs, program, refs, live,
                   sessVars, muVars, clone, flushed, taskVars>>

\* What the call puts into its SnapshotChange: an API update leaves the preferences out.
Changes(c) == IF Kind[c] = "api" THEN [flushed[c] EXCEPT !.prefs = NoPrefs] ELSE flushed[c]

\* updateSnapshot locks snapshotMu and clones the current snapshot.
BeginUpdate(c) ==
    /\ pc[c] \in {"flushed", "again"}
    /\ snapshotMu = Nil /\ snapshotMu' = c
    /\ \E s \in Snapshots :
         /\ BeginClone(s, current, Changes(c))
         /\ snap' = [snap EXCEPT ![c] = s]
    /\ pc' = [pc EXCEPT ![c] = IF @ = "flushed" THEN "update" ELSE "reupdate"]
    /\ UNCHANGED <<refCount, sessVars, updateMu, clone, flushed, taskVars>>

\* Whether the caller of updateSnapshot asks for a reference of its own.
CallerRef(c) == pc[c] = "update" /\ Kind[c] \in {"request", "api"}

\* The new snapshot becomes the current one and the old one is released; a task that
\* warms the auto-import cache is queued if one open file has changed.
EndUpdate(c) ==
    /\ pc[c] \in {"update", "reupdate"}
    /\ EndClone(snap[c])
    /\ refCount' = [refCount EXCEPT ![snap[c]] = IF CallerRef(c) THEN 2 ELSE 1,
                                    ![current] = @ - 1]
    /\ current' = snap[c]
    /\ snapshotMu' = Nil /\ updateMu' = Nil
    /\ \/ UNCHANGED warm
       \/ flushed[c].files > 0 /\ warm' = [warm EXCEPT ![snap[c]] = "queued"]
    /\ pc' = [pc EXCEPT ![c] = IF CallerRef(c) THEN "held" ELSE "idle"]
    /\ snap' = [snap EXCEPT ![c] = IF CallerRef(c) THEN @ ELSE Nil]
    /\ flushed' = [flushed EXCEPT ![c] = NoChanges]
    /\ UNCHANGED <<pendingFiles, pendingPrefs, prefs, written, clone, adopts, child>>

\* The API request failed: the snapshot is not adopted.
RejectUpdate(c) ==
    /\ pc[c] = "update" /\ Kind[c] = "api"
    /\ EndClone(snap[c])
    /\ refCount' = [refCount EXCEPT ![snap[c]] = 1]
    /\ snapshotMu' = Nil
    /\ pc' = [pc EXCEPT ![c] = "rejected"]
    /\ UNCHANGED <<sessVars, updateMu, snap, clone, flushed, taskVars>>

\* APIUpdate releases the rejected snapshot, and updates again if the host had changes.
ReleaseRejected(c) ==
    /\ pc[c] = "rejected"
    /\ refCount' = [refCount EXCEPT ![snap[c]] = @ - 1]
    /\ snap' = [snap EXCEPT ![c] = Nil]
    /\ IF flushed[c].files > 0
         THEN pc' = [pc EXCEPT ![c] = "again"] /\ UNCHANGED <<updateMu, flushed>>
         ELSE /\ pc' = [pc EXCEPT ![c] = "idle"]
              /\ flushed' = [flushed EXCEPT ![c] = NoChanges]
              /\ updateMu' = Nil
    /\ UNCHANGED <<phase, parent, files, userPrefs, program, refs, live,
                   sessVars, snapshotMu, clone, taskVars>>

------------------------------------------------------------------------------
(* Requests *)

\* The call's snapshot is cloned for auto-imports, without a lock
\* (GetLanguageServiceWithAutoImports, and handlers of the API).
BeginAutoImports(c) ==
    /\ pc[c] = "held" /\ Kind[c] # "publish"
    /\ \E s \in Snapshots :
         /\ BeginClone(s, snap[c], NoChanges)
         /\ clone' = [clone EXCEPT ![c] = s]
    /\ pc' = [pc EXCEPT ![c] = "auto"]
    /\ UNCHANGED <<refCount, sessVars, muVars, snap, flushed, taskVars>>

\* A handler of the API retains the clone, other handlers do not.
CloneRef(c) == Kind[c] = "api"

\* The clone's first reference goes to the task that adopts it.
EndAutoImports(c) ==
    /\ pc[c] = "auto"
    /\ EndClone(clone[c])
    /\ refCount' = [refCount EXCEPT ![clone[c]] = IF CloneRef(c) THEN 2 ELSE 1]
    /\ adopts' = adopts \union {<<snap[c], clone[c]>>}
    /\ pc' = [pc EXCEPT ![c] = "clone"]
    /\ UNCHANGED <<sessVars, muVars, snap, clone, flushed, warm, child>>

\* The clone has no project for the document.
NoProjectForClone(c) ==
    /\ pc[c] = "auto" /\ Kind[c] = "request"
    /\ EndClone(clone[c])
    /\ clone' = [clone EXCEPT ![c] = Nil]
    /\ pc' = [pc EXCEPT ![c] = "error"]
    /\ UNCHANGED <<refCount, sessVars, muVars, snap, flushed, taskVars>>

\* The handler returns and releases what it has references to.
Return(c) ==
    /\ pc[c] \in {"held", "clone", "error"}
    /\ refCount' = [s \in Snapshots |->
         refCount[s] - (IF s = snap[c] THEN 1 ELSE 0)
                     - (IF s = clone[c] /\ CloneRef(c) THEN 1 ELSE 0)]
    /\ pc' = [pc EXCEPT ![c] = "idle"]
    /\ snap' = [snap EXCEPT ![c] = Nil]
    /\ clone' = [clone EXCEPT ![c] = Nil]
    /\ UNCHANGED <<phase, parent, files, userPrefs, program, refs, live,
                   sessVars, muVars, flushed, taskVars>>

------------------------------------------------------------------------------
(* Background tasks *)

\* Mutant of AdoptOrRelease: adopts without comparing.
AdoptAlways(base, s) ==
    /\ snapshotMu = Nil
    /\ current' = s /\ refCount' = [refCount EXCEPT ![current] = @ - 1]
    /\ UNCHANGED <<phase, parent, files, userPrefs, program, refs, live,
                   pendingFiles, pendingPrefs, prefs, written, muVars, callVars>>

\* adoptSnapshotChange: s replaces its base if that is still the current snapshot.
AdoptOrRelease(base, s) ==
    /\ snapshotMu = Nil
    /\ IF current = base
         THEN current' = s /\ refCount' = [refCount EXCEPT ![base] = @ - 1]
         ELSE refCount' = [refCount EXCEPT ![s] = @ - 1] /\ UNCHANGED current
    /\ UNCHANGED <<phase, parent, files, userPrefs, program, refs, live,
                   pendingFiles, pendingPrefs, prefs, written, muVars, callVars>>

Adopt(a) ==
    /\ AdoptOrRelease(a[1], a[2])
    /\ adopts' = adopts \ {a}
    /\ UNCHANGED <<warm, child>>

\* warmAutoImportCache: the snapshot may be gone by now.
WarmTooLate(s) ==
    /\ warm[s] = "queued" /\ refCount[s] <= 0
    /\ warm' = [warm EXCEPT ![s] = "none"]
    /\ UNCHANGED <<sessVars, muVars, snapVars, callVars, adopts, child>>

\* Mutant of WarmBegin: clones the snapshot without a reference.
WarmBeginUnref(s) ==
    /\ warm[s] = "queued" /\ refCount[s] > 0
    /\ \E t \in Snapshots :
         /\ BeginClone(t, s, NoChanges)
         /\ child' = [child EXCEPT ![s] = t]
    /\ warm' = [warm EXCEPT ![s] = "cloning"]
    /\ UNCHANGED <<refCount, sessVars, muVars, callVars, adopts>>

\* tryRef succeeds, and the snapshot is cloned without a lock.
WarmBegin(s) ==
    /\ warm[s] = "queued" /\ refCount[s] > 0
    /\ \E t \in Snapshots :
         /\ BeginClone(t, s, NoChanges)
         /\ child' = [child EXCEPT ![s] = t]
    /\ refCount' = [refCount EXCEPT ![s] = @ + 1]
    /\ warm' = [warm EXCEPT ![s] = "cloning"]
    /\ UNCHANGED <<sessVars, muVars, callVars, adopts>>

WarmEnd(s) ==
    /\ warm[s] = "cloning"
    /\ EndClone(child[s])
    /\ refCount' = [refCount EXCEPT ![child[s]] = 1]
    /\ warm' = [warm EXCEPT ![s] = "cloned"]
    /\ UNCHANGED <<sessVars, muVars, callVars, adopts, child>>

\* A change of the client canceled the task meanwhile.
WarmCanceled(s) ==
    /\ warm[s] = "cloned"
    /\ refCount' = [refCount EXCEPT ![child[s]] = @ - 1]
    /\ warm' = [warm EXCEPT ![s] = "leaving"]
    /\ child' = [child EXCEPT ![s] = Nil]
    /\ UNCHANGED <<phase, parent, files, userPrefs, program, refs, live,
                   sessVars, muVars, callVars, adopts>>

WarmAdopt(s) ==
    /\ warm[s] = "cloned"
    /\ AdoptOrRelease(s, child[s])
    /\ warm' = [warm EXCEPT ![s] = "leaving"]
    /\ child' = [child EXCEPT ![s] = Nil]
    /\ UNCHANGED adopts

WarmLeave(s) ==
    /\ warm[s] = "leaving"
    /\ refCount' = [refCount EXCEPT ![s] = @ - 1]
    /\ warm' = [warm EXCEPT ![s] = "none"]
    /\ UNCHANGED <<phase, parent, files, userPrefs, program, refs, live,
                   sessVars, muVars, callVars, adopts, child>>

------------------------------------------------------------------------------
UpdateStep(c) ==
    \/ SkipUpdate(c) \/ TakeCurrent(c) \/ BeginUpdate(c) \/ EndUpdate(c)
    \/ RejectUpdate(c) \/ ReleaseRejected(c)
RequestStep(c) == EndAutoImports(c) \/ NoProjectForClone(c) \/ Return(c)
WarmStep(s) ==
    WarmTooLate(s) \/ WarmBegin(s) \/ WarmEnd(s) \/ WarmCanceled(s) \/ WarmAdopt(s) \/ WarmLeave(s)

Next ==
    \/ DidChangeFile \/ Configure
    \/ \E c \in Calls :
         \/ Flush(c) \/ DidOpenFile(c) \/ RefCurrent(c) \/ UpdateStep(c)
         \/ BeginAutoImports(c) \/ RequestStep(c)
    \/ \E s \in Snapshots : Dispose(s) \/ WarmStep(s)
    \/ \E a \in adopts : Adopt(a)

Spec == Init /\ [][Next]_vars

\* Goroutines are scheduled fairly and requests come to an end; nothing makes the client
\* change anything or call.
Fairness ==
    /\ \A c \in Calls : WF_vars(UpdateStep(c)) /\ WF_vars(RequestStep(c))
    /\ \A s \in Snapshots : WF_vars(Dispose(s)) /\ SF_vars(WarmStep(s))
    /\ \A s \in Snapshots : SF_vars(\E a \in adopts : a[2] = s /\ Adopt(a))

FairSpec == Spec /\ Fairness

------------------------------------------------------------------------------
(* Properties *)

\* Type invariant: the shape of every variable.
TypeOK ==
    /\ current \in Snapshots
    /\ snapshotMu \in Calls \union {Nil} /\ updateMu \in Calls \union {Nil}
    /\ pendingFiles \in Nat /\ pendingPrefs \in BOOLEAN /\ prefs \in Nat /\ written \in Nat
    /\ refCount \in [Snapshots -> Nat]
    /\ phase \in [Snapshots -> {"none", "building", "made"}]
    /\ parent \in [Snapshots -> Snapshots \union {Nil}]
    /\ files \in [Snapshots -> Nat] /\ userPrefs \in [Snapshots -> Nat]
    /\ program \in [Snapshots -> Programs]
    /\ refs \in [Programs -> Nat]
    /\ live \subseteq Programs
    /\ pc \in [Calls -> PCs]
    /\ snap \in [Calls -> Snapshots \union {Nil}]
    /\ clone \in [Calls -> Snapshots \union {Nil}]
    /\ flushed \in [Calls -> [files : Nat, prefs : Nat]]
    /\ adopts \subseteq Snapshots \X Snapshots
    /\ warm \in [Snapshots -> WarmStates]
    /\ child \in [Snapshots -> Snapshots \union {Nil}]

\* Control points at which a call has a reference to its snapshot.
SnapStates == {"rejected", "held", "auto", "clone", "error"}

\* Everybody who has to release a snapshot: the calls that work with it and those with a
\* reference to it as a clone, the adoptions of it and of a warmed clone, the task that
\* warms it, and the session.
SnapHolders(s) == {c \in Calls : snap[c] = s /\ pc[c] \in SnapStates}
CloneHolders(s) == {c \in Calls : clone[c] = s /\ pc[c] = "clone" /\ CloneRef(c)}
AdoptHolders(s) == {a \in adopts : a[2] = s}
ChildHolders(s) == {t \in Snapshots : warm[t] = "cloned" /\ child[t] = s}
Holders(s) ==
    Cardinality(SnapHolders(s)) + Cardinality(CloneHolders(s))
      + Cardinality(AdoptHolders(s)) + Cardinality(ChildHolders(s))
      + (IF warm[s] \in {"cloning", "cloned", "leaving"} THEN 1 ELSE 0)
      + (IF s = current THEN 1 ELSE 0)

\* A snapshot has exactly as many references as there are parties who will release it:
\* none is released twice, none is leaked, and ref never meets a disposed snapshot.
RefsExact ==
    /\ TypeOK
    /\ \A s \in Snapshots :
         refCount[s] = IF phase[s] = "made" THEN Holders(s) ELSE 0

\* The programs whose source files and checker pool are held are exactly those of
\* snapshots not yet disposed of: none is released under a snapshot that has it, or while
\* a snapshot is cloned from one that has it, and none outlives its last snapshot.
ProgramsLive ==
    /\ live = {program[s] : s \in {t \in Snapshots : phase[t] # "none"}}
    /\ \A s \in Snapshots : phase[s] = "building" => phase[parent[s]] = "made"

\* Adopting clones never loses what the client has changed: between updates, the current
\* snapshot and the pending changes hold all of them.
FilesNotLost == updateMu = Nil => files[current] + pendingFiles = written

\* "host changes flushed alongside it are adopted separately" (api.go:17): likewise, the
\* preferences of the current snapshot are the workspace's unless a change is pending.
PrefsNotLost == updateMu = Nil => userPrefs[current] = prefs \/ pendingPrefs

\* "If a handler is still using the snapshot, its own ref keeps it alive"
\* (session.go:1323): the snapshot a handler works with is not disposed of.
HandlerKeepsAlive ==
    \A c \in Calls :
        /\ pc[c] = "held" => refCount[snap[c]] > 0
        /\ pc[c] = "clone" => refCount[clone[c]] > 0

\* A snapshot that is not the session's any more is disposed of in the end.
OldDisposed ==
    \A s \in Snapshots : []<>(phase[s] # "made" \/ s = current)
=============================================================================
