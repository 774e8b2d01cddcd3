-------------------------- MODULE WatchModeProofs --------------------------
(***************************************************************************)
(* Proofs about WatchMode, for any files, directories, imports, edits and  *)
(* faults: what is watched, and what is built from the edits that do not   *)
(* slip.                                                                   *)
(***************************************************************************)
EXTENDS WatchMode, FiniteSetTheorems, TLAPS

\* The types; versions and times are numbers that no edit has used yet.
Versions == 0 .. MaxEdits + 1
Typed ==
    /\ edits \in 0 .. MaxEdits /\ lastId \in Nat /\ closing \in Nat
    /\ disk \in [Files -> Versions] /\ cache \in [Files -> Versions]
    /\ program \in [Files -> Versions]
    /\ conf \in [time : Nat, content : Nat] /\ conf.time <= edits + 1
    /\ configMtime \in Nat /\ configMtime <= edits + 1
    /\ config \in [content : Nat, fileNames : SUBSET Matching]
    /\ inflight \subseteq Paths /\ changed \subseteq Paths /\ batch \subseteq Paths
    /\ seenFiles \subseteq Paths /\ todo \subseteq Files
    /\ alive \subseteq Dirs /\ watched \in [Dirs -> 0 .. lastId] /\ slipped \subseteq Paths
    /\ pc \in {"idle", "recheckTsConfig", "events", "doBuild", "choose", "fastEnd",
               "read", "reconcile"}

\* A watch that is kept is alive, or its end is yet to be handled.
EndsHandled == \A d \in Dirs : watched[d] # 0 /\ d \notin alive => <<d, watched[d]>> \in terminated

\* A watch is kept for the directories of the config, of the files it includes, and of
\* what the last build has looked for.
Looked == {Config} \union Matching \union seenFiles
Covered == \A p \in Looked : watched[DirOf[p]] # 0

\* If not, a handler that has forgotten a watch is about to ask for a full rebuild, or it
\* has been asked for.
Safe == closing > 0 \/ overflow \/ Covered

\* What else makes a full build sure, from step to step of a cycle: errors in the config,
\* overflow that has been drained, and the flags that keep the cycle from ending early and
\* from the fast path.
Forced == forceFullRebuild \/ configModified \/ ~programReady
Due ==
    \/ pc = "idle" /\ configHasErrors
    \/ pc = "recheckTsConfig" /\ (configHasErrors \/ lost)
    \/ pc = "events" /\ (lost \/ configModified)
    \/ pc \in {"doBuild", "choose"} /\ Forced

\* That may excuse a missing watch; a full build makes the watches in the end.
Excused == Safe \/ Due \/ pc \in {"read", "reconcile"}

\* The flags do not outlive their reason.
Flagged ==
    /\ pc = "idle" /\ Forced => overflow \/ configHasErrors
    /\ pc = "recheckTsConfig" /\ Forced => lost \/ configHasErrors
    /\ pc = "events" /\ Forced => lost \/ configModified
    /\ pc = "fastEnd" => ~Forced
    /\ pc \in {"read", "reconcile"} => programReady
    /\ pc \notin {"idle", "recheckTsConfig"} => ~configHasErrors

\* The program has files that were looked for, each for a reason: the config includes it or
\* a file of the program imports it.  What the files of the program import was looked for.
Founded ==
    /\ InProgram \union todo \subseteq seenFiles
    /\ \A f \in todo : program[f] = 0
    /\ pc # "read" => todo = {}
    /\ \A f \in InProgram : Imports[f] \subseteq seenFiles
    /\ \A f \in seenFiles \ {Config} : f \in Matching \/ \E g \in InProgram : f \in Imports[g]

\* Nothing is in the program that cannot be reached within it.
Closed(F) ==
    /\ Matching \intersect InProgram \subseteq F
    /\ \A g \in F \intersect InProgram : Imports[g] \intersect InProgram \subseteq F
Reachable == \A F \in SUBSET Files : Closed(F) => InProgram \subseteq F

\* The program is made with the parsed config, or a full build will be.
BuiltWith ==
    /\ pc \in {"read", "reconcile"} => builtWith = config.content
    /\ builtWith = config.content \/ configModified \/ ~programReady

IInv == Typed /\ EndsHandled /\ Excused /\ Flagged /\ Founded /\ Reachable /\ BuiltWith

------------------------------------------------------------------------------
(* What follows the edits, but for those that slip *)

Coming(p) == p \in inflight \union changed
Pending(p) == Coming(p) \/ (pc \in {"recheckTsConfig", "events"} /\ p \in batch)

\* A full build is sure to follow.
Renewed == overflow \/ closing > 0 \/ terminated # {} \/ Due

\* Until then the program has the files in the versions of the disk, or the event of an edit
\* is yet to come, or has evicted the file.
Current ==
    \A f \in seenFiles \ ({Config} \union todo) :
        \/ program[f] = disk[f] \/ Pending(f) \/ f \in slipped
        \/ pc \in {"doBuild", "choose"} /\ f \in Missing

\* Every file that the config includes was looked for, or the event of its creation is yet
\* to come.
Included == \A f \in FileNames : f \in seenFiles \/ Pending(f) \/ f \in slipped

Tracked == Renewed \/ (Current /\ Included)

\* Names of files looked up in this cycle still serve NewProgram.
NamesKept ==
    pc = "choose" /\ (reloaded \/ watchSetDirty) =>
        overflow \/ \A f \in FileNames : f \in config.fileNames \/ Coming(f) \/ f \in slipped

\* The parsed config is the one on disk, or the edit has slipped, or its event is yet to
\* come and the time of the config tells.
Parsed == config.content = conf.content \/ Config \in slipped
Dated == conf.time # configMtime /\ (Coming(Config) \/ overflow)
ConfigTracked ==
    /\ pc = "idle" => Renewed \/ Coming(Config) \/ Parsed
    /\ pc \in {"idle", "recheckTsConfig"} =>
         configHasErrors \/ conf.time # configMtime \/ Parsed
    /\ pc \notin {"idle", "recheckTsConfig"} => Parsed \/ (pc = "reconcile" /\ Dated)

\* A correction of the config is noticed.
CorrectionSeen ==
    pc = "idle" /\ configHasErrors =>
        conf.content = Bad \/ Coming(Config) \/ DirOf[Config] \notin alive \/ overflow

Signaled == changed # {} => signal

Follows == Tracked /\ NamesKept /\ ConfigTracked /\ CorrectionSeen /\ Signaled

FInv == IInv /\ Follows
------------------------------------------------------------------------------
(* Types *)

LEMMA InitTyped == Init => Typed
<1> SUFFICES ASSUME Init PROVE Typed
  OBVIOUS
<1>1. MaxEdits \in Nat
  BY BoundsAssumption
<1>2. {0, 1} \subseteq Versions /\ Nothing \in [Files -> Versions]
  BY <1>1 DEF Versions, Nothing
<1>3. disk \in [Files -> Versions] /\ cache \in [Files -> Versions]
      /\ program \in [Files -> Versions]
  BY <1>2 DEF Init
<1> QED
  BY <1>1, <1>3 DEF Init, Typed, FileNames

\* Steps outside the cycle.
LEMMA WorldTyped ==
  ASSUME Typed, \/ EditConfig \/ DeliverOverflow \/ Terminated
                \/ \E f \in Files : Edit(f)
                \/ \E p \in Paths : Deliver(p)
                \/ \E d \in Dirs : Terminate(d)
                \/ \E d \in Dirs, id \in 0 .. lastId : handleWatchTerminated(d, id)
  PROVE  Typed'
<1>1. MaxEdits \in Nat /\ edits \in Nat /\ edits <= MaxEdits /\ lastId \in Nat
  BY BoundsAssumption DEF Typed
<1>2. CASE EditConfig
  <2>1. edits < MaxEdits /\ edits' = edits + 1 /\ edits + 2 \in Nat
    BY <1>1, <1>2 DEF EditConfig
  <2>2. PICK c \in {conf.content, edits + 2, Bad} : conf' = [time |-> edits + 2, content |-> c]
    BY <1>2 DEF EditConfig
  <2>3. c \in Nat
    BY <2>1 DEF Typed, Bad
  <2>4. conf' \in [time : Nat, content : Nat] /\ conf'.time <= edits' + 1
        /\ configMtime <= edits' + 1 /\ edits' \in 0 .. MaxEdits
    BY <1>1, <2>1, <2>2, <2>3 DEF Typed
  <2>5. inflight' \subseteq Paths /\ slipped' \subseteq Paths
    BY <1>2 DEF EditConfig, Reported, Paths, Typed
  <2> QED
    BY <1>2, <2>4, <2>5
    DEF EditConfig, manager, handlers, drained, cfgState, flags, built, Typed
<1>3. ASSUME NEW f \in Files, Edit(f) PROVE Typed'
  <2>1. edits < MaxEdits /\ edits' = edits + 1 /\ edits + 2 \in Versions /\ 0 \in Versions
    BY <1>1, <1>3 DEF Edit, Versions
  <2>2. disk' \in [Files -> Versions]
    BY <1>3, <2>1 DEF Edit, Typed
  <2>3. conf.time <= edits' + 1 /\ configMtime <= edits' + 1 /\ edits' \in 0 .. MaxEdits
    BY <1>1, <2>1 DEF Typed
  <2>4. inflight' \subseteq Paths /\ slipped' \subseteq Paths
    BY <1>3 DEF Edit, Reported, Paths, Typed
  <2> QED
    BY <1>3, <2>2, <2>3, <2>4
    DEF Edit, manager, handlers, drained, cfgState, flags, built, Typed
<1>4. ASSUME NEW d \in Dirs, NEW id \in 0 .. lastId, handleWatchTerminated(d, id) PROVE Typed'
  <2>1. watched' \in [Dirs -> 0 .. lastId] /\ closing' \in Nat
    BY <1>1, <1>4 DEF handleWatchTerminated, Typed
  <2> QED
    BY <1>4, <2>1 DEF handleWatchTerminated, backend, drained, cfgState, flags, built, Typed
<1>5. CASE Terminated
  <2>1. closing' \in Nat
    BY <1>5 DEF Terminated, Typed
  <2> QED
    BY <1>5, <2>1 DEF Terminated, backend, drained, cfgState, flags, built, Typed
<1>6. CASE DeliverOverflow
  BY <1>6 DEF DeliverOverflow, handlers, drained, cfgState, flags, built, Typed
<1>7. ASSUME NEW p \in Paths, Deliver(p) PROVE Typed'
  BY <1>7 DEF Deliver, handlers, drained, cfgState, flags, built, Typed
<1>8. ASSUME NEW d \in Dirs, Terminate(d) PROVE Typed'
  BY <1>8 DEF Terminate, manager, drained, cfgState, flags, built, Typed
<1> QED
  BY <1>2, <1>3, <1>4, <1>5, <1>6, <1>7, <1>8

\* Steps of the cycle.
LEMMA CycleTyped == ASSUME Typed, Cycle PROVE Typed'
<1>1. /\ MaxEdits \in Nat /\ edits \in Nat /\ lastId \in Nat /\ 0 \in Versions
      /\ FileNames \in SUBSET Matching /\ Matching \subseteq Files
  BY BoundsAssumption, FilesAssumption DEF Typed, Versions, FileNames
<1>2. Nothing \in [Files -> Versions]
  BY <1>1 DEF Nothing
<1>3. CASE DoCycle
  BY <1>3 DEF DoCycle, backend, handlers, cfgState, flags, built, Typed
<1>4. CASE recheckTsConfig
  <2>1. config' \in [content : Nat, fileNames : SUBSET Matching]
    BY <1>1, <1>4 DEF recheckTsConfig, Typed
  <2> QED
    BY <1>4, <2>1 DEF recheckTsConfig, backend, manager, handlers, drained, flags, built, Typed
<1>5. CASE events
  <2>1. cache' \in [Files -> Versions]
    <3>1. Evicted \in [Files -> Versions]
      BY <1>1 DEF Evicted, Typed
    <3> QED
      BY <1>2, <1>5, <3>1 DEF events, Typed
  <2> QED
    BY <1>5, <2>1 DEF events, backend, manager, handlers, drained, cfgState, Typed
<1>6. CASE doBuild
  <2>1. config' \in [content : Nat, fileNames : SUBSET Matching] /\ cache' \in [Files -> Versions]
    BY <1>1, <1>2, <1>6 DEF doBuild, Typed
  <2> QED
    BY <1>6, <2>1 DEF doBuild, backend, manager, handlers, drained, Typed
<1>7. CASE tryUpdateProgram
  <2>1. PICK f \in Missing : /\ program' = [program EXCEPT ![f] = disk[f]]
                             /\ cache' = [cache EXCEPT ![f] = disk[f]]
    BY <1>7 DEF tryUpdateProgram
  <2>2. program' \in [Files -> Versions] /\ cache' \in [Files -> Versions]
    BY <2>1 DEF Missing, InProgram, Typed
  <2> QED
    BY <1>7, <2>2 DEF tryUpdateProgram, backend, manager, handlers, drained, cfgState, flags,
                      Typed
<1>8. CASE fastEnd \/ StatConfig
  <2>1. configMtime' \in Nat /\ configMtime' <= edits + 1
    BY <1>8 DEF fastEnd, StatConfig, Typed
  <2> QED
    BY <1>8, <2>1 DEF fastEnd, StatConfig, backend, manager, handlers, drained, flags, built,
                      Typed
<1>9. CASE NewProgram
  <2>1. PICK names \in SUBSET Matching : /\ config' = [config EXCEPT !.fileNames = names]
                                         /\ todo' = names /\ seenFiles' = names \union {Config}
    BY <1>1, <1>9 DEF NewProgram, Typed
  <2>2. config' \in [content : Nat, fileNames : SUBSET Matching]
    BY <2>1 DEF Typed
  <2>3. todo' \subseteq Files /\ seenFiles' \subseteq Paths
    BY <1>1, <2>1 DEF Paths
  <2> QED
    BY <1>2, <1>9, <2>2, <2>3 DEF NewProgram, backend, manager, handlers, drained, Typed
<1>10. ASSUME NEW f \in Files, GetSourceFile(f) PROVE Typed'
  <2>1. program' \in [Files -> Versions] /\ cache' \in [Files -> Versions]
    BY <1>10 DEF GetSourceFile, Typed
  <2>2. todo' \subseteq Files /\ seenFiles' \subseteq Paths
    BY <1>10, FilesAssumption DEF GetSourceFile, Typed, Paths
  <2> QED
    BY <1>10, <2>1, <2>2
    DEF GetSourceFile, backend, manager, handlers, drained, cfgState, flags, Typed
<1>11. CASE Reconciled
  <2>1. watched' \in [Dirs -> 0 .. lastId'] /\ lastId' \in Nat
    BY <1>1, <1>11 DEF Reconciled, Typed
  <2>2. cache' \in [Files -> Versions]
    BY <1>1, <1>11 DEF Reconciled, Typed
  <2>3. alive' \subseteq Dirs
    <3>1. DesiredDirs \subseteq Dirs
      BY <1>1, FilesAssumption DEF DesiredDirs, Paths, Typed
    <3> QED
      BY <1>11, <3>1 DEF Reconciled, Typed
  <2> QED
    BY <1>11, <2>1, <2>2, <2>3 DEF Reconciled, handlers, drained, Typed
<1>12. CASE ReconcileFails
  <2>1. watched' \in [Dirs -> 0 .. lastId]
    BY <1>1, <1>12 DEF ReconcileFails, Typed
  <2> QED
    BY <1>12, <2>1 DEF ReconcileFails, handlers, drained, cfgState, flags, built, Typed
<1> QED
  BY <1>3, <1>4, <1>5, <1>6, <1>7, <1>8, <1>9, <1>10, <1>11, <1>12 DEF Cycle

------------------------------------------------------------------------------
(* What holds however edits are reported *)

LEMMA InitIInv == Init => IInv
<1> SUFFICES ASSUME Init PROVE IInv
  OBVIOUS
<1>1. InProgram = {} /\ todo = {} /\ seenFiles = {} /\ pc = "doBuild"
  BY DEF Init, InProgram, Nothing
<1>2. EndsHandled /\ Excused /\ Flagged /\ BuiltWith
  BY DEF Init, EndsHandled, Excused, Due, Forced, Flagged, BuiltWith
<1>3. Founded /\ Reachable
  BY <1>1 DEF Founded, Reachable
<1> QED
  BY <1>2, <1>3, InitTyped DEF IInv

\* Steps that leave the program, what was looked for and the flags alone.
LEMMA SameProgram ==
  ASSUME Founded, Reachable, BuiltWith,
         UNCHANGED <<program, seenFiles, todo, pc, builtWith, config, configModified, programReady>>
  PROVE  Founded' /\ Reachable' /\ BuiltWith'
<1>1. InProgram' = InProgram
  BY DEF InProgram
<1> QED
  BY <1>1 DEF Founded, Reachable, Closed, BuiltWith

\* Edits, events, overflows and the end of a watch.
LEMMA WorldStep ==
  ASSUME IInv, \/ EditConfig \/ DeliverOverflow
               \/ \E f \in Files : Edit(f)
               \/ \E p \in Paths : Deliver(p)
               \/ \E d \in Dirs : Terminate(d)
  PROVE  IInv'
<1>1. /\ UNCHANGED <<program, seenFiles, todo, pc, builtWith, config, configModified, programReady>>
      /\ UNCHANGED <<watched, closing, configHasErrors, lost, forceFullRebuild>>
      /\ overflow => overflow'
  BY DEF EditConfig, DeliverOverflow, Edit, Deliver, Terminate, manager, handlers, drained,
         cfgState, flags, built
<1>2. EndsHandled'
  <2>1. CASE UNCHANGED <<alive, terminated>>
    BY <1>1, <2>1 DEF IInv, EndsHandled
  <2>2. ASSUME NEW d \in Dirs, Terminate(d) PROVE EndsHandled'
    BY <1>1, <2>2 DEF Terminate, IInv, EndsHandled
  <2> QED
    BY <2>1, <2>2 DEF EditConfig, DeliverOverflow, Edit, Deliver, handlers
<1>3. (Safe => Safe') /\ (Due => Due')
  BY <1>1 DEF Safe, Covered, Looked, Due, Forced
<1>4. Excused' /\ Flagged'
  BY <1>1, <1>3 DEF IInv, Excused, Flagged, Forced
<1>5. Founded' /\ Reachable' /\ BuiltWith'
  BY <1>1, SameProgram DEF IInv
<1>6. Typed'
  BY WorldTyped DEF IInv
<1> QED
  BY <1>2, <1>4, <1>5, <1>6 DEF IInv

\* The handler of a watch that has ended forgets it and asks for a full rebuild.
LEMMA HandlerStep ==
  ASSUME IInv, \/ Terminated
               \/ \E d \in Dirs, id \in 0 .. lastId : handleWatchTerminated(d, id)
  PROVE  IInv'
<1>1. /\ UNCHANGED <<program, seenFiles, todo, pc, builtWith, config, configModified, programReady>>
      /\ UNCHANGED <<alive, configHasErrors, lost, forceFullRebuild>>
  BY DEF Terminated, handleWatchTerminated, backend, drained, cfgState, flags, built
<1>0. overflow => overflow'
  BY DEF Terminated, handleWatchTerminated
<1>2. Typed' /\ closing \in Nat
  BY WorldTyped DEF IInv, Typed
<1>3. Founded' /\ Reachable' /\ BuiltWith' /\ Flagged'
  BY <1>0, <1>1, SameProgram DEF IInv, Flagged, Forced
<1>4. CASE Terminated
  <2>1. overflow' = TRUE /\ UNCHANGED <<watched, terminated>>
    BY <1>4 DEF Terminated
  <2>2. Excused' /\ EndsHandled'
    BY <1>1, <2>1 DEF Excused, Safe, IInv, EndsHandled
  <2> QED
    BY <1>2, <1>3, <2>2 DEF IInv
<1>5. ASSUME NEW d \in Dirs, NEW id \in 0 .. lastId, handleWatchTerminated(d, id)
      PROVE  IInv'
  <2>1. closing' > 0
    BY <1>2, <1>5 DEF handleWatchTerminated
  <2>2. /\ \A e \in Dirs : watched'[e] # 0 => watched'[e] = watched[e]
        /\ watched[d] = id => watched'[d] = 0
    BY <1>5 DEF handleWatchTerminated, IInv, Typed
  <2>3. terminated' = terminated \ {<<d, id>>}
    BY <1>5 DEF handleWatchTerminated
  <2>4. EndsHandled'
    BY <1>1, <2>2, <2>3 DEF IInv, EndsHandled
  <2>5. Excused'
    BY <2>1 DEF Excused, Safe
  <2> QED
    BY <1>2, <1>3, <2>4, <2>5 DEF IInv
<1> QED
  BY <1>4, <1>5

\* The cycle up to the choice between the fast and the full build.
LEMMA BeginStep ==
  ASSUME IInv, DoCycle \/ recheckTsConfig \/ events \/ doBuild
  PROVE  IInv'
<1>1. UNCHANGED <<alive, terminated, closing, watched, program, seenFiles, todo, programReady,
                  builtWith>>
  BY DEF DoCycle, recheckTsConfig, events, doBuild, backend, manager, handlers, flags, built
<1>2. /\ pc \in {"idle", "recheckTsConfig", "events", "doBuild"}
      /\ pc' \in {"idle", "recheckTsConfig", "events", "doBuild", "choose"}
  BY DEF DoCycle, recheckTsConfig, events, doBuild
<1>3. Typed' /\ EndsHandled'
  BY <1>1, CycleTyped DEF Cycle, IInv, EndsHandled
<1>4. Founded' /\ Reachable'
  <2>1. InProgram' = InProgram
    BY <1>1 DEF InProgram
  <2> QED
    BY <1>1, <1>2, <2>1 DEF IInv, Founded, Reachable, Closed
<1>5. Covered => Covered'
  BY <1>1 DEF Covered, Looked
<1>6. CASE DoCycle
  <2>1. Excused'
    BY <1>1, <1>5, <1>6 DEF DoCycle, cfgState, IInv, Excused, Safe, Due
  <2>2. Flagged'
    BY <1>1, <1>6 DEF DoCycle, cfgState, flags, IInv, Flagged, Forced
  <2>3. BuiltWith'
    BY <1>1, <1>6 DEF DoCycle, cfgState, IInv, BuiltWith
  <2> QED
    BY <1>3, <1>4, <2>1, <2>2, <2>3 DEF IInv
<1>7. (recheckTsConfig \/ events \/ doBuild) => (Safe => Safe')
  BY <1>1, <1>5 DEF recheckTsConfig, events, doBuild, manager, Safe
<1>8. CASE recheckTsConfig
  <2>1. Excused'
    BY <1>7, <1>8 DEF recheckTsConfig, drained, IInv, Excused, Due
  <2>2. Flagged'
    <3>1. CASE pc' = "events"
      <4>1. ~configHasErrors' /\ (configHasErrors => configModified')
        <5>1. \/ ~configHasErrors /\ UNCHANGED configHasErrors
              \/ configHasErrors' = FALSE
                 /\ configModified' = (configModified \/ configHasErrors
                                         \/ config.content # conf.content)
          BY <1>8, <3>1 DEF recheckTsConfig
        <5>2. CASE ~configHasErrors /\ UNCHANGED configHasErrors
          BY <5>2
        <5>3. CASE configHasErrors' = FALSE
                   /\ configModified' = (configModified \/ configHasErrors
                                           \/ config.content # conf.content)
          BY <5>3
        <5> QED
          BY <5>1, <5>2, <5>3
      <4>2. Forced => lost \/ configHasErrors
        BY <1>8 DEF recheckTsConfig, IInv, Flagged
      <4>3. UNCHANGED <<lost, forceFullRebuild, programReady>>
        BY <1>8 DEF recheckTsConfig, drained, flags
      <4> QED
        BY <3>1, <4>1, <4>2, <4>3 DEF Flagged, Forced
    <3>2. CASE pc' = "idle"
      BY <1>8, <3>2 DEF recheckTsConfig, Flagged
    <3> QED
      BY <1>8, <3>1, <3>2 DEF recheckTsConfig
  <2>3. BuiltWith'
    <3>1. \/ config' = config /\ configModified' = configModified
          \/ /\ config'.content = conf.content
             /\ configModified' =
                  (configModified \/ configHasErrors \/ config.content # conf.content)
      BY <1>8 DEF recheckTsConfig
    <3> QED
      BY <1>1, <1>2, <1>8, <3>1 DEF recheckTsConfig, IInv, BuiltWith
  <2> QED
    BY <1>3, <1>4, <2>1, <2>2, <2>3 DEF IInv
<1>9. CASE events
  <2>1. Excused'
    BY <1>1, <1>7, <1>9 DEF events, cfgState, IInv, Excused, Due, Forced
  <2>2. Flagged'
    BY <1>1, <1>9 DEF events, cfgState, manager, IInv, Flagged, Forced
  <2>3. BuiltWith'
    BY <1>1, <1>2, <1>9 DEF events, cfgState, IInv, BuiltWith
  <2> QED
    BY <1>3, <1>4, <2>1, <2>2, <2>3 DEF IInv
<1>10. CASE doBuild
  <2>1. Excused' /\ Flagged'
    BY <1>1, <1>7, <1>10 DEF doBuild, IInv, Excused, Due, Forced, Flagged
  <2>2. config'.content = config.content
    BY <1>10 DEF doBuild, IInv, Typed
  <2>3. BuiltWith'
    BY <1>1, <1>10, <2>2 DEF doBuild, IInv, BuiltWith
  <2> QED
    BY <1>3, <1>4, <2>1, <2>3 DEF IInv
<1> QED
  BY <1>6, <1>8, <1>9, <1>10

\* The fast path replaces a file of the program.
LEMMA FastStep ==
  ASSUME IInv, tryUpdateProgram \/ fastEnd
  PROVE  IInv'
<1>1. /\ UNCHANGED <<alive, terminated, closing, overflow, watched, seenFiles, todo, builtWith>>
      /\ UNCHANGED <<config, configHasErrors, forceFullRebuild, programReady>>
      /\ pc \in {"choose", "fastEnd"} /\ pc' \in {"fastEnd", "idle"}
  BY DEF tryUpdateProgram, fastEnd, backend, manager, handlers, built, cfgState, flags
<1>2. Typed' /\ EndsHandled'
  BY <1>1, CycleTyped DEF Cycle, IInv, EndsHandled
<1>3. InProgram' = InProgram /\ \A f \in Files : program[f] = 0 => program'[f] = 0
  <2>1. CASE tryUpdateProgram
    <3>1. PICK f \in Missing : disk[f] > 0 /\ program' = [program EXCEPT ![f] = disk[f]]
      BY <2>1 DEF tryUpdateProgram
    <3>2. f \in Files /\ program[f] > 0
      BY DEF Missing, InProgram
    <3> QED
      BY <3>1, <3>2 DEF InProgram, IInv, Typed
  <2>2. CASE fastEnd
    BY <2>2 DEF fastEnd, built, InProgram
  <2> QED
    BY <2>1, <2>2
<1>4. Founded' /\ Reachable'
  BY <1>1, <1>3 DEF IInv, Typed, Founded, Reachable, Closed
<1>5. ~Forced /\ ~Forced'
  BY <1>1 DEF tryUpdateProgram, fastEnd, Fast, Forced, IInv, Flagged, cfgState
<1>6. Safe /\ Safe'
  BY <1>1, <1>5 DEF IInv, Excused, Due, Safe, Covered, Looked
<1>7. Excused' /\ Flagged' /\ BuiltWith'
  BY <1>1, <1>5, <1>6 DEF IInv, Excused, Flagged, Forced, BuiltWith
<1> QED
  BY <1>2, <1>4, <1>7 DEF IInv

\* A full build begins with the files that the config includes.
LEMMA NewProgramStep == ASSUME IInv, NewProgram PROVE IInv'
<1>1. /\ UNCHANGED <<alive, terminated, watched, configHasErrors>>
      /\ pc = "choose" /\ pc' = "read" /\ programReady' = TRUE
  BY DEF NewProgram, backend, manager, handlers
<1>2. PICK names \in SUBSET Matching : /\ config' = [config EXCEPT !.fileNames = names]
                                       /\ todo' = names /\ seenFiles' = names \union {Config}
  BY DEF NewProgram, FileNames, IInv, Typed
<1>3. program' = Nothing /\ InProgram' = {} /\ \A f \in todo' : program'[f] = 0
  BY <1>2, FilesAssumption DEF NewProgram, InProgram, Nothing
<1>4. Founded' /\ Reachable'
  BY <1>1, <1>2, <1>3 DEF Founded, Reachable
<1>5. BuiltWith'
  <2>1. builtWith' = config'.content
    BY <1>2 DEF NewProgram, IInv, Typed
  <2> QED
    BY <2>1 DEF BuiltWith
<1>6. Typed' /\ EndsHandled' /\ Excused' /\ Flagged'
  BY <1>1, CycleTyped DEF Cycle, IInv, EndsHandled, Excused, Flagged
<1> QED
  BY <1>4, <1>5, <1>6 DEF IInv

\* A file is read, and what it imports is looked for.
LEMMA GetSourceFileStep == ASSUME IInv, NEW f \in Files, GetSourceFile(f) PROVE IInv'
<1>1. /\ UNCHANGED <<alive, terminated, watched, configHasErrors, programReady, configModified>>
      /\ UNCHANGED <<config, builtWith, pc>>
      /\ pc = "read"
  BY DEF GetSourceFile, backend, manager, handlers, cfgState, flags
<1>2. Typed' /\ EndsHandled' /\ Excused' /\ Flagged' /\ BuiltWith'
  <2>1. Typed'
    BY CycleTyped DEF Cycle, IInv
  <2> QED
    BY <1>1, <2>1 DEF IInv, EndsHandled, Excused, Flagged, BuiltWith
<1> DEFINE next == IF disk[f] > 0 THEN Imports[f] \ seenFiles ELSE {}
<1>3. /\ f \in todo /\ f \in seenFiles /\ program[f] = 0 /\ f # Config
      /\ program' = [program EXCEPT ![f] = disk[f]]
      /\ todo' = (todo \ {f}) \union next /\ seenFiles' = seenFiles \union next
      /\ Imports[f] \subseteq Files
  BY FilesAssumption DEF GetSourceFile, IInv, Founded
<1>4. disk[f] \in Nat /\ program \in [Files -> Nat] /\ program' \in [Files -> Nat]
  BY <1>3 DEF IInv, Typed, Versions
<1>5. InProgram' = IF disk[f] > 0 THEN InProgram \union {f} ELSE InProgram
  BY <1>3, <1>4 DEF InProgram
<1>6. next \subseteq Files /\ \A g \in next : g \notin seenFiles
  BY <1>3
<1>7. next # {} => disk[f] > 0 /\ next \subseteq Imports[f]
  OBVIOUS
<1>8. disk[f] > 0 => Imports[f] \subseteq seenFiles'
  BY <1>3
<1> HIDE DEF next
<1>9. Founded'
  <2>1. InProgram' \union todo' \subseteq seenFiles'
    BY <1>3, <1>5 DEF IInv, Founded
  <2>2. ASSUME NEW g \in todo' PROVE program'[g] = 0
    <3>1. CASE g \in todo \ {f}
      BY <1>3, <3>1 DEF IInv, Founded, Typed
    <3>2. CASE g \in next
      <4>1. g # f /\ g \notin InProgram /\ g \in Files
        BY <1>3, <1>6, <3>2 DEF IInv, Founded
      <4> QED
        BY <1>3, <1>4, <4>1 DEF InProgram
    <3> QED
      BY <1>3, <2>2, <3>1, <3>2
  <2>3. \A g \in InProgram' : Imports[g] \subseteq seenFiles'
    BY <1>3, <1>5, <1>8 DEF IInv, Founded
  <2>4. ASSUME NEW g \in seenFiles' \ {Config}
        PROVE  g \in Matching \/ \E h \in InProgram' : g \in Imports[h]
    <3>1. CASE g \in seenFiles
      BY <1>5, <2>4, <3>1 DEF IInv, Founded
    <3>2. CASE g \in next
      BY <1>5, <1>7, <3>2
    <3> QED
      BY <1>3, <2>4, <3>1, <3>2
  <2> QED
    BY <1>1, <2>1, <2>2, <2>3, <2>4 DEF Founded
<1>10. Reachable'
  <2> SUFFICES ASSUME NEW F \in SUBSET Files, Closed(F)'
               PROVE  InProgram' \subseteq F
    BY DEF Reachable
  <2>1. InProgram \subseteq InProgram'
    BY <1>5
  <2>2. Closed(F)
    BY <2>1 DEF Closed
  <2>3. InProgram \subseteq F
    BY <2>2 DEF IInv, Reachable
  <2>4. ASSUME f \in InProgram' PROVE f \in F
    <3>1. CASE f \in Matching
      BY <2>4, <3>1 DEF Closed
    <3>2. ASSUME NEW g \in InProgram, f \in Imports[g] PROVE f \in F
      BY <2>1, <2>3, <2>4, <3>2 DEF Closed
    <3> QED
      BY <1>3, <3>1, <3>2 DEF IInv, Founded
  <2> QED
    BY <1>5, <2>3, <2>4
<1> QED
  BY <1>2, <1>9, <1>10 DEF IInv

\* When every file is read, the time of the config is taken.
LEMMA StatConfigStep == ASSUME IInv, StatConfig PROVE IInv'
<1>1. /\ UNCHANGED <<alive, terminated, watched, configHasErrors, programReady, configModified>>
      /\ UNCHANGED <<config, builtWith, program, seenFiles, todo>>
      /\ pc = "read" /\ todo = {} /\ pc' = "reconcile"
  BY DEF StatConfig, backend, manager, handlers, flags, built
<1>2. Typed'
  BY CycleTyped DEF Cycle, IInv
<1>3. EndsHandled' /\ Excused' /\ Flagged' /\ BuiltWith'
  BY <1>1 DEF IInv, EndsHandled, Excused, Flagged, BuiltWith
<1>4. Founded' /\ Reachable'
  BY <1>1 DEF IInv, Founded, Reachable, Closed, InProgram
<1> QED
  BY <1>2, <1>3, <1>4 DEF IInv

\* The build ends by making the watches that are missing; if it cannot, another is due.
LEMMA ReconcileStep == ASSUME IInv, Reconciled \/ ReconcileFails PROVE IInv'
<1>1. /\ UNCHANGED <<terminated, closing, program, seenFiles, todo, builtWith, config>>
      /\ UNCHANGED <<configHasErrors, programReady>>
      /\ pc = "reconcile" /\ pc' = "idle"
  BY DEF Reconciled, ReconcileFails, handlers, built, cfgState, flags
<1>2. Typed'
  BY CycleTyped DEF Cycle, IInv
<1>3. Founded' /\ Reachable' /\ BuiltWith'
  <2>1. InProgram' = InProgram
    BY <1>1 DEF InProgram
  <2> QED
    BY <1>1, <2>1 DEF IInv, Founded, Reachable, Closed, BuiltWith
<1>4. CASE Reconciled
  <2>1. \A p \in Looked : DirOf[p] \in DesiredDirs /\ DirOf[p] \in Dirs
    BY FilesAssumption DEF Looked, DesiredDirs, IInv, Typed, Paths
  <2>2. lastId \in Nat /\ \A d \in DesiredDirs \intersect Dirs : watched'[d] # 0
    BY <1>4 DEF Reconciled, IInv, Typed
  <2>3. Excused'
    BY <1>1, <2>1, <2>2 DEF Excused, Safe, Covered, Looked
  <2>4. EndsHandled'
    BY <1>1, <1>4 DEF Reconciled, IInv, EndsHandled
  <2>5. Flagged'
    BY <1>1, <1>4 DEF Reconciled, IInv, Flagged, Forced
  <2> QED
    BY <1>2, <1>3, <2>3, <2>4, <2>5 DEF IInv
<1>5. CASE ReconcileFails
  <2>1. overflow' = TRUE
    BY <1>5 DEF ReconcileFails
  <2>2. EndsHandled'
    BY <1>1, <1>5 DEF ReconcileFails, IInv, EndsHandled
  <2> QED
    BY <1>1, <1>2, <1>3, <2>1, <2>2 DEF IInv, Excused, Safe, Flagged
<1> QED
  BY <1>4, <1>5

LEMMA NextIInv == IInv /\ [Next]_vars => IInv'
<1> SUFFICES ASSUME IInv, [Next]_vars PROVE IInv'
  OBVIOUS
<1>1. CASE UNCHANGED vars
  <2>1. Typed' /\ EndsHandled'
    BY <1>1 DEF vars, backend, manager, handlers, drained, cfgState, flags, built, IInv, Typed,
                EndsHandled
  <2>2. Excused' /\ Flagged'
    BY <1>1 DEF vars, backend, manager, handlers, drained, cfgState, flags, built, IInv, Excused,
                Safe, Covered, Looked, Due, Forced, Flagged
  <2>3. Founded' /\ Reachable' /\ BuiltWith'
    BY <1>1, SameProgram DEF vars, cfgState, flags, built, IInv
  <2> QED
    BY <2>1, <2>2, <2>3 DEF IInv
<1>2. CASE Next
  BY <1>2, WorldStep, HandlerStep, BeginStep, FastStep, NewProgramStep, StatConfigStep,
     GetSourceFileStep, ReconcileStep DEF Next, Cycle, Backend
<1> QED
  BY <1>1, <1>2

------------------------------------------------------------------------------
\* The inductive invariant holds of every behaviour.
THEOREM Inductive == Spec => []IInv
BY InitIInv, NextIInv, PTL DEF Spec

\* When all is quiet, the directories of the config and of every file of the program are
\* watched with a live watch, however watches end while a cycle runs, whatever changes, is
\* lost or cannot be made, and whichever way the cycles have gone.
THEOREM QuietIsWatched == Spec => []WatchedWhenQuiet
<1>1. ASSUME IInv PROVE WatchedWhenQuiet
  <2> SUFFICES ASSUME Quiet, ~overflow, ~configHasErrors, NEW p \in {Config} \union InProgram
               PROVE  DirOf[p] \in alive
    BY DEF WatchedWhenQuiet
  <2>1. Covered
    BY <1>1 DEF Quiet, IInv, Typed, Excused, Safe, Due
  <2>2. p \in Looked /\ p \in Paths
    BY <1>1 DEF IInv, Founded, Looked, Paths, InProgram
  <2>3. watched[DirOf[p]] # 0 /\ DirOf[p] \in Dirs
    BY <2>1, <2>2, FilesAssumption DEF Covered, Paths
  <2> QED
    BY <1>1, <2>3 DEF Quiet, IInv, EndsHandled
<1> QED
  BY <1>1, Inductive, PTL

------------------------------------------------------------------------------
(* Edits are followed *)

\* Of a full build that is due, what a step leaves when it neither drains events nor moves
\* the cycle.
LEMMA SameRenewed ==
  ASSUME Renewed, overflow => overflow', closing' > 0 \/ ~(closing > 0) \/ overflow',
         terminated' # {} \/ terminated = {} \/ closing' > 0,
         UNCHANGED <<pc, configHasErrors, lost, configModified, forceFullRebuild, programReady>>
  PROVE  Renewed'
BY DEF Renewed, Due, Forced

\* A directory that was looked into has a live watch unless a full build is due.
LEMMA Alive ==
  ASSUME IInv, pc = "idle", ~Renewed, NEW p \in Looked
  PROVE  DirOf[p] \in alive
<1>1. Covered
  BY DEF IInv, Excused, Safe, Renewed
<1>2. watched[DirOf[p]] # 0 /\ DirOf[p] \in Dirs
  BY <1>1, FilesAssumption DEF Covered, Looked, IInv, Typed, Paths
<1>3. terminated = {}
  BY DEF Renewed
<1> QED
  BY <1>2, <1>3 DEF IInv, EndsHandled

LEMMA InitFollows == Init => Follows
<1> SUFFICES ASSUME Init PROVE Follows
  OBVIOUS
<1>1. Tracked
  BY DEF Init, Tracked, Renewed, Due, Forced
<1>2. NamesKept /\ ConfigTracked /\ CorrectionSeen /\ Signaled
  BY DEF Init, NamesKept, ConfigTracked, Parsed, CorrectionSeen, Signaled
<1> QED
  BY <1>1, <1>2 DEF Follows

\* Steps that leave the disk and the cycle alone, and lose no event.
LEMMA SameFollows ==
  ASSUME Follows, UNCHANGED <<disk, conf, program, seenFiles, todo, cache, pc, batch, slipped>>,
         UNCHANGED <<config, configMtime, configHasErrors, reloaded, watchSetDirty>>,
         inflight \union changed \subseteq (inflight \union changed)' \/ overflow',
         overflow => overflow', alive' \subseteq alive,
         Renewed => Renewed', Signaled'
  PROVE  Follows'
<1>1. (Coming(Config) => Coming(Config)' \/ overflow')
      /\ \A p \in Paths : Coming(p) => Coming(p)' \/ overflow'
  BY DEF Coming
<1>2. overflow' => Renewed'
  BY DEF Renewed
<1>3. FileNames' = FileNames /\ Missing' = Missing /\ FileNames \subseteq Paths
  BY FilesAssumption DEF FileNames, Present, Missing, InProgram, Paths
<1>4. ASSUME ~Renewed' PROVE Current' /\ Included'
  <2>1. Current /\ Included /\ ~overflow'
    BY <1>2, <1>4 DEF Follows, Tracked
  <2>2. \A p : Pending(p) => Pending(p)'
    BY <2>1 DEF Pending, Coming
  <2>3. Current'
    BY <1>3, <2>1, <2>2 DEF Current
  <2>4. Included'
    BY <1>3, <2>1, <2>2 DEF Included
  <2> QED
    BY <2>3, <2>4
<1>5. NamesKept'
  BY <1>1, <1>3 DEF Follows, NamesKept
<1>6. ConfigTracked'
  BY <1>1, <1>2 DEF Follows, ConfigTracked, Parsed, Dated
<1>7. CorrectionSeen'
  BY <1>1 DEF Follows, CorrectionSeen
<1> QED
  BY <1>4, <1>5, <1>6, <1>7 DEF Follows, Tracked

\* Events come or are lost, watches end and are forgotten.
LEMMA EventFollows ==
  ASSUME FInv, \/ DeliverOverflow \/ Terminated
               \/ \E p \in Paths : Deliver(p)
               \/ \E d \in Dirs : Terminate(d)
               \/ \E d \in Dirs, id \in 0 .. lastId : handleWatchTerminated(d, id)
  PROVE  Follows'
<1>1. /\ UNCHANGED <<disk, conf, program, seenFiles, todo, cache, pc, batch, slipped>>
      /\ UNCHANGED <<config, configMtime, configHasErrors, reloaded, watchSetDirty>>
      /\ UNCHANGED <<lost, configModified, forceFullRebuild, programReady>>
      /\ alive' \subseteq alive
  BY DEF DeliverOverflow, Terminated, Deliver, Terminate, handleWatchTerminated, backend, manager,
         handlers, drained, cfgState, flags, built
<1>2. closing \in Nat
  BY DEF FInv, IInv, Typed
<1>3. /\ overflow => overflow'
      /\ inflight \union changed \subseteq (inflight \union changed)' \/ overflow'
      /\ closing' > 0 \/ ~(closing > 0) \/ overflow'
      /\ terminated' # {} \/ terminated = {} \/ closing' > 0
      /\ signal' \/ (UNCHANGED <<changed, signal>>)
  <2>1. CASE DeliverOverflow
    BY <2>1 DEF DeliverOverflow, handlers
  <2>2. CASE Terminated
    BY <1>2, <2>2 DEF Terminated, backend
  <2>3. ASSUME NEW p \in Paths, Deliver(p) PROVE <1>3!:
    BY <2>3 DEF Deliver, handlers
  <2>4. ASSUME NEW d \in Dirs, Terminate(d) PROVE <1>3!:
    BY <2>4 DEF Terminate, manager
  <2>5. ASSUME NEW d \in Dirs, NEW id \in 0 .. lastId, handleWatchTerminated(d, id) PROVE <1>3!:
    BY <1>2, <2>5 DEF handleWatchTerminated, backend
  <2> QED
    BY <2>1, <2>2, <2>3, <2>4, <2>5
<1>4. Renewed => Renewed'
  BY <1>1, <1>3, SameRenewed
<1>5. Signaled'
  BY <1>3 DEF FInv, Follows, Signaled
<1> QED
  BY <1>1, <1>3, <1>4, <1>5, SameFollows DEF FInv

\* A file is edited: if its directory has no live watch, nobody has looked for the file, or a
\* full build is due, or the edit slips.
LEMMA EditFollows ==
  ASSUME FInv, NEW f \in Files, Edit(f)
  PROVE  Follows'
<1>1. /\ UNCHANGED <<conf, program, seenFiles, todo, cache, pc, batch, alive, changed, signal>>
      /\ UNCHANGED <<config, configMtime, configHasErrors, reloaded, watchSetDirty, overflow>>
      /\ UNCHANGED <<lost, configModified, forceFullRebuild, programReady, closing, terminated>>
      /\ inflight \subseteq inflight' /\ (DirOf[f] \in alive => f \in inflight')
      /\ slipped \subseteq slipped' /\ slipped' \subseteq slipped \union {f}
      /\ (DirOf[f] \in alive \/ pc = "idle" \/ f \in slipped')
  BY DEF Edit, Reported, Slips, manager, handlers, drained, cfgState, flags, built
<1>2. \A g \in Files \ {f} : disk'[g] = disk[g]
  BY DEF Edit, FInv, IInv, Typed
<1>3. Renewed' = Renewed
  BY <1>1 DEF Renewed, Due, Forced
<1>4. /\ Missing' = Missing /\ FileNames' \subseteq FileNames \union {f}
      /\ f \in FileNames' => f \in Matching
      /\ \A p : (Coming(p) => Coming(p)') /\ (Pending(p) => Pending(p)')
  BY <1>1, <1>2 DEF Missing, InProgram, FileNames, Present, Coming, Pending
<1>5. ASSUME ~Renewed, f \in seenFiles \union Matching PROVE Pending(f)' \/ f \in slipped'
  <2>1. f \in Looked
    BY <1>5 DEF Looked
  <2>2. DirOf[f] \in alive \/ f \in slipped'
    BY <1>1, <1>5, <2>1, Alive DEF FInv
  <2> QED
    BY <1>1, <2>2 DEF Pending, Coming
<1>6. ASSUME ~Renewed PROVE Current' /\ Included'
  <2>1. Current /\ Included
    BY <1>6 DEF FInv, Follows, Tracked
  <2>2. Current'
    <3> SUFFICES ASSUME NEW g \in seenFiles \ ({Config} \union todo)
                 PROVE  \/ program[g] = disk'[g] \/ Pending(g)' \/ g \in slipped'
                        \/ pc \in {"doBuild", "choose"} /\ g \in Missing
      BY <1>1, <1>4 DEF Current
    <3>1. CASE g = f
      BY <1>5, <1>6, <3>1
    <3>2. CASE g # f
      <4>1. g \in Files
        BY DEF FInv, IInv, Typed, Paths
      <4> QED
        BY <1>1, <1>2, <1>4, <2>1, <3>2, <4>1 DEF Current
    <3> QED
      BY <3>1, <3>2
  <2>3. Included'
    BY <1>1, <1>4, <1>5, <1>6, <2>1 DEF Included
  <2> QED
    BY <2>2, <2>3
<1>7. NamesKept'
  <2>1. pc = "choose" => Coming(f)' \/ f \in slipped'
    BY <1>1 DEF Coming
  <2> QED
    BY <1>1, <1>4, <2>1 DEF FInv, Follows, NamesKept
<1>8. ConfigTracked' /\ CorrectionSeen' /\ Signaled'
  BY <1>1, <1>3, <1>4
  DEF FInv, Follows, ConfigTracked, Parsed, Dated, CorrectionSeen, Signaled
<1> QED
  BY <1>3, <1>6, <1>7, <1>8 DEF Follows, Tracked

\* The config is edited: its time tells the next cycle, or the edit slips.
LEMMA EditConfigFollows ==
  ASSUME FInv, EditConfig
  PROVE  Follows'
<1>1. /\ UNCHANGED <<disk, program, seenFiles, todo, cache, pc, batch, alive, changed, signal>>
      /\ UNCHANGED <<config, configMtime, configHasErrors, reloaded, watchSetDirty, overflow>>
      /\ UNCHANGED <<lost, configModified, forceFullRebuild, programReady, closing, terminated>>
      /\ inflight \subseteq inflight' /\ (DirOf[Config] \in alive => Config \in inflight')
      /\ slipped' \in {slipped, slipped \union {Config}} /\ (SlipsConfig => Config \in slipped')
  BY DEF EditConfig, Reported, manager, handlers, drained, cfgState, flags, built
<1>2. conf'.time = edits + 2 /\ conf'.time # configMtime
  BY DEF EditConfig, FInv, IInv, Typed
<1>3. Renewed' = Renewed
  BY <1>1 DEF Renewed, Due, Forced
<1>4. /\ Missing' = Missing /\ FileNames' = FileNames
      /\ \A p : (Coming(p) => Coming(p)') /\ (Pending(p) => Pending(p)')
  BY <1>1 DEF Missing, InProgram, FileNames, Present, Coming, Pending
<1>5. Tracked'
  <2>1. Current => Current'
    BY <1>1, <1>4 DEF Current
  <2>2. Included => Included'
    BY <1>1, <1>4 DEF Included
  <2> QED
    BY <1>3, <2>1, <2>2 DEF FInv, Follows, Tracked
<1>6. pc = "idle" => Renewed \/ Coming(Config)'
  <2>1. Config \in Looked
    BY DEF Looked
  <2> QED
    BY <1>1, <2>1, Alive DEF FInv, Coming
<1>7. ConfigTracked'
  <2>1. pc \notin {"idle", "recheckTsConfig"} =>
          Config \in slipped' \/ (pc = "reconcile" /\ Coming(Config)')
    BY <1>1 DEF SlipsConfig, Coming, FInv, IInv, Typed
  <2> QED
    BY <1>1, <1>2, <1>3, <1>6, <2>1 DEF ConfigTracked, Parsed, Dated
<1>8. CorrectionSeen'
  BY <1>1, <1>6 DEF CorrectionSeen, Coming
<1>9. NamesKept' /\ Signaled'
  BY <1>1, <1>4 DEF NamesKept, FInv, Follows, Signaled
<1> QED
  BY <1>5, <1>7, <1>8, <1>9 DEF Follows

\* The events are drained.
LEMMA DrainFollows == ASSUME FInv, DoCycle PROVE Follows'
<1>1. /\ UNCHANGED <<disk, conf, program, seenFiles, todo, cache, config, configMtime>>
      /\ UNCHANGED <<configHasErrors, terminated, closing, inflight, slipped>>
      /\ pc = "idle" /\ pc' = "recheckTsConfig"
      /\ batch' = changed /\ lost' = overflow /\ changed' = {}
  BY DEF DoCycle, backend, handlers, cfgState, flags, built
<1>2. Renewed => Renewed'
  BY <1>1 DEF Renewed, Due
<1>3. FileNames' = FileNames /\ \A p : Pending(p) => Pending(p)'
  BY <1>1 DEF FileNames, Present, Pending, Coming
<1>4. Current => Current'
  BY <1>1, <1>3 DEF Current
<1>5. Included => Included'
  BY <1>1, <1>3 DEF Included
<1>6. Tracked'
  BY <1>2, <1>4, <1>5 DEF FInv, Follows, Tracked
<1>7. ConfigTracked'
  BY <1>1 DEF FInv, Follows, ConfigTracked, Parsed
<1> QED
  BY <1>1, <1>6, <1>7 DEF Follows, NamesKept, CorrectionSeen, Signaled

\* The config is looked at.
LEMMA RecheckFollows == ASSUME FInv, recheckTsConfig PROVE Follows'
<1>1. /\ UNCHANGED <<disk, conf, program, seenFiles, todo, cache, configMtime, batch, lost>>
      /\ UNCHANGED <<terminated, closing, inflight, changed, overflow, signal>>
      /\ pc = "recheckTsConfig" /\ slipped \ {Config} \subseteq slipped' /\ Config \notin Files
  BY FilesAssumption DEF recheckTsConfig, backend, manager, handlers, drained, flags, built
<1>2. Signaled'
  BY <1>1 DEF FInv, Follows, Signaled
<1>3. CASE pc' = "idle"
  <2>1. configHasErrors' /\ conf.content = Bad
    BY <1>3 DEF recheckTsConfig
  <2>2. Renewed'
    BY <1>3, <2>1 DEF Renewed, Due
  <2> QED
    BY <1>1, <1>2, <1>3, <2>1, <2>2
    DEF Follows, Tracked, NamesKept, ConfigTracked, CorrectionSeen
<1>4. CASE pc' = "events"
  <2>1. \/ /\ ~configHasErrors /\ conf.time = configMtime
           /\ UNCHANGED <<config, configModified, configHasErrors, slipped>>
        \/ /\ config'.content = conf.content
           /\ configModified' = (configModified \/ configHasErrors
                                   \/ config.content # conf.content)
    BY <1>4 DEF recheckTsConfig
  <2>2. Parsed'
    BY <1>1, <2>1 DEF FInv, Follows, ConfigTracked, Parsed
  <2>3. configHasErrors => configModified'
    <3>1. CASE ~configHasErrors
      BY <3>1
    <3>2. CASE configModified' = (configModified \/ configHasErrors
                                    \/ config.content # conf.content)
      BY <3>2
    <3> QED
      BY <2>1, <3>1, <3>2
  <2>4. Renewed => Renewed'
    BY <1>1, <1>4, <2>3 DEF Renewed, Due
  <2>5. FileNames' = FileNames /\ \A p : Pending(p) => Pending(p)'
    BY <1>1, <1>4 DEF FileNames, Present, Pending, Coming
  <2>6. Current => Current'
    BY <1>1, <2>5 DEF Current
  <2>7. Included => Included'
    BY <1>1, <2>5, FilesAssumption DEF Included, FileNames
  <2>8. Tracked'
    BY <2>4, <2>6, <2>7 DEF FInv, Follows, Tracked
  <2> QED
    BY <1>1, <1>2, <1>4, <2>2, <2>8
    DEF Follows, NamesKept, ConfigTracked, CorrectionSeen
<1> QED
  BY <1>3, <1>4 DEF recheckTsConfig

\* The events are sorted out: each file of them is evicted, makes a full build due, or is of no
\* interest to the program.
LEMMA EventsFollows == ASSUME FInv, events PROVE Follows'
<1>1. /\ UNCHANGED <<disk, conf, program, seenFiles, todo, config, configMtime, batch, lost>>
      /\ UNCHANGED <<terminated, closing, inflight, changed, overflow, signal, configModified>>
      /\ UNCHANGED <<configHasErrors, programReady, slipped>>
      /\ pc = "events" /\ pc' \in {"idle", "doBuild"} /\ ~configHasErrors
  BY DEF events, backend, manager, handlers, drained, cfgState, FInv, IInv, Flagged
<1>2. Parsed
  BY <1>1 DEF FInv, Follows, ConfigTracked
<1>3. NamesKept' /\ ConfigTracked' /\ CorrectionSeen' /\ Signaled'
  BY <1>1, <1>2 DEF NamesKept, ConfigTracked, Parsed, CorrectionSeen, Signaled, FInv, Follows
<1>4. CASE lost \/ configModified
  <2>1. Forced' /\ pc' = "doBuild"
    BY <1>1, <1>4 DEF events, Forced
  <2> QED
    BY <1>3, <2>1 DEF Follows, Tracked, Renewed, Due
<1>5. CASE ~lost /\ ~configModified
  <2>1. Renewed => Renewed'
    BY <1>1, <1>5 DEF Renewed, Due
  <2>2. FileNames' = FileNames /\ \A p : Coming(p) => Pending(p)'
    BY <1>1 DEF FileNames, Present, Pending, Coming
  <2>3. \A f \in FileNames : f \in Matching
    BY DEF FileNames
  <2> SUFFICES ASSUME Current, Included, ~Renewed' PROVE Current' /\ Included'
    BY <1>3, <2>1 DEF FInv, Follows, Tracked
  <2>4. CASE batch = {} \/ ~Relevant
    <3>1. \A f \in batch : f \notin seenFiles \union Matching
      BY <2>4 DEF Relevant
    <3>2. Current'
      BY <1>1, <2>2, <3>1 DEF Current, Pending
    <3>3. Included'
      BY <1>1, <2>2, <2>3, <3>1 DEF Included, Pending
    <3> QED
      BY <3>2, <3>3
  <2>5. CASE batch # {} /\ Relevant
    <3>1. /\ cache' = Evicted /\ pc' = "doBuild"
          /\ Forces => forceFullRebuild'
      BY <1>5, <2>5 DEF events
    <3>2. ~Forces
      BY <3>1 DEF Renewed, Due, Forced
    <3>3. Appeared = {} /\ OtherSeen = {}
      BY <3>2 DEF Forces
    <3>4. ASSUME NEW f \in seenFiles \ ({Config} \union todo), f \in batch PROVE f \in Missing'
      <4>1. f \in Files /\ program[f] # 0
        BY <3>3, <3>4 DEF OtherSeen, FInv, IInv, Typed, Paths
      <4>2. program[f] > 0
        BY <4>1 DEF FInv, IInv, Typed, Versions
      <4> QED
        BY <1>1, <3>1, <3>4, <4>1, <4>2 DEF Missing, InProgram, Evicted
    <3>5. Current'
      BY <1>1, <2>2, <3>1, <3>4 DEF Current, Pending
    <3>6. Included'
      BY <1>1, <2>2, <2>3, <3>3 DEF Included, Pending, Appeared
    <3> QED
      BY <3>5, <3>6
  <2> QED
    BY <2>4, <2>5
<1> QED
  BY <1>4, <1>5

\* The names of the files are looked up.
LEMMA DoBuildFollows == ASSUME FInv, doBuild PROVE Follows'
<1>1. /\ UNCHANGED <<disk, conf, program, seenFiles, todo, configMtime, terminated, closing>>
      /\ UNCHANGED <<inflight, changed, overflow, signal, configModified, forceFullRebuild>>
      /\ UNCHANGED <<programReady, slipped>>
      /\ pc = "doBuild" /\ pc' = "choose"
  BY DEF doBuild, backend, manager, handlers
<1>2. FileNames' = FileNames /\ \A p : Pending(p) => Pending(p)'
  BY <1>1 DEF FileNames, Present, Pending, Coming
<1>3. config'.content = config.content
  BY DEF doBuild, FInv, IInv, Typed
<1>4. Tracked'
  <2>1. Renewed => Renewed'
    BY <1>1 DEF Renewed, Due, Forced
  <2>2. CASE configModified
    BY <1>1, <2>2 DEF Tracked, Renewed, Due, Forced
  <2>3. CASE ~configModified
    <3>1. Missing' = Missing
      BY <1>1, <2>3 DEF doBuild, Missing, InProgram
    <3>2. Current => Current'
      BY <1>1, <1>2, <3>1 DEF Current
    <3>3. Included => Included'
      BY <1>1, <1>2 DEF Included
    <3> QED
      BY <2>1, <3>2, <3>3 DEF FInv, Follows, Tracked
  <2> QED
    BY <2>2, <2>3
<1>5. NamesKept'
  <2> SUFFICES ASSUME (reloaded \/ watchSetDirty)' PROVE config'.fileNames = FileNames
    BY <1>2 DEF NamesKept
  <2>1. watchSetDirty \/ configModified
    BY DEF doBuild
  <2>2. config' = [config EXCEPT !.fileNames = FileNames]
    BY <2>1 DEF doBuild
  <2> QED
    BY <2>2 DEF FInv, IInv, Typed
<1>6. ConfigTracked' /\ CorrectionSeen' /\ Signaled'
  BY <1>1, <1>3 DEF FInv, Follows, ConfigTracked, Parsed, CorrectionSeen, Signaled
<1> QED
  BY <1>4, <1>5, <1>6 DEF Follows

\* The fast path: the one file that was evicted is replaced.
LEMMA FastFollows == ASSUME FInv, tryUpdateProgram \/ fastEnd PROVE Follows'
<1>1. /\ UNCHANGED <<disk, conf, seenFiles, todo, config, terminated, closing>>
      /\ UNCHANGED <<inflight, changed, overflow, signal, configHasErrors>>
      /\ \/ pc = "choose" /\ pc' = "fastEnd"
         \/ pc = "fastEnd" /\ pc' = "idle"
      /\ ~configHasErrors
  BY DEF tryUpdateProgram, fastEnd, backend, manager, handlers, cfgState, built, FInv, IInv,
         Flagged
<1>2. FileNames' = FileNames /\ \A p : Pending(p) => Pending(p)'
  BY <1>1 DEF FileNames, Present, Pending, Coming
<1>3. slipped' = slipped \/ \E f \in InProgram : slipped' = slipped \ {f}
  BY DEF tryUpdateProgram, fastEnd, Missing
<1>4. NamesKept' /\ ConfigTracked' /\ CorrectionSeen' /\ Signaled'
  <2>1. Parsed
    BY <1>1 DEF FInv, Follows, ConfigTracked
  <2>2. Parsed'
    BY <1>1, <1>3, <2>1, FilesAssumption DEF Parsed, InProgram
  <2> QED
    BY <1>1, <2>2 DEF FInv, Follows, NamesKept, ConfigTracked, CorrectionSeen, Signaled
<1>5. Renewed => Renewed'
  <2>1. pc = "choose" => ~Forced
    BY DEF tryUpdateProgram, fastEnd, Fast, Forced
  <2>2. ~Due
    BY <1>1, <2>1 DEF Due
  <2> QED
    BY <1>1, <2>2 DEF Renewed
<1>6. Included => Included'
  <2>1. InProgram \subseteq seenFiles
    BY DEF FInv, IInv, Founded
  <2> QED
    BY <1>1, <1>2, <1>3, <2>1 DEF Included
<1>7. Current => Current'
  <2>1. CASE tryUpdateProgram
    <3>1. PICK f \in Missing : /\ program' = [program EXCEPT ![f] = disk[f]]
                               /\ slipped' = slipped \ {f}
      BY <2>1 DEF tryUpdateProgram
    <3>2. Missing = {f}
      <4>1. IsFiniteSet(Missing)
        BY FilesAssumption, FS_Subset DEF Missing, InProgram
      <4>2. Cardinality(Missing) = 1
        BY <2>1 DEF tryUpdateProgram, Fast
      <4> QED
        BY <3>1, <4>1, <4>2, FS_Singleton
    <3>3. f \in Files /\ program \in [Files -> Versions]
      BY DEF Missing, InProgram, FInv, IInv, Typed
    <3>4. program'[f] = disk[f] /\ \A g \in Files \ {f} : program'[g] = program[g]
      BY <3>1, <3>3
    <3>5. seenFiles \subseteq Files \union {Config}
      BY DEF FInv, IInv, Typed, Paths
    <3> QED
      BY <1>1, <1>2, <3>1, <3>2, <3>4, <3>5 DEF Current
  <2>2. CASE fastEnd
    BY <1>1, <1>2, <2>2 DEF fastEnd, built, Current
  <2> QED
    BY <2>1, <2>2
<1> QED
  BY <1>4, <1>5, <1>6, <1>7 DEF FInv, Follows, Tracked

\* A full build: the files that the config includes are those the disk has now, or has had
\* when their names were looked up.
LEMMA NewProgramFollows == ASSUME FInv, NewProgram PROVE Follows'
<1>1. /\ UNCHANGED <<disk, conf, terminated, closing, inflight, changed, overflow, signal>>
      /\ pc = "choose" /\ pc' = "read"
      /\ seenFiles' = todo' \union {Config}
      /\ todo' = IF reloaded \/ watchSetDirty THEN config.fileNames ELSE FileNames
  BY DEF NewProgram, backend, manager, handlers
<1>2. config'.content = config.content
  BY DEF NewProgram, FInv, IInv, Typed
<1>3. FileNames' = FileNames /\ \A p : Coming(p) => Pending(p)'
  BY <1>1 DEF FileNames, Present, Pending, Coming
<1>4. slipped' = slipped \intersect ({Config} \union (FileNames \ todo'))
  BY DEF NewProgram
<1>5. Current'
  BY <1>1 DEF Current
<1>6. overflow \/ Included'
  BY <1>1, <1>3, <1>4 DEF Included, FInv, Follows, NamesKept
<1>7. Tracked'
  BY <1>1, <1>5, <1>6 DEF Tracked, Renewed
<1>8. NamesKept' /\ ConfigTracked' /\ CorrectionSeen' /\ Signaled'
  BY <1>1, <1>2, <1>4 DEF FInv, Follows, NamesKept, ConfigTracked, Parsed, CorrectionSeen,
                          Signaled
<1> QED
  BY <1>7, <1>8 DEF Follows

LEMMA ReadFollows == ASSUME FInv, NEW f \in Files, GetSourceFile(f) PROVE Follows'
<1>1. /\ UNCHANGED <<disk, conf, terminated, closing, inflight, changed, overflow, signal>>
      /\ UNCHANGED <<config, pc>>
      /\ pc = "read" /\ f \in todo /\ program' = [program EXCEPT ![f] = disk[f]]
      /\ \E next \in {Imports[f] \ seenFiles, {}} :
           todo' = (todo \ {f}) \union next /\ seenFiles' = seenFiles \union next
      /\ slipped' = slipped \ {f}
  BY DEF GetSourceFile, backend, manager, handlers, cfgState
<1>2. FileNames' = FileNames /\ \A p : Pending(p) => Pending(p)'
  BY <1>1 DEF FileNames, Present, Pending, Coming
<1>3. Renewed => Renewed'
  BY <1>1 DEF Renewed, Due
<1>4. Current => Current'
  <2> SUFFICES ASSUME Current, NEW g \in seenFiles' \ ({Config} \union todo')
               PROVE  program'[g] = disk'[g] \/ Pending(g)' \/ g \in slipped'
    BY DEF Current
  <2>1. g \in seenFiles /\ (g \in todo => g = f)
    BY <1>1
  <2>2. g \in Files /\ program \in [Files -> Versions]
    BY <2>1 DEF FInv, IInv, Typed, Paths
  <2> QED
    BY <1>1, <1>2, <2>1, <2>2 DEF Current
<1>5. Included => Included'
  <2>1. f \in seenFiles
    BY <1>1 DEF FInv, IInv, Founded
  <2> QED
    BY <1>1, <1>2, <2>1 DEF Included
<1>6. NamesKept' /\ ConfigTracked' /\ CorrectionSeen' /\ Signaled'
  BY <1>1, FilesAssumption
  DEF FInv, Follows, NamesKept, ConfigTracked, Parsed, CorrectionSeen, Signaled
<1> QED
  BY <1>3, <1>4, <1>5, <1>6 DEF FInv, Follows, Tracked

\* The end of a full build.
LEMMA EndFollows == ASSUME FInv, StatConfig \/ Reconciled \/ ReconcileFails PROVE Follows'
<1>1. /\ UNCHANGED <<disk, conf, terminated, closing, inflight, changed, signal>>
      /\ UNCHANGED <<config, program, seenFiles, todo, configHasErrors, slipped>>
      /\ (overflow => overflow') /\ ~configHasErrors
      /\ \/ pc = "read" /\ pc' = "reconcile"
         \/ pc = "reconcile" /\ pc' = "idle"
  BY DEF StatConfig, Reconciled, ReconcileFails, backend, manager, handlers, cfgState, built,
         FInv, IInv, Flagged
<1>2. FileNames' = FileNames /\ \A p : Pending(p) => Pending(p)'
  BY <1>1 DEF FileNames, Present, Pending, Coming
<1>3. Renewed => Renewed'
  BY <1>1 DEF Renewed, Due
<1>4. ConfigTracked'
  <2>1. CASE pc = "read"
    BY <1>1, <2>1 DEF FInv, Follows, ConfigTracked, Parsed
  <2>2. CASE pc = "reconcile"
    <3>1. configMtime' = configMtime
      BY <2>2 DEF StatConfig, Reconciled, ReconcileFails, cfgState
    <3>2. (Parsed => Parsed') /\ (Dated => conf.time # configMtime /\ (Coming(Config) \/ overflow))
      BY <1>1 DEF Parsed, Dated
    <3> QED
      BY <1>1, <2>2, <3>1, <3>2 DEF FInv, Follows, ConfigTracked, Coming, Renewed
  <2> QED
    BY <1>1, <2>1, <2>2
<1>5. (Current => Current') /\ (Included => Included')
  BY <1>1, <1>2 DEF Current, Included
<1>6. NamesKept' /\ CorrectionSeen' /\ Signaled'
  BY <1>1 DEF FInv, Follows, NamesKept, CorrectionSeen, Signaled
<1> QED
  BY <1>3, <1>4, <1>5, <1>6 DEF FInv, Follows, Tracked

LEMMA NextFollows == FInv /\ [Next]_vars => FInv'
<1> SUFFICES ASSUME FInv, [Next]_vars PROVE FInv'
  OBVIOUS
<1>1. IInv'
  BY NextIInv DEF FInv
<1>2. CASE UNCHANGED vars
  <2>1. /\ UNCHANGED <<disk, conf, program, seenFiles, todo, cache, pc, batch>>
        /\ UNCHANGED <<config, configMtime, configHasErrors, reloaded, watchSetDirty>>
        /\ UNCHANGED <<inflight, changed, overflow, signal, alive, closing, terminated>>
        /\ UNCHANGED <<lost, configModified, forceFullRebuild, programReady, slipped>>
    BY <1>2 DEF vars, backend, manager, handlers, drained, cfgState, flags, built
  <2>2. Renewed => Renewed'
    BY <2>1, SameRenewed
  <2>3. Signaled'
    BY <2>1 DEF FInv, Follows, Signaled
  <2>4. Follows'
    BY <2>1, <2>2, <2>3, SameFollows DEF FInv
  <2> QED
    BY <1>1, <2>4 DEF FInv
<1>3. CASE Next
  <2>1. Follows'
    BY <1>3, EventFollows, EditFollows, EditConfigFollows, DrainFollows, RecheckFollows,
       EventsFollows, DoBuildFollows, FastFollows, NewProgramFollows, ReadFollows, EndFollows
    DEF Next, Cycle, Backend
  <2> QED
    BY <1>1, <2>1 DEF FInv
<1> QED
  BY <1>2, <1>3

------------------------------------------------------------------------------
\* When the program has what the disk has of all that was looked for, it has all that can be
\* reached, and nothing else.
LEMMA ProgramReached ==
  ASSUME IInv, FileNames \subseteq seenFiles,
         \A f \in seenFiles \ {Config} : program[f] = disk[f]
  PROVE  InProgram = Reached
<1>1. /\ disk \in [Files -> Nat] /\ seenFiles \ {Config} \subseteq Files
      /\ InProgram \subseteq seenFiles /\ Config \notin Files
  BY FilesAssumption DEF IInv, Typed, Versions, Paths, Founded
<1>2. \A f \in Files \intersect seenFiles : f \in InProgram <=> f \in Present
  BY <1>1 DEF InProgram, Present
<1>3. InProgram \subseteq Present /\ FileNames \subseteq Files
  BY <1>1, <1>2, FilesAssumption DEF InProgram, FileNames
<1>4. InProgram \subseteq Reached
  <2> SUFFICES ASSUME NEW F \in SUBSET Files, FileNames \subseteq F,
                      \A g \in F : Imports[g] \intersect Present \subseteq F
               PROVE  InProgram \subseteq F
    BY DEF Reached, InProgram
  <2>1. Closed(F)
    BY <1>3 DEF Closed, FileNames
  <2> QED
    BY <2>1 DEF IInv, Reachable
<1>5. Reached \subseteq InProgram
  <2>1. FileNames \subseteq InProgram
    BY <1>2, <1>3 DEF FileNames
  <2>2. ASSUME NEW g \in InProgram PROVE Imports[g] \intersect Present \subseteq InProgram
    BY <1>2 DEF IInv, Founded, Present
  <2> QED
    BY <2>1, <2>2 DEF Reached, InProgram
<1> QED
  BY <1>4, <1>5

\* When all is quiet, nothing is pending and no full build is due.
LEMMA QuietFollowed ==
  ASSUME FInv, Quiet, ~Blind, conf.content # Bad
  PROVE  ~Renewed /\ ~Forced /\ changed = {} /\ inflight = {}
<1>1. changed = {} /\ inflight = {} /\ ~overflow /\ pc = "idle"
  BY DEF Quiet, Blind, FInv, Follows, Signaled
<1>2. ~configHasErrors
  BY <1>1 DEF Blind, Coming, FInv, Follows, CorrectionSeen
<1>3. ~Renewed
  BY <1>1, <1>2 DEF Quiet, Renewed, Due
<1>4. ~Forced
  BY <1>1, <1>2 DEF FInv, IInv, Flagged
<1> QED
  BY <1>1, <1>3, <1>4

\* When all is quiet the program is the one that the disk and the config call for, for any
\* files and imports, whatever is edited, lost or ends, and whichever way the cycles have
\* gone; but for the edits that have slipped between a cycle and the watches it makes.
THEOREM QuietIsFresh == Spec => []FreshWhenQuiet
<1>1. FInv => FreshWhenQuiet
  <2> SUFFICES ASSUME FInv PROVE FreshWhenQuiet
    OBVIOUS
  <2>1. TypeOK
    BY DEF TypeOK, FInv, IInv, Typed, Versions
  <2>2. ASSUME Quiet, ~Blind, conf.content # Bad
        PROVE  /\ slipped \intersect Files = {} => program = Wanted
               /\ Config \notin slipped => builtWith = conf.content
    <3>1. ~Renewed /\ ~Forced /\ changed = {} /\ inflight = {} /\ pc = "idle" /\ todo = {}
      BY <2>2, QuietFollowed DEF Quiet, FInv, IInv, Founded
    <3>2. Current /\ Included /\ \A p : ~Pending(p)
      BY <3>1 DEF FInv, Follows, Tracked, Pending, Coming
    <3>3. ASSUME slipped \intersect Files = {} PROVE program = Wanted
      <4>1. seenFiles \ {Config} \subseteq Files /\ FileNames \subseteq Files
        BY FilesAssumption DEF FInv, IInv, Typed, Paths, FileNames
      <4>2. /\ \A f \in seenFiles \ {Config} : program[f] = disk[f]
            /\ FileNames \subseteq seenFiles
        BY <3>1, <3>2, <3>3, <4>1 DEF Current, Included
      <4>3. InProgram = Reached
        BY <4>2, ProgramReached DEF FInv
      <4>4. program \in [Files -> Nat]
        BY DEF FInv, IInv, Typed, Versions
      <4>5. ASSUME NEW f \in Files PROVE program[f] = Wanted[f]
        <5>1. CASE f \in InProgram
          <6>1. f \in seenFiles \ {Config}
            BY <5>1, FilesAssumption DEF FInv, IInv, Founded
          <6> QED
            BY <4>2, <4>3, <5>1, <6>1 DEF Wanted
        <5>2. CASE f \notin InProgram
          BY <4>3, <4>4, <5>2 DEF Wanted, InProgram
        <5> QED
          BY <5>1, <5>2
      <4> QED
        BY <4>4, <4>5 DEF Wanted
    <3>4. Parsed
      BY <3>1 DEF FInv, Follows, ConfigTracked, Coming
    <3>5. builtWith = config.content
      BY <3>1 DEF FInv, IInv, BuiltWith, Forced
    <3> QED
      BY <3>3, <3>4, <3>5 DEF Parsed
  <2> QED
    BY <2>1, <2>2 DEF FreshWhenQuiet
<1>2. Init => FInv
  BY InitIInv, InitFollows DEF FInv
<1> QED
  BY <1>1, <1>2, NextFollows, PTL DEF Spec
=============================================================================
