----------------------------- MODULE WatchMode -----------------------------
(***************************************************************************)
(* execute/watcher.go and execute/watchmanager/watchmanager.go: "tsc       *)
(* --watch" of one project.  Events of the file system are collected by    *)
(* the watch manager and signal cycles; a cycle looks at the config, at    *)
(* the events, and builds the program anew, as a whole or by replacing one *)
(* file, while files go on being edited.                                   *)
(*                                                                         *)
(* Contents are version numbers, 0 for a file that does not exist; the     *)
(* modification time of a file tells its versions apart.  The operating    *)
(* system and its events are external.                                     *)
(***************************************************************************)
EXTENDS Naturals, FiniteSets

CONSTANTS
    Files,          \* source files
    Matching,       \* those that the config includes
    Imports,        \* file |-> the files it imports
    Dirs, DirOf,    \* directories, and the directory of each file and of Config
    Config,
    MaxEdits,       \* bound on the edits of files and of the config
    MaxFaults       \* bound on overflows, terminated watches and watches that fail

ASSUME FilesAssumption ==
    /\ IsFiniteSet(Files) /\ Matching \subseteq Files /\ Imports \in [Files -> SUBSET Files]
    /\ DirOf \in [Files \union {Config} -> Dirs] /\ Config \notin Files

ASSUME BoundsAssumption == {MaxEdits, MaxFaults} \subseteq Nat

VARIABLES
    disk,        \* file |-> its version
    conf,        \* the config on disk: its time and its content, Bad with errors
    edits, faults,
    inflight,    \* paths whose events the backend has yet to deliver
    alive,       \* the directories in which the backend reports events
    terminated,  \* <<directory, identity>> whose ErrWatchTerminated is to be handled
    closing,     \* the handlers that have forgotten a watch and are yet to signal
    changed, overflow,   \* changedPaths and changedOverflow
    signal,      \* whether doCycleCh holds a signal
    watched,     \* watchedDirs: directory |-> the identity of its watch, or 0
    lastId,
    pc,          \* where DoCycle is; wm.mu is held unless it is "idle"
    batch, lost, \* what DrainEvents returned
    config,      \* the parsed config: its content and its file names
    configMtime, configModified, configHasErrors,
    watchSetDirty, forceFullRebuild, programReady,
    reloaded,    \* reloadedFileNames
    cache,       \* sourceFileCache: file |-> its version, or 0
    program,     \* file |-> the version in the program, or 0
    builtWith,   \* the content of the config the program was made with
    seenFiles,
    todo,        \* the files of the new program that are yet to be read
    slipped      \* history: the edits no cycle will see, see Slips and SlipsConfig

backend == <<disk, conf, edits, faults, inflight, alive>>
manager == <<changed, overflow, signal, watched, lastId>>
handlers == <<terminated, closing>>
drained == <<batch, lost>>
cfgState == <<config, configMtime, configModified, configHasErrors>>
flags == <<watchSetDirty, forceFullRebuild, programReady, reloaded>>
built == <<cache, program, builtWith, seenFiles, todo>>
vars == <<backend, manager, handlers, pc, drained, cfgState, flags, built, slipped>>

Paths == Files \union {Config}
Present == {f \in Files : disk[f] > 0}
Bad == 0
Nothing == [f \in Files |-> 0]

\* The files that the config's patterns match now.
FileNames == Matching \intersect Present

\* start: the first build, before there is any watch.
Init ==
    /\ disk \in [Files -> {0, 1}]
    /\ conf = [time |-> 1, content |-> 1]
    /\ edits = 0 /\ faults = 0 /\ inflight = {} /\ alive = {}
    /\ terminated = {} /\ closing = 0
    /\ changed = {} /\ overflow = FALSE /\ signal = FALSE
    /\ watched = [d \in Dirs |-> 0] /\ lastId = 0
    /\ pc = "doBuild" /\ batch = {} /\ lost = FALSE
    /\ config = [content |-> 1, fileNames |-> FileNames]
    /\ configMtime = 0 /\ configModified = FALSE /\ configHasErrors = FALSE
    /\ watchSetDirty = TRUE /\ forceFullRebuild = FALSE /\ programReady = FALSE
    /\ reloaded = FALSE
    /\ cache = Nothing /\ program = Nothing /\ builtWith = 0 /\ seenFiles = {} /\ todo = {}
    /\ slipped = {}

-----------------------------------------------------------------------------
(* The file system and the backend of the watches.                         *)

Reported(p) == inflight' = IF DirOf[p] \in alive THEN inflight \union {p} ELSE inflight

\* Two kinds of edits pass unseen.  Of a file, while a cycle runs and its directory is
\* not, or not any more, watched: the build may have read it already.
Slips(f) == pc # "idle" /\ DirOf[f] \notin alive

\* Of the config, between its parsing and the reading of its time, with which the next
\* cycle compares (watcher.go 440, 500); or after that, before it is first watched.
SlipsConfig ==
    \/ pc \in {"events", "doBuild", "choose", "fastEnd", "read"}
    \/ pc = "reconcile" /\ DirOf[Config] \notin alive

\* A file is written, created or deleted.
Edit(f) ==
    /\ edits < MaxEdits /\ edits' = edits + 1
    /\ slipped' = IF Slips(f) THEN slipped \union {f} ELSE slipped
    /\ \E v \in {0, edits + 2} : v # disk[f] /\ disk' = [disk EXCEPT ![f] = v]
    /\ Reported(f)
    /\ UNCHANGED <<conf, faults, alive, manager, handlers, pc, drained, cfgState, flags, built>>

\* The config is touched, changed, or changed to one with errors.
EditConfig ==
    /\ edits < MaxEdits /\ edits' = edits + 1
    /\ slipped' = IF SlipsConfig THEN slipped \union {Config} ELSE slipped
    /\ \E c \in {conf.content, edits + 2, Bad} : conf' = [time |-> edits + 2, content |-> c]
    /\ Reported(Config)
    /\ UNCHANGED <<disk, faults, alive, manager, handlers, pc, drained, cfgState, flags, built>>

\* onWatchEvents with events.
Deliver(p) ==
    /\ p \in inflight /\ inflight' = inflight \ {p}
    /\ changed' = changed \union {p} /\ signal' = TRUE
    /\ UNCHANGED <<disk, conf, edits, faults, alive, overflow, watched, lastId, handlers, pc,
                   drained, cfgState, flags, built, slipped>>

\* onWatchEvents with ErrOverflow: the events themselves are lost.
DeliverOverflow ==
    /\ faults < MaxFaults /\ faults' = faults + 1
    /\ inflight # {} /\ inflight' = {}
    /\ overflow' = TRUE /\ signal' = TRUE
    /\ UNCHANGED <<disk, conf, edits, alive, changed, watched, lastId, handlers, pc, drained,
                   cfgState, flags, built, slipped>>

\* The watch of a directory ends.
Terminate(d) ==
    /\ faults < MaxFaults /\ faults' = faults + 1
    /\ d \in alive /\ alive' = alive \ {d}
    /\ terminated' = terminated \union {<<d, watched[d]>>}
    /\ UNCHANGED <<disk, conf, edits, inflight, closing, manager, pc, drained, cfgState,
                   flags, built, slipped>>

\* handleWatchTerminated takes wm.mu and forgets the watch, if it is still that one.
handleWatchTerminated(d, id) ==
    /\ <<d, id>> \in terminated /\ pc = "idle"
    /\ terminated' = terminated \ {<<d, id>>}
    /\ watched' = IF watched[d] = id THEN [watched EXCEPT ![d] = 0] ELSE watched
    /\ closing' = closing + 1
    /\ UNCHANGED <<changed, overflow, signal, lastId, backend, pc, drained, cfgState, flags,
                   built, slipped>>

\* Mutant: the handler does not ask for a full rebuild.
TerminatedSilently ==
    /\ closing > 0 /\ closing' = closing - 1
    /\ signal' = TRUE
    /\ UNCHANGED <<changed, overflow, watched, lastId, terminated, backend, pc, drained,
                   cfgState, flags, built, slipped>>

\* It closes the watch outside the lock, and asks for a full rebuild.
Terminated ==
    /\ closing > 0 /\ closing' = closing - 1
    /\ overflow' = TRUE /\ signal' = TRUE
    /\ UNCHANGED <<changed, watched, lastId, terminated, backend, pc, drained, cfgState,
                   flags, built, slipped>>

-----------------------------------------------------------------------------
(* DoCycle. *)

\* Mutant: no cycle while the config has errors.
DoCycleWithoutErrors ==
    /\ pc = "idle" /\ signal /\ ~configHasErrors
    /\ signal' = FALSE /\ pc' = "recheckTsConfig"
    /\ batch' = changed /\ lost' = overflow
    /\ changed' = {} /\ overflow' = FALSE
    /\ UNCHANGED <<watched, lastId, backend, handlers, cfgState, flags, built, slipped>>

\* RunLoop takes a signal; DoCycle takes wm.mu and drains the events.
DoCycle ==
    /\ pc = "idle" /\ signal
    /\ signal' = FALSE /\ pc' = "recheckTsConfig"
    /\ batch' = changed /\ lost' = overflow
    /\ changed' = {} /\ overflow' = FALSE
    /\ UNCHANGED <<watched, lastId, backend, handlers, cfgState, flags, built, slipped>>

\* recheckTsConfig: the config is parsed again when its time has changed or it had
\* errors; with errors the cycle ends, and what was drained is forgotten.
recheckTsConfig ==
    /\ pc = "recheckTsConfig"
    /\ LET again == configHasErrors \/ conf.time # configMtime IN
       /\ \/ /\ ~again /\ pc' = "events"
             /\ UNCHANGED <<config, configModified, configHasErrors>>
          \/ /\ again /\ conf.content = Bad /\ pc' = "idle"
             /\ configHasErrors' = TRUE
             /\ UNCHANGED <<config, configModified>>
          \/ /\ again /\ conf.content # Bad /\ pc' = "events"
             /\ configModified' = (configModified \/ configHasErrors
                                     \/ config.content # conf.content)
             /\ configHasErrors' = FALSE
             /\ config' = [content |-> conf.content, fileNames |-> FileNames]
       /\ slipped' = IF again THEN slipped \ {Config} ELSE slipped
    /\ UNCHANGED <<configMtime, backend, manager, handlers, drained, flags, built>>

Relevant == batch \intersect (seenFiles \union Matching) # {}

\* A file that the config includes and the last build has not seen.
Appeared == batch \intersect (Matching \ seenFiles)

\* What is seen but is no file of the program: the config, a module not found.
OtherSeen == {p \in (batch \intersect seenFiles) \ Appeared : p = Config \/ program[p] = 0}

Forces == Appeared # {} \/ OtherSeen # {}

Evicted == [f \in Files |-> IF f \in batch THEN 0 ELSE cache[f]]

\* The events are sorted out: evict, ask for a full rebuild, or skip the build.
events ==
    /\ pc = "events"
    /\ \/ /\ batch # {} /\ ~lost /\ ~configModified /\ Relevant
          /\ cache' = Evicted
          /\ watchSetDirty' = (watchSetDirty \/ Appeared # {})
          /\ forceFullRebuild' = (forceFullRebuild \/ Forces)
          /\ pc' = "doBuild"
       \/ /\ batch # {} /\ ~lost /\ ~configModified /\ ~Relevant
          /\ pc' = "idle"
          /\ UNCHANGED <<cache, watchSetDirty, forceFullRebuild>>
       \/ /\ lost
          /\ cache' = Nothing /\ watchSetDirty' = TRUE /\ forceFullRebuild' = TRUE
          /\ pc' = "doBuild"
       \/ /\ ~lost /\ configModified /\ pc' = "doBuild"
          /\ UNCHANGED <<cache, watchSetDirty, forceFullRebuild>>
       \/ /\ batch = {} /\ ~lost /\ ~configModified /\ pc' = "idle"
          /\ UNCHANGED <<cache, watchSetDirty, forceFullRebuild>>
    /\ UNCHANGED <<programReady, reloaded, program, builtWith, seenFiles, todo, backend,
                   manager, handlers, drained, cfgState, slipped>>

\* doBuild, its beginning: after a change of the config nothing is reused; the names
\* of the files are looked up when they may have changed.
doBuild ==
    /\ pc = "doBuild"
    /\ LET look == watchSetDirty \/ configModified IN
       /\ reloaded' = look
       /\ watchSetDirty' = (look /\ config.fileNames # FileNames)
       /\ config' = IF look THEN [config EXCEPT !.fileNames = FileNames] ELSE config
    /\ cache' = IF configModified THEN Nothing ELSE cache
    /\ pc' = "choose"
    /\ UNCHANGED <<configMtime, configModified, configHasErrors, forceFullRebuild,
                   programReady, program, builtWith, seenFiles, todo, backend, manager,
                   handlers, drained, slipped>>

InProgram == {f \in Files : program[f] > 0}

Missing == {f \in InProgram : cache[f] = 0}

\* Mutant: one missing file is enough for the fast path, whatever else is known.
FastAlways == Cardinality(Missing) = 1

Fast == /\ programReady /\ ~configModified /\ ~watchSetDirty /\ ~forceFullRebuild
        /\ Cardinality(Missing) = 1

\* tryUpdateProgram replaces the one file that was evicted, unless its imports (or
\* what else canReplaceFileInProgram compares) differ.
tryUpdateProgram ==
    /\ pc = "choose" /\ Fast
    /\ \E f \in Missing :
         /\ disk[f] > 0
         /\ program' = [program EXCEPT ![f] = disk[f]]
         /\ cache' = [cache EXCEPT ![f] = disk[f]]
         /\ slipped' = slipped \ {f}
    /\ pc' = "fastEnd"
    /\ UNCHANGED <<builtWith, seenFiles, todo, backend, manager, handlers, drained,
                   cfgState, flags>>

\* The end of the fast path: the time of the config is read anew.
fastEnd ==
    /\ pc = "fastEnd" /\ pc' = "idle"
    /\ configMtime' = conf.time
    /\ configModified' = FALSE
    /\ UNCHANGED <<config, configHasErrors, backend, manager, handlers, drained, flags, built,
                   slipped>>

\* NewProgram begins with the file names of the config.
NewProgram ==
    /\ pc = "choose"
    /\ LET names == IF reloaded \/ watchSetDirty THEN config.fileNames ELSE FileNames IN
       /\ config' = [config EXCEPT !.fileNames = names]
       /\ todo' = names
       /\ seenFiles' = names \union {Config}
       /\ slipped' = slipped \intersect ({Config} \union (FileNames \ names))
    /\ program' = Nothing /\ builtWith' = config.content
    /\ programReady' = TRUE
    /\ pc' = "read"
    /\ UNCHANGED <<configMtime, configModified, configHasErrors, watchSetDirty, forceFullRebuild,
                   reloaded, cache, backend, manager, handlers, drained>>

\* A file is read, unless the cache has it with its present time, and what it
\* imports is read in turn.
GetSourceFile(f) ==
    /\ pc = "read" /\ f \in todo
    /\ program' = [program EXCEPT ![f] = disk[f]]
    /\ cache' = [cache EXCEPT ![f] = disk[f]]
    /\ LET next == IF disk[f] > 0 THEN Imports[f] \ seenFiles ELSE {} IN
       /\ todo' = (todo \ {f}) \union next
       /\ seenFiles' = seenFiles \union next
    /\ slipped' = slipped \ {f}
    /\ UNCHANGED <<builtWith, pc, backend, manager, handlers, drained, cfgState, flags>>

\* The directories of the patterns, of the config, and of what was looked for.
DesiredDirs == {DirOf[p] : p \in Matching \union {Config} \union seenFiles}

StatConfig ==
    /\ pc = "read" /\ todo = {} /\ pc' = "reconcile"
    /\ configMtime' = conf.time
    /\ UNCHANGED <<config, configModified, configHasErrors, backend, manager, handlers,
                   drained, flags, built, slipped>>

\* ReconcileWatches: watches no longer wanted are closed, missing ones are made; files
\* that are not in the program leave the cache.
Reconciled ==
    LET new == {d \in DesiredDirs : watched[d] = 0} IN
    /\ pc = "reconcile" /\ pc' = "idle"
    /\ watched' = [d \in Dirs |-> IF d \notin DesiredDirs THEN 0
                                  ELSE IF d \in new THEN lastId + 1 ELSE watched[d]]
    /\ lastId' = IF new = {} THEN lastId ELSE lastId + 1
    /\ alive' = (alive \intersect DesiredDirs) \union new
    /\ watchSetDirty' = FALSE /\ configModified' = FALSE /\ forceFullRebuild' = FALSE
    /\ cache' = [f \in Files |-> IF f \in InProgram THEN cache[f] ELSE 0]
    /\ UNCHANGED <<disk, conf, edits, faults, inflight, changed, overflow, signal, handlers,
                   drained, config, configMtime, configHasErrors, programReady, reloaded,
                   program, builtWith, seenFiles, todo, slipped>>

\* The watches cannot be made: the next cycle is to build everything (ForceOverflow).
ReconcileFails ==
    /\ faults < MaxFaults /\ faults' = faults + 1
    /\ pc = "reconcile" /\ pc' = "idle"
    /\ \E d \in DesiredDirs : watched[d] = 0
    /\ watched' = [d \in Dirs |-> IF d \in DesiredDirs THEN watched[d] ELSE 0]
    /\ alive' = alive \intersect DesiredDirs
    /\ overflow' = TRUE
    /\ UNCHANGED <<disk, conf, edits, inflight, changed, signal, lastId, handlers, drained,
                   cfgState, flags, built, slipped>>

Cycle ==
    \/ DoCycle \/ recheckTsConfig \/ events \/ doBuild \/ tryUpdateProgram \/ fastEnd
    \/ NewProgram \/ StatConfig \/ Reconciled \/ ReconcileFails
    \/ \E f \in Files : GetSourceFile(f)

Backend ==
    \/ \E p \in Paths : Deliver(p)
    \/ \E d \in Dirs, id \in 0..lastId : handleWatchTerminated(d, id)
    \/ Terminated

Next ==
    \/ Cycle \/ Backend
    \/ \E f \in Files : Edit(f)
    \/ EditConfig \/ DeliverOverflow
    \/ \E d \in Dirs : Terminate(d)

\* The loop and the backend's goroutines run.
Spec == Init /\ [][Next]_vars /\ WF_vars(Cycle) /\ WF_vars(Backend)

-----------------------------------------------------------------------------
TypeOK ==
    /\ disk \in [Files -> 0..MaxEdits + 1]
    /\ {inflight, changed, batch, seenFiles} \subseteq SUBSET Paths
    /\ alive \subseteq Dirs /\ todo \subseteq Files /\ slipped \subseteq Paths
    /\ watched \in [Dirs -> 0..lastId]
    /\ {cache, program} \subseteq [Files -> 0..MaxEdits + 1]
    /\ pc \in {"idle", "recheckTsConfig", "events", "doBuild", "choose", "fastEnd",
               "read", "reconcile"}

\* The program the files on disk and the config call for: what the config includes, with
\* all that it imports, directly or not.
Reached ==
    {f \in Files : \A F \in SUBSET Files :
        FileNames \subseteq F /\ (\A g \in F : Imports[g] \intersect Present \subseteq F)
            => f \in F}
Wanted == [f \in Files |-> IF f \in Reached THEN disk[f] ELSE 0]

Fresh == program = Wanted /\ builtWith = conf.content

\* Nothing is under way that will lead to another build.
Quiet == /\ pc = "idle" /\ ~signal /\ inflight = {} /\ terminated = {} /\ closing = 0

\* A watch of the config's directory could not be made, or ended while the config
\* has errors (recheckTsConfig ends the cycle before watches are made).
Blind == overflow \/ DirOf[Config] \notin alive

\* When all is quiet, and neither has the config errors nor is it out of sight, the
\* program is the one the disk calls for, and made with the config on disk: no edit,
\* creation or deletion is missed by the cache of source files, the fast path, the reuse
\* of file names or a cycle that was skipped.  Excepted are the edits that slip: of files
\* in directories not watched while a cycle runs, until a build reads them, and of the
\* config during a cycle, until it is parsed again.
FreshWhenQuiet ==
    /\ TypeOK
    /\ Quiet /\ ~Blind /\ conf.content # Bad =>
         /\ slipped \intersect Files = {} => program = Wanted
         /\ Config \notin slipped => builtWith = conf.content

\* The config's directory, and every directory that has a file of the program, is
\* watched with a live watch when all is quiet, though watches end while others are
\* made.
WatchedWhenQuiet ==
    Quiet /\ ~overflow /\ ~configHasErrors =>
        \A p \in {Config} \union InProgram : DirOf[p] \in alive

\* A stale program is built again unless an edit has slipped: no signal is lost between
\* the backend, the handlers and the cycle that is running.
CatchesUp == ~Fresh ~> (Fresh \/ Blind \/ conf.content = Bad \/ slipped # {})

\* "Found 1 error. Watching for file changes." (recheckTsConfig): while it waits for
\* the config to be corrected, the config's directory is watched.
WaitsForConfig == Quiet /\ configHasErrors => DirOf[Config] \in alive
=============================================================================
