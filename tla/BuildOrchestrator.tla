------------------------- MODULE BuildOrchestrator -------------------------
(***************************************************************************)
(* tsc -b and tsc -b -w (internal/execute/build: orchestrator.go,          *)
(* buildtask.go, uptodatestatus.go, host.go).                              *)
(*                                                                         *)
(* The projects are built by concurrent builders in the build order.  A    *)
(* builder waits for the projects upstream (their channel done), builds if *)
(* it must, tells the projects downstream, and reports after the project   *)
(* before it in the build order (its channel reportDone).  Between builds  *)
(* events of the file watcher are drained: tasks whose config is the same  *)
(* are used again.                                                         *)
(*                                                                         *)
(* What is on the disk is abstracted to two sets of pairs <<p, i>>: in     *)
(* unseen, the outputs of p were not made from its present input i (another*)
(* project: its declaration files; p: the sources of p; "config": its      *)
(* config); in newer, that input has a newer time stamp than the outputs.  *)
(***************************************************************************)
EXTENDS Integers, FiniteSets, SequencesExt

CONSTANTS
    Projects,
    Builders,
    Configs,             \* project |-> possible contents of its config
    SetupBuildTasks(_),  \* references of the projects |-> order, and whether there are errors
    StopBuildOnErrors,
    Incremental,         \* projects whose build info names the declaration files they use
    Built,               \* projects that may have been built before
    MaxSourceEdits,      \* bound: changes of source files
    MaxConfigEdits,      \* bound: changes of configs
    MaxEdits,            \* bound: changes of both
    EditWhileBuilding,   \* files change also while a build is under way
    Nil

ASSUME OrchestratorAssumption ==
    /\ IsFiniteSet(Projects) /\ IsFiniteSet(Builders) /\ Builders # {}
    /\ StopBuildOnErrors \in BOOLEAN
    /\ Built \subseteq Projects /\ Incremental \subseteq Projects
    /\ \A p \in Projects : Configs[p] \subseteq Seq(Projects) \union {Nil}
    /\ {MaxSourceEdits, MaxConfigEdits, MaxEdits} \subseteq Nat /\ EditWhileBuilding \in BOOLEAN

VARIABLES
    config,   \* project |-> the references in its config file, or Nil if there is none
    unseen, newer,
    failed,   \* projects whose tsbuildinfo records errors
    late,     \* projects whose sources have changed since the compiler at work has read them
    watched,  \* projects whose directories are watched
    events,   \* pairs of "source", "config" or "declarations" and a project
    overflow, \* the watcher has lost events
    missed,   \* history: edits of configs that were parsed and are not watched, by project:
              \* those that the "graph", and those that the "outputs" were not made from
    edits,    \* numbers of changes made so far
    resolved, \* resolvedReferences: the configs that were parsed, a partial function
    order,    \* Orchestrator.order
    errors,   \* Orchestrator.errors is not empty
    task,     \* project |-> its BuildTask
    index,    \* currentTaskIndex of rangeTask
    phase,    \* "building" or "watching"
    pc,       \* builder |-> control point
    builds,   \* builder |-> the project it works at
    result,   \* builder |-> what came of it: "none", "same" or "changed" declarations
    reported, \* the projects reported in this cycle, in their order
    crashed   \* why the process has crashed, and over which project, or Nil

diskVars == <<config, unseen, newer, failed, late, edits, missed>>
eventVars == <<watched, events, overflow>>
graphVars == <<resolved, order, errors>>
builderVars == <<pc, builds, result>>
vars == <<diskVars, eventVars, graphVars, task, index, phase, builderVars, reported, crashed>>

\* spared is history: the project was found up to date, and not built, after a reset.
NewTask(isInitialCycle) ==
    [status |-> "none", ref |-> Nil, pending |-> TRUE, isInitialCycle |-> isInitialCycle,
     prevReporter |-> Nil, done |-> FALSE, reportDone |-> FALSE, buildInfo |-> FALSE,
     downStream |-> {}, spared |-> FALSE]

Inputs == Projects \union {"config"}
InOrder == ToSet(order)
IndexOf(p) == CHOOSE i \in 1..Len(order) : order[i] = p

\* References that lead back to a project being analyzed have no upstream task.
upStreamOf(configs, ord, p) ==
    IF configs[p] = Nil THEN {}
    ELSE {u \in ToSet(configs[p]) : \E i, j \in DOMAIN ord : i < j /\ ord[i] = u /\ ord[j] = p}
upStream(p) == upStreamOf(resolved, order, p)

\* GetResolvedProjectReference: what was parsed before, or what the file says.
Resolve(parsed) == [p \in Projects |-> IF p \in DOMAIN parsed THEN parsed[p] ELSE config[p]]

GenerateGraph(configs) ==
    SetupBuildTasks([p \in Projects |-> IF configs[p] = Nil THEN <<>> ELSE configs[p]])

\* setupBuildTask: every task has new channels and reports after the one before it.  The
\* first one keeps the prevReporter it may have, which may be a task that is not used
\* any more.  A task used again also keeps its downStream; of that matter only the tasks
\* that are used again too.
Setup(old, reused, ord, configs) ==
    LET stale(q) == IF q \notin Projects \ reused THEN q
                    ELSE IF old[q].reportDone THEN "closed" ELSE "open"
        before(p) == LET i == CHOOSE i \in 1..Len(ord) : ord[i] = p
                     IN  IF i > 1 THEN ord[i - 1]
                         ELSE IF p \in reused THEN stale(old[p].prevReporter) ELSE Nil
        base(p) == IF p \in reused THEN old[p]
                   ELSE [NewTask(FALSE) EXCEPT !.buildInfo = old[p].buildInfo]
        down(p) == {d \in ToSet(ord) : p \in upStreamOf(configs, ord, d)}
    IN  [p \in Projects |->
           IF p \notin ToSet(ord) THEN NewTask(FALSE)
           ELSE [base(p) EXCEPT !.done = FALSE, !.reportDone = FALSE, !.prevReporter = before(p),
                                !.downStream = (@ \intersect reused) \union down(p)]]

Init ==
    /\ config \in [Projects -> UNION {Configs[p] : p \in Projects}]
    /\ \A p \in Projects : config[p] \in Configs[p]
    /\ \E upToDate \in SUBSET Built : unseen = (Projects \ upToDate) \X Inputs
    /\ newer = unseen
    /\ failed = {}
    /\ late = {}
    /\ watched = {} /\ events = {} /\ overflow = FALSE /\ missed = {}
    /\ edits = [source |-> 0, config |-> 0]
    /\ LET graph == GenerateGraph(config)
       IN  /\ resolved = [p \in ToSet(graph.order) |-> config[p]]
           /\ order = graph.order
           /\ errors = graph.errors
           /\ task = Setup([p \in Projects |-> NewTask(TRUE)], Projects, graph.order, config)
    /\ index = 0
    /\ phase = "building"
    /\ pc = [b \in Builders |-> "next"]
    /\ builds = [b \in Builders |-> Nil]
    /\ result = [b \in Builders |-> "none"]
    /\ reported = <<>>
    /\ crashed = Nil

------------------------------------------------------------------------------
(* Changes of files *)

MayEdit == /\ crashed = Nil /\ edits.source + edits.config < MaxEdits
           /\ phase = "watching" \/ EditWhileBuilding

\* The watcher, if it watches p, tells of a change, or only that it has lost some.
Notify(event) ==
    /\ UNCHANGED watched
    /\ IF event[2] \notin watched THEN UNCHANGED <<events, overflow>>
       ELSE \/ events' = events \union {event} /\ UNCHANGED overflow
            \/ overflow' = TRUE /\ UNCHANGED events

EditSource(p) ==
    /\ MayEdit /\ edits.source < MaxSourceEdits
    /\ edits' = [edits EXCEPT !.source = @ + 1]
    /\ unseen' = unseen \union {<<p, p>>}
    /\ newer' = newer \union {<<p, p>>}
    /\ late' = IF \E b \in Builders : pc[b] = "emit" /\ builds[b] = p THEN late \union {p} ELSE late
    /\ Notify(<<"source", p>>)
    /\ UNCHANGED <<config, failed, missed, graphVars, task, index, phase, builderVars, reported,
                   crashed>>

EditConfig(p) ==
    /\ MayEdit /\ edits.config < MaxConfigEdits
    /\ edits' = [edits EXCEPT !.config = @ + 1]
    /\ \E c \in Configs[p] \ {config[p]} : config' = [config EXCEPT ![p] = c]
    /\ unseen' = unseen \union {<<p, "config">>}
    /\ newer' = newer \union {<<p, "config">>}
    /\ missed' = missed \union {<<what, q>> \in {"graph", "outputs"} \X {p} :
                                  q \in DOMAIN resolved \ watched}
    /\ Notify(<<"config", p>>)
    /\ UNCHANGED <<failed, late, graphVars, task, index, phase, builderVars, reported, crashed>>

------------------------------------------------------------------------------
(* Builders *)

isError(p) == task[p].status \in {"notFound", "buildErrors", "upstreamErrors"}

TakeTask(b) ==
    /\ phase = "building" /\ ~errors /\ pc[b] = "next" /\ crashed = Nil
    /\ index' = index + 1
    /\ IF index < Len(order)
         THEN /\ pc' = [pc EXCEPT ![b] = "build"]
              /\ builds' = [builds EXCEPT ![b] = order[index + 1]]
         ELSE pc' = [pc EXCEPT ![b] = "exit"] /\ UNCHANGED builds
    /\ UNCHANGED <<diskVars, eventVars, graphVars, task, phase, result, reported, crashed>>

\* waitOnUpstream
UpstreamDone(p) == \A u \in upStream(p) : task[u].done

\* The first of the projects upstream that has errors.
ErrorUpstream(p) ==
    LET bad == SelectSeq(resolved[p], LAMBDA u : u \in upStream(p) /\ isError(u))
    IN  IF StopBuildOnErrors /\ bad # <<>> THEN bad[1] ELSE Nil

\* getUpToDateStatus looks at the build info of a project upstream, which one without
\* config does not have.  It has returned before if p has errors or changed sources, or if
\* p is older than the declaration files of a project that it refers to earlier.
NeedsBuildInfo(p) ==
    /\ task[p].status = "none" /\ resolved[p] # Nil /\ ErrorUpstream(p) = Nil
    /\ p \notin failed /\ <<p, p>> \notin newer
    /\ \E i \in DOMAIN resolved[p] :
         LET u == resolved[p][i] IN
         /\ u \in upStream(p) /\ task[u].status = "notFound" /\ ~task[u].buildInfo
         /\ \A j \in 1..i - 1 : resolved[p][j] \in upStream(p) => <<p, resolved[p][j]>> \notin newer

\* getUpToDateStatus
UpToDateStatus(p) ==
    IF task[p].status # "none" THEN task[p].status
    ELSE IF resolved[p] = Nil THEN "notFound"
    ELSE IF ErrorUpstream(p) # Nil THEN "upstreamErrors"
    ELSE IF p \in failed \/ \E i \in upStream(p) \union {p, "config"} : <<p, i>> \in newer
      THEN "outOfDate"
    ELSE "upToDate"

AtBuild(b) ==
    pc[b] = "build" /\ crashed = Nil /\ UpstreamDone(builds[b])

\* Builder b has settled the status of its project.
Settle(b, status) ==
    LET p == builds[b] IN
    task' = [task EXCEPT ![p].status = status,
                         ![p].ref = IF status # "upstreamErrors" THEN Nil
                                    ELSE IF task[p].status = "none" THEN ErrorUpstream(p) ELSE @,
                         ![p].buildInfo = @ \/ (resolved[p] # Nil /\ status # "upstreamErrors"),
                         ![p].spared = IF pc[b] = "emit" THEN FALSE
                                       ELSE @ \/ (task[p].status = "none" /\ status = "upToDate")]

NotPending(b) ==
    /\ AtBuild(b) /\ ~task[builds[b]].pending
    /\ pc' = [pc EXCEPT ![b] = "unblock"]
    /\ UNCHANGED <<diskVars, eventVars, graphVars, task, index, phase, builds, result, reported, crashed>>

Crash(b) ==
    LET p == builds[b] IN
    /\ AtBuild(b) /\ task[p].pending
    /\ NeedsBuildInfo(p)
    /\ crashed' = <<"no build info", p>>
    /\ UNCHANGED <<diskVars, eventVars, graphVars, task, index, phase, builderVars, reported>>

\* handleStatusThatDoesntRequireBuild, and pseudo-builds, which update time stamps.
DoesntRequireBuild(b) ==
    LET p == builds[b]
        status == UpToDateStatus(p)
    IN
    /\ AtBuild(b) /\ task[p].pending
    /\ status \in {"notFound", "upstreamErrors", "upToDate", "upToDateWithUpstreamTypes"}
    /\ ~NeedsBuildInfo(p)
    /\ Settle(b, IF status = "upToDateWithUpstreamTypes" THEN "upToDate" ELSE status)
    /\ newer' = IF status = "upToDateWithUpstreamTypes"
                  THEN newer \ ({p} \X Inputs) ELSE newer
    /\ pc' = [pc EXCEPT ![b] = "unblock"]
    /\ UNCHANGED <<config, unseen, failed, late, edits, missed, eventVars, graphVars, index,
                   phase, builds, result, reported, crashed>>

\* compileAndEmit: the program is made from the files as they are.
Compile(b) ==
    LET p == builds[b] IN
    /\ AtBuild(b) /\ task[p].pending
    /\ UpToDateStatus(p) \in {"outOfDate", "buildErrors"}
    /\ ~NeedsBuildInfo(p)
    /\ late' = late \ {p}
    /\ pc' = [pc EXCEPT ![b] = "emit"]
    /\ UNCHANGED <<config, unseen, newer, failed, edits, missed, eventVars, graphVars, task,
                   index, phase, builds, result, reported, crashed>>

\* compileAndEmit: outputs are written, with errors or without.  With errors there may be
\* no output; a reference without config is an error.  The declaration files may change if
\* an input has, which the watcher tells of like of any other change.
Emit(b) ==
    LET p == builds[b]
        unread == {i \in Inputs : (i = p /\ p \in late) \/ (i = "config" /\ config[p] # resolved[p])}
    IN
    /\ pc[b] = "emit" /\ crashed = Nil
    /\ \E ok, emitted, dtsChanged \in BOOLEAN :
         /\ ok => emitted /\ \A u \in ToSet(resolved[p]) : resolved[u] # Nil
         /\ dtsChanged => emitted /\ \E i \in Inputs : <<p, i>> \in unseen
         /\ LET changed == IF dtsChanged THEN (Projects \ {p}) \X {p} ELSE {}
            IN  /\ unseen' = (IF emitted THEN unseen \ ({p} \X (Inputs \ unread)) ELSE unseen) \union changed
                /\ newer' = (IF emitted THEN newer \ ({p} \X Inputs) ELSE newer) \union changed
         /\ missed' = IF emitted /\ "config" \notin unread THEN missed \ {<<"outputs", p>>}
                       ELSE missed
         /\ failed' = IF ok THEN failed \ {p} ELSE failed \union {p}
         /\ Settle(b, IF ok THEN "upToDate" ELSE "buildErrors")
         /\ result' = [result EXCEPT ![b] = IF dtsChanged THEN "changed" ELSE "same"]
         /\ IF dtsChanged THEN Notify(<<"declarations", p>>) ELSE UNCHANGED eventVars
    /\ pc' = [pc EXCEPT ![b] = "unblock"]
    /\ UNCHANGED <<config, late, edits, graphVars, index, phase, builds, reported, crashed>>

Reset(t) == [t EXCEPT !.status = "none", !.ref = Nil, !.pending = TRUE]

\* Mutant of UpdatedDownstream: it does not ask whether declaration files have changed.
UpdatedAsSame(p, t, dts) ==
    CASE t.status = "upToDate" -> [t EXCEPT !.status = "upToDateWithUpstreamTypes", !.pending = TRUE]
      [] t.status = "upstreamErrors" /\ t.ref = p -> Reset(t)
      [] OTHER -> [t EXCEPT !.pending = TRUE]

\* Mutant of UpdatedDownstream: a project that was skipped keeps its status.
UpdatedButSkipped(p, t, dts) ==
    CASE t.status = "upToDate" /\ dts = "same" ->
           [t EXCEPT !.status = "upToDateWithUpstreamTypes", !.pending = TRUE]
      [] t.status \in {"upToDate", "upToDateWithUpstreamTypes"} /\ dts = "changed" ->
           [t EXCEPT !.status = "outOfDate", !.pending = TRUE]
      [] OTHER -> [t EXCEPT !.pending = TRUE]

\* What updateDownstream of p does to the task t of a project downstream.
UpdatedDownstream(p, t, dts) ==
    CASE t.status = "upToDate" /\ dts = "same" ->
           [t EXCEPT !.status = "upToDateWithUpstreamTypes", !.pending = TRUE]
      [] t.status \in {"upToDate", "upToDateWithUpstreamTypes"} /\ dts = "changed" ->
           [t EXCEPT !.status = "outOfDate", !.pending = TRUE]
      [] t.status = "upstreamErrors" /\ t.ref = p -> Reset(t)
      [] OTHER -> [t EXCEPT !.pending = TRUE]

\* updateDownstream if the project was built, and unblockDownstream.
Unblock(b) ==
    LET p == builds[b]
        told == IF \/ result[b] = "none"
                   \/ task[p].isInitialCycle
                   \/ StopBuildOnErrors /\ isError(p)
                THEN {} ELSE task[p].downStream
    IN
    /\ pc[b] = "unblock" /\ crashed = Nil
    /\ task' = [q \in Projects |->
         IF q = p THEN [task[p] EXCEPT !.pending = FALSE, !.isInitialCycle = FALSE, !.done = TRUE]
         ELSE IF q \in told THEN UpdatedDownstream(p, task[q], result[b]) ELSE task[q]]
    /\ crashed' = IF task[p].done THEN <<"close of closed channel", p>> ELSE Nil
    /\ result' = [result EXCEPT ![b] = "none"]
    /\ pc' = [pc EXCEPT ![b] = "report"]
    /\ UNCHANGED <<diskVars, eventVars, graphVars, index, phase, builds, reported>>

\* Mutant of PrevReported: a builder reports when it is done.
ReportAtOnce(p) == TRUE

\* The previous reporter, if any, has reported.
PrevReported(p) ==
    LET prev == task[p].prevReporter IN
    \/ prev \in {Nil, "closed"}
    \/ prev \in Projects /\ task[prev].reportDone

Report(b) ==
    LET p == builds[b] IN
    /\ pc[b] = "report" /\ crashed = Nil
    /\ PrevReported(p)
    /\ task' = [task EXCEPT ![p].reportDone = TRUE]
    /\ crashed' = IF task[p].reportDone THEN <<"close of closed channel", p>> ELSE Nil
    /\ reported' = Append(reported, p)
    /\ pc' = [pc EXCEPT ![b] = "next"]
    /\ builds' = [builds EXCEPT ![b] = Nil]
    /\ UNCHANGED <<diskVars, eventVars, graphVars, index, phase, result>>

------------------------------------------------------------------------------
(* Cycles *)

\* buildOrClean returns and changes are watched for.  Circular references prevent any
\* project from being built.
EndBuild ==
    /\ phase = "building" /\ crashed = Nil
    /\ errors \/ \A b \in Builders : pc[b] = "exit"
    /\ phase' = "watching"
    /\ watched' = InOrder
    /\ UNCHANGED <<diskVars, events, overflow, graphVars, task, index, builderVars, reported,
                   crashed>>

\* Mutant of Dirty: lost events are not taken into account.
DirtyByEvents == {p \in InOrder : <<"config", p>> \in events}

\* Tasks whose config has changed, which resetConfig makes dirty.
Dirty == IF overflow THEN InOrder ELSE {p \in InOrder : <<"config", p>> \in events}

\* Tasks with a config: checkTasksForEventChanges makes new channels for them, and resets
\* the status of those with changed sources, or with changed declaration files that their
\* build info names.
Checked == {p \in InOrder \ Dirty : resolved[p] # Nil}
ChangedSources ==
    {p \in Checked :
       \/ <<"source", p>> \in events
       \/ /\ p \in Incremental /\ task[p].buildInfo
          /\ \E u \in upStream(p) : <<"declarations", u>> \in events}

\* Mutant of CheckedTasks: no channel is made again.
CheckedSameChannels == [p \in Projects |-> IF p \in ChangedSources THEN Reset(task[p]) ELSE task[p]]

CheckedTasks ==
    [p \in Projects |->
       IF p \in Checked \/ overflow
         THEN LET t == IF p \in ChangedSources THEN Reset(task[p]) ELSE task[p]
              IN  [t EXCEPT !.done = FALSE, !.reportDone = FALSE]
         ELSE task[p]]

StartBuild ==
    /\ phase' = "building"
    /\ index' = 0
    /\ pc' = [b \in Builders |-> "next"]
    /\ reported' = <<>>

Drained ==
    /\ phase = "watching" /\ crashed = Nil
    /\ events # {} \/ overflow
    /\ events' = {} /\ overflow' = FALSE /\ UNCHANGED watched

\* DoCycle: nothing that was changed belongs to a project in the build.
CycleIdle ==
    /\ Drained
    /\ Dirty = {} /\ ChangedSources = {}
    /\ task' = CheckedTasks
    /\ UNCHANGED <<diskVars, graphVars, index, phase, builderVars, reported, crashed>>

\* DoCycle: sources have changed.
CycleSources ==
    /\ Drained
    /\ Dirty = {} /\ ChangedSources # {}
    /\ task' = CheckedTasks
    /\ StartBuild
    /\ UNCHANGED <<diskVars, graphVars, builds, result, crashed>>

\* DoCycle: configs have changed; GenerateGraphReusingOldTasks.
CycleConfigs ==
    /\ Drained
    /\ Dirty # {}
    /\ LET parsed == [p \in DOMAIN resolved \ Dirty |-> resolved[p]]
           graph == GenerateGraph(Resolve(parsed))
       IN  /\ order' = graph.order
           /\ errors' = graph.errors
           /\ resolved' = Restrict(Resolve(parsed), DOMAIN parsed \union ToSet(order'))
           /\ task' = Setup(CheckedTasks, (InOrder \ Dirty) \intersect ToSet(order'), order',
                            resolved')
           /\ missed' = missed \ ({"graph"} \X (Projects \ DOMAIN parsed))
    /\ StartBuild
    /\ UNCHANGED <<config, unseen, newer, failed, late, edits, builds, result, crashed>>

------------------------------------------------------------------------------
BuilderStep(b) ==
    \/ TakeTask(b) \/ NotPending(b) \/ Crash(b) \/ DoesntRequireBuild(b) \/ Compile(b)
    \/ Emit(b) \/ Unblock(b) \/ Report(b)

Next ==
    \/ \E p \in Projects : EditSource(p) \/ EditConfig(p)
    \/ \E b \in Builders : BuilderStep(b)
    \/ EndBuild \/ CycleIdle \/ CycleSources \/ CycleConfigs

Spec == Init /\ [][Next]_vars

\* Builders and the loop that waits for events run; nothing makes anybody change a file.
Fairness ==
    /\ \A b \in Builders : WF_vars(BuilderStep(b))
    /\ WF_vars(EndBuild \/ CycleIdle \/ CycleSources \/ CycleConfigs)

FairSpec == Spec /\ Fairness

------------------------------------------------------------------------------
(* Properties *)

Statuses == {"none", "notFound", "buildErrors", "upstreamErrors", "upToDate",
             "upToDateWithUpstreamTypes", "outOfDate"}

\* Type invariant.
TypeOK ==
    /\ unseen \subseteq Projects \X Inputs /\ newer \subseteq Projects \X Inputs
    /\ failed \subseteq Projects /\ late \subseteq Projects /\ watched \subseteq Projects
    /\ events \subseteq {"source", "config", "declarations"} \X Projects /\ overflow \in BOOLEAN
    /\ edits \in [source : 0..MaxSourceEdits, config : 0..MaxConfigEdits]
    /\ DOMAIN config = Projects /\ DOMAIN resolved \subseteq Projects
    /\ order \in Seq(Projects) /\ errors \in BOOLEAN
    /\ task \in [Projects -> [status : Statuses, ref : Projects \union {Nil},
                              pending : BOOLEAN, isInitialCycle : BOOLEAN,
                              prevReporter : Projects \union {Nil, "open", "closed"},
                              done : BOOLEAN, reportDone : BOOLEAN, buildInfo : BOOLEAN,
                              downStream : SUBSET Projects, spared : BOOLEAN]]
    /\ missed \subseteq {"graph", "outputs"} \X Projects
    /\ index \in 0..Len(order) + Cardinality(Builders)
    /\ phase \in {"building", "watching"}
    /\ pc \in [Builders -> {"next", "build", "emit", "unblock", "report", "exit"}]
    /\ builds \in [Builders -> Projects \union {Nil}]
    /\ result \in [Builders -> {"none", "same", "changed"}]
    /\ reported \in Seq(Projects)
    /\ crashed \in {Nil} \union ({"no build info", "close of closed channel"} \X Projects)

Idle == phase = "watching" /\ crashed = Nil /\ events = {} /\ ~overflow
Settled == Idle /\ ~errors

\* Builders that finish in any order report in the build order, each project after the one
\* before it, and a build has reported every project once when it ends (BuildTask.report
\* waits for prevReporter).  For a project without config nobody waits: its channel may be
\* the one that an earlier build has closed (orchestrator.go:325).
ReportedInOrder ==
    /\ IsInjective(reported)
    /\ \A i \in 2..Len(order) :
         resolved[order[i - 1]] # Nil =>
             \A k \in DOMAIN reported :
                 reported[k] = order[i] => \E j \in 1..k - 1 : reported[j] = order[i - 1]
    /\ Settled => ToSet(reported) = InOrder

\* No channel of a task is closed twice: checkTasksForEventChanges or setupBuildTask made
\* new ones for every task that is built again.
ClosesOnce == crashed = Nil \/ crashed[1] # "close of closed channel"

\* getLatestChangedDtsMTime finds a build info in every task it is asked for.
UpstreamBuildInfo == crashed = Nil \/ crashed[1] # "no build info"

\* When everything the watcher told of has been built, a project that is said to be up to
\* date was made from what its sources, its config and the declaration files of its
\* references are now, unless a reference has errors or its config was edited while the
\* project was out of the graph, see ConfigFresh.  It is what the channel done, the
\* status left by updateDownstream and pseudo-builds must give together.
Fresh ==
    /\ TypeOK
    /\ Settled => \A p \in InOrder :
         /\ ~task[p].pending
         /\ task[p].status = "upToDate" /\ (\A u \in upStream(p) : ~isError(u))
              => \A i \in upStream(p) \union {p, "config"} :
                   <<p, i>> \notin unseen \/ (i = "config" /\ <<"outputs", p>> \in missed)

\* When everything the watcher told of has been built, a project that was skipped because
\* of errors upstream has a reference that is in error (updateDownstream resets those that
\* were skipped because of a project that has been built), unless the reference it was
\* skipped for was skipped too and then needed no build (buildtask.go:303).
SkipJustified ==
    Settled => \A p \in InOrder : task[p].status = "upstreamErrors" =>
        \/ \E u \in upStream(p) : isError(u)
        \/ task[p].ref \in upStream(p) /\ task[task[p].ref].spared

\* When everything the watcher told of has been built, the graph is the one that the
\* configs describe now: of the configs that resolvedReferences keeps (host.go:28) only
\* those are old that were edited while their projects were out of the graph, and so not
\* watched.
ConfigFresh == Idle => \A p \in InOrder : resolved[p] = config[p] \/ <<"graph", p>> \in missed

\* The first of the order waits for the reporter it had in an older graph
\* (orchestrator.go:201), which is behind it in the order or not used any more.
FirstWaits == order # <<>> /\ task[order[1]].prevReporter \notin {Nil, "closed"}

\* The process crashed over a project without config, whose channels are not made again
\* (orchestrator.go:325), or over one that refers to it.
MissingConfig ==
    crashed # Nil /\ LET p == crashed[2] IN
        \/ resolved[p] = Nil
        \/ crashed[1] = "no build info" /\ \E u \in upStream(p) : resolved[u] = Nil

\* Every build ends, and its changes are watched for: no builder waits for a task that
\* nobody finishes or reports, and no channel is closed twice, except over a missing config
\* or when a project used again has become the first.
BuildEnds == phase = "building" ~> (phase = "watching" \/ FirstWaits \/ MissingConfig)

\* Every build ends, without an exception: violated, BuildReordered.cfg.
AlwaysEnds == phase = "building" ~> phase = "watching"
=============================================================================
