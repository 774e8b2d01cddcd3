# TLA+ models of tsc-p

tsc-p is a fork of the Go port of the TypeScript compiler: `src/tsc` holds the
compiler, the language server and the build mode (`internal/`), the hooks and
plugins of tsc-p (`internal/tscp`), `src/packages` the
API client, and `src/tsc-p` the npm packages. This directory specifies the parts
whose correctness depends on the interleaving of goroutines or on long sequences
of calls, checks them with TLC on small instances, and proves the central
properties of nine of them with TLAPS for every instance.

| Module | Code (under `src/tsc/`) | Kind |
|---|---|---|
| `CheckerPool` | `internal/project/checkerpool.go` | component |
| `CheckerPoolProofs` | | theorems |
| `SharedValue` | what `RefCountCache` promises | abstract specification |
| `RefCountCache` | `internal/project/refcountcache.go` and its callers | component |
| `RefCountCacheProofs` | | theorems, refinement |
| `OwnerCache` | `internal/project/ownercache.go`, `extendedconfigcache.go`, the parts of `snapshot.go` that use them | component |
| `OwnerCacheProofs` | | theorems |
| `SessionSnapshots` | `internal/project/session.go`, `snapshot.go`, `snapshothost.go`, `programcounter.go`, `api.go` | composition of calls, background tasks and snapshots |
| `SessionSnapshotsProofs` | | theorems |
| `SnapshotEffects` | background tasks of `internal/project/session.go`, `watch.go`, the client's side in `internal/lsp/server.go` | composition of tasks and client |
| `SessionTasks` | refresh and global diagnostics of `internal/project/session.go`, `background/queue.go` | component |
| `LspServer` | `internal/lsp/server.go`, `dynamic_queue.go` | component, composed with `SessionTasks` |
| `LspServerProofs` | | theorems about `LspServer`, `SessionTasks` and `SnapshotEffects` |
| `OverlayMap` | what `DirtyMap` promises | abstract specification |
| `DirtyMap` | `internal/project/dirty/syncmap.go` | component, refinement |
| `DirtyMapProofs` | | theorems, refinement |
| `FsWatch` | `internal/fswatch/watcher.go`, `debounce.go`, `event.go` | component |
| `FsWatchProofs` | | theorems |
| `WatchMode` | `internal/execute/watcher.go`, `internal/execute/watchmanager` | composition of watches and cycles |
| `WatchModeProofs` | | theorems |
| `ExtendedConfigs` | `internal/tsoptions/tsconfigparsing.go` (extends), `internal/execute/tsc/extendedconfigcache.go` | component |
| `BuildGraph` | `setupBuildTask`, `createBuildTasks` of `internal/execute/build/orchestrator.go` | recursive algorithm |
| `BuildOrchestrator` | `internal/execute/build/*.go` | component |
| `MC...` | | instances for TLC |

`PROJECT.json` maps every definition to the lines it models, and lists
components, runs, mutants, hazards and theorems.

## 1. Inventory

### Language server

* **Session and snapshots.** *State:* the current snapshot, two mutexes
  (`snapshotUpdateMu`, `snapshotMu`), pending file and preference changes, a
  reference count per snapshot, a count of snapshots per program. *Operations:*
  flush, update, API update and its rejection, clone for auto-imports, adoption,
  warming, dispose. *Interaction:* request handlers, notifications, timers, API
  clients and background tasks run concurrently; clones for handlers are made
  without any lock and adopted later. *Hard:* who releases which reference; a
  clone that is adopted over newer changes; a failure after a flush. *Correct
  when:* counts are exact, nothing the client changed is lost, a program lives as
  long as its snapshots, what is left is disposed of.
* **Effects of snapshots on the client.** *State:* a count and an identity per
  watched pattern, watches whose registration failed, the extensions registered
  last and the snapshot they came from. *Operations:* one background task per
  update acquires and releases patterns, registers and unregisters them with the
  client, registers extensions, publishes diagnostics. *Hard:* tasks of successive
  snapshots overlap and overtake each other; client calls fail or time out between
  two sections under the lock. *Correct when:* the client watches what the newest
  snapshot needs and knows its extensions.
* **Background work.** *State:* the generation and the cancel function of the
  debounced refresh, whose context ends with the server, the flag that a
  publishing is pending, the queue's `closed`. *Operations:* schedule, cancel,
  wake, run; enqueue, publish; close. *Hard:* a timer that fires while it is
  canceled or put off. *Correct when:* a refresh comes exactly if it is still
  wanted.
* **LSP server.** *State:* queues of requests and of outgoing messages, pending
  requests in both directions, whether it is initialised, its session.
  *Operations:* the read, dispatch and write loops, a goroutine per asynchronous
  handler, calls of the client, cancellation, shutdown and exit. *Hard:* a
  cancellation at any stage of a request, also between its answer and its removal
  from the table; panics; results that cannot be written; a handler that waits for
  the client in the dispatch loop. *Correct when:* every request is answered
  exactly once, and the server stops when it should.
* **Checker pool.** *State:* slots with a checker and a holder, associations of
  files and requests with slots, three channels used as semaphores, an idle
  timer, accumulated global diagnostics. *Operations:* GetChecker for three
  lifetimes, release, cleanup, Discard, TakeNewGlobalDiagnostics. *Hard:* the
  channels are used outside the mutex, a slot number read before waiting is used
  afterwards, contexts end at any time, a timer callback may be in flight.
  *Correct when:* a checker is used by one goroutine at a time, no panic is
  reachable, canceled checkers are never handed out, every caller is served.
* **Reference-counted caches** of parsed files. *State:* a concurrent map of
  entries with a mutex and a count. *Operations:* Acquire, Ref, Deref. *Hard:* an
  entry may be deleted between its load and its lock, deletion is by key.
  *Correct when:* the count is exact and all holders hold one value.
* **Extended config cache** of the language server. *State:* entries with sets of
  owners (snapshots) and a content hash. *Operations:* LoadAndAcquire, AddOwner,
  Release. *Hard:* owners of nested files are added after parsing, entries are
  parsed anew in place, several configs extend one file, configs are parsed that
  are not kept. *Correct when:* an entry lives exactly as long as its owners, and
  each snapshot's configs are made from the contents it sees.
* **Dirty maps** in which the builders of a snapshot change what they take over
  from the old one. *State:* a base map, a concurrent map of dirty entries, a mutex
  per entry. *Operations:* Load, LoadOrStore, Change, ChangeIf, Delete, Locked,
  Finalize. *Hard:* several goroutines have entries of their own for one value until
  one of them wins the race into the map. *Correct when:* every operation happens
  once to what Finalize returns, and never to the old snapshot.
* **Overlays, project collection, ATA, IPC connections, API sessions**: see
  section 5.

### Command line

* **Build orchestrator** (`tsc -b`, `-w`). *State:* a task per project with its
  status and two channels, the build order, parsed configs, watches and events.
  *Operations:* graph construction, parallel builders that take tasks in order,
  wait for upstream tasks, compile, emit, update downstream tasks and report;
  watch cycles that reuse tasks. *Hard:* waiting on channels of tasks of an older
  graph, statuses that outlive a build, lost events, failures of one project.
  *Correct when:* every build ends, the order is right, and what is said to be up
  to date is made from what is on the disk.
* **Extends resolution** with the cache all projects of a build share. *State:* a
  stack per goroutine, locked cache entries. *Hard:* a parser holds locks while it
  waits for others, which may wait for it. *Correct when:* every parser returns
  what it would without the cache.
* **File watching** (`fswatch`). *State:* a dirWatch per directory with its
  callbacks and pending events, the backend's subscriptions, a debouncer with a
  latch. *Operations:* watch, close, rollback of a failed registration, events,
  deleted roots, fatal errors, the loop that coalesces and calls back. *Hard:*
  watches of a directory share a subscription and come and go concurrently; events
  and errors come at every stage of the loop. *Correct when:* an open watch is
  told of every event, and nothing is left of closed ones.
* **Watch mode of one project and watch manager.** *State:* watched directories,
  changed paths and an overflow flag, a signal channel, the parsed config and its
  time, a cache of source files, the program. *Operations:* event callbacks,
  terminated watches, DoCycle: recheck of the config, sorting of events, fast or
  full build, reconciliation of watches. *Hard:* files change during a build;
  watches end while watches are being made; the fast path skips most checks.
  *Correct when:* once all is quiet the program is the one the disk calls for.
* **Incremental programs, file loader, work groups**: see section 5.

### tsc-p

* **Hooks, defaults and plugins** (graph, paris, pathrewrite, bouncer, pure):
  mostly sequential algorithms over syntax; see section 5.

### Left aside

Scanner, parser, binder, checker, transformers, printer, module resolution,
language service features, formatting and source maps compute on unbounded data
without concurrency of their own and are out of a model checker's reach; with the
generated code of syntax, protocol and diagnostics they are most of the
repository's lines. npm packaging is scripts.

## 2. Models

Every section of code between two points where another goroutine can intervene
(a lock, a channel operation, a call without a lock) is one action. Definitions
keep the names of the code where they have one. An operator named in a comment
"Mutant of X" is a wrong variant of X and is used by nothing but the mutation
runs in `PROJECT.json`. A module's type invariant is a conjunct of the first
invariant of its run where the run does not list it by itself.

### CheckerPool

A call of GetChecker goes through "sem" (waits for its channel), "tok" (has its
element of the channel, `p.mu` still to be locked), "held" or "borrowed", and
"freed" (slot given back under `p.mu`, channel element still to be received).
`Call...` (the first look at the request's association), `ClaimSlot` (channel
send), `Reclaim`, `ReclaimLost`, `getDiagnosticsChecker`, `getQueryChecker` and
`getPersistentChecker` (under `p.mu`), `Release...`, `FreeSlot` (channel receive),
`TimerFires`, `cleanupIdleCheckers`, `RequestCleanup`, `TakeNewGlobalDiagnostics`
and `Discard` are the sections of checkerpool.go; `Check`, `CheckCanceled` and
`CtxDone` are its clients. Time is
abstracted: a released checker may expire at any later moment. Checkers are
objects with a set of global diagnostics and a flag "was canceled". Calls nest
two deep inside one goroutine, as the language service does.

### RefCountCache and SharedValue

One key, since entries of different keys share nothing. The clients follow the
discipline of the callers: a reference is acquired, or cloned with Ref from one
whose program is alive until Ref returns (`lender`), and given back once.
`SessionSnapshots` justifies that discipline: `ProgramsLive` says that the parent
of a clone is alive throughout the cloning. `SharedValue` is the abstract
specification: whoever obtains a value is given the one that others hold.

### OwnerCache

Snapshots are cloned and disposed of concurrently. A clone parses a set of configs
(`P`) through LoadAndAcquire, whose entries stay locked while the files they
extend are parsed; its registry (`R`) has some of these and some of its parent's,
for the builders also parse configs that no project or open file retains in the
end (configfileregistrybuilder.go:313, 814). A config that has changed and is not
parsed again is in `pendingReload`. Then the clone becomes an owner of every file
the configs of its registry extend (AddOwner); dispose releases them. Both loop
over the registry, a Go map (`NextConfig` takes any), and within a config over its
`ExtendedSourceFiles` in alphabetical order (`NextOf`): these are all files it
extends, directly or not, the least set that is closed under extending. What was
acquired for configs that are not in the registry keeps its owner for ever, as in
the code. The history variable `struck` has the files of which a Release has
deleted another entry than the one it had found (ownercache.go:87).

A snapshot is built by one goroutine. Only acyclic and fixed lists are modelled
(`AcyclicAssumption`): a file that extends itself bypasses the cache and is the
subject of `ExtendedConfigs`. `First` stands for the session's snapshot and for
root snapshots of API clients, which may be cloned several times at once. A
goroutine that panics stops, which is why its run does not check deadlock.
`Sessions` lists what is explored: *Nested* (one config extends a file that
extends another one, contents change) and *Shared* (two configs extend one file).

### SessionSnapshots

A snapshot is abstracted to the number of file changes in it, the version of the
preferences, and one program. Calls are of five kinds: request, API update, open,
timer, publish. Over-approximations: `Dispose` may come any time after the last
release (in the code it follows at once, outside the lock), `WarmCanceled` at any
time. `snapshotUpdateMu` is released together with `snapshotMu`, since the code does
nothing to the shared state between the two. The contents of a disposed snapshot are
forgotten, and identities are used again when nobody knows them.

### SnapshotEffects

Snapshots are numbered by their IDs; a snapshot has, per *slot* (a watch of a
project or a config), a set of patterns and the ID that `WatchedFiles` gives it: 0
when the clone has the patterns it was cloned with, new otherwise. Each update
starts a task (`Step`) that goes through the slots: `Compare` acquires or releases
under the registry's mutex, `WatchFiles` and `UnwatchFiles` are the calls of the
client, outside the mutex, which may fail, `Settle` is the section after the call
with its rollback; then extensions and diagnostics. What a new snapshot contains
is chosen freely. An adopted clone (`adoptSnapshotChange`) starts no task.

### SessionTasks and LspServer

`SessionTasks` has the session's side of the debounced refresh and of the
publishing of global diagnostics; `LspServer` extends it, calls it from handlers
and lets its tasks send to the client. The client follows a script, chosen in
`Init`, and may cancel a request or go away at any moment. The dispatch loop runs
the synchronous part of a handler; asynchronous work is `WorkDone` (ready to
reply, canceled, failed or panicked) and `WorkReplies`. `Reply` queues an answer;
`removeRequest` is a step of its own, before which a cancellation still finds the
request. A refresh that is scheduled once the server's context is done is dropped
(`Dropped`), and one that sleeps then may go (`Wake`), as the background context
derives from the server's. `handleInitialized` calls the client twice from the
dispatch loop (`Call`, `CallEnds`). Messages nobody answers are not followed
through the queue. `exit` ends the dispatch loop, the end of input all of them.

Requests about documents are sent after `initialized` in these scripts: before,
their handlers (server.go:1341), which unlike the others do not ask whether there
is a session, dereference nil.

### OverlayMap and DirtyMap

The abstract map has for every key a value, or says that it is absent or deleted;
an operation that was called happens at one moment before it returns. In
`DirtyMap` a value is an object of a heap that counts the changes each goroutine
has made to it, so that a lost, a repeated and a misdirected change are told
apart. An entry has the five fields of the code; `InPlace`, `Offer` (LoadOrStore
into the dirty map), `Won`, `Lost`, `Forward` (through `proxyFor`) are the paths of
`changeLocked`. Entries that nobody refers to are garbage and used again. With
`RacingDeletes = FALSE`, deletions come when no other goroutine has an entry, as
in the builders' sequential phases (`Sequential`).

### FsWatch

The watches of one directory, each made, rolled back and closed by a client of its
own at any time. An event's sequence number, which keeps it from callbacks that
were registered later, is abstracted to the set of watches the event is for.
`getOrCreateDirWatch`, `watch`, `watchAdd`, `rollback`, `Close` (with `unwatch`),
`watchRemove`, `unref`, `removeDirWatch` are the steps of making and closing a
watch; a rollback does not use the answer of unwatch. `Event`, `setError` (an
overflow, or the root was deleted), `Terminate` (directories below it were),
`notify`, `fatal`, `handleWatcherError`, `TakeCallbacks`, `notifyError` are those
of a backend: `subs` are the subscriptions as the code has them, `live` those from
which the operating system still reports, which a deleted root is not. `latchWait`
... `Fired` are the steps of the debounce loop; a call of a callback is one of
them.

The code does not withstand every overlap, so five history variables, read by the
properties only, tell what has happened: `due` (something happened to a watch and
nobody has taken it up), `warned` (told of an error), `late` (registered on a
dirWatch that another watch was giving up or whose root was gone), `missed` (its
dirWatch was made while a round of the loop was between copying its list and
resetting the latch) and `spoiled` (a dirWatch whose last watch was rolled back,
or whose callbacks a fatal error took).

### WatchMode

`wm.mu` is held for a whole cycle, so `DoCycle` is a sequence of actions with a
program counter during which files change, events come and watches end, but their
handlers wait where they take the lock. Contents are version numbers; the parsed
program is the files it has, in which versions, and which were looked for in vain.
The cache keeps what was parsed until an event evicts it. The backend delivers the
events of watched directories late and in any order, or an overflow in their
place. The history variable `slipped` has the edits that no cycle will see: of a
file that was already read in a directory that the cycle is yet to watch
(`Slips`), and of the config between its parsing and the reading of its time
(`SlipsConfig`, watcher.go:440 and 500), until the file is read or the config
parsed again. The directories to watch are those of the config, of its patterns
(`Matching`) and of every file looked for. `Wanted`, the program to compare with,
is the least set that has what the config includes and what its files import.

### ExtendedConfigs

A parser's state is its stack of `parseConfig` frames. A cache entry is locked
from the moment it is stored until the config and everything it extends is parsed.
What a config contributes is abstracted to its name; a result is the set of
configs merged and whether a circularity was reported. `Inputs` is the set of
graphs and of project configs considered. This cache is the one that
`createBuildTasks` of the orchestrator uses from all its goroutines. Parsers
terminate, or wait for each other in a cycle of extends, hence no deadlock check:
`AllReturn` says that there is no other way, `NeverDeadlocks` what should hold
instead.

### BuildGraph and BuildOrchestrator

`BuildGraph` is the recursive construction of the order, with the analysis of
cycles; `BuildOrchestrator` takes it as the constant operator `SetupBuildTasks`,
so that it stays free of recursion. The disk is abstracted to two relations
between projects and their inputs (own sources, config, declaration files of
references): *unseen* (the outputs were not made from the present input) and
*newer* (the input has a later time stamp than the outputs, which is what the code
can see). `Compile` reads, `Emit` writes; a source edited in between is `late`.
Incremental projects notice unchanged declaration files. A builder takes the next
task, waits for `done` of its upstream tasks, decides by status, builds, updates
its downstream tasks, closes `done`, waits for `prevReporter` and closes
`reportDone`. The three `Cycle...` actions are the ways through a watch cycle:
nothing to do, same graph, new graph with reuse of tasks, which keep the
`prevReporter` and the `downStream` they had. Events may be replaced by an
overflow, after which everything is looked at. A process that panics sets
`crashed` and stops, and a build that ended waits for edits that need not come: no
deadlock check. Two histories serve the properties: `missed` has the configs that
were edited while they were parsed but not watched, and a task is `spared` when it
was found up to date after a reset.

Left out: `--clean`, `--dry`, `--force`, projects without files, content mappers,
package.json lookups, directory events and changes of the set of file names, and
watches that cannot be made.

## 3. Runs

| Run | Instance | States | Shows |
|---|---|---|---|
| `CheckerPool` | a request with a nested query, a diagnostics and an API call, beside a query without request ID; two query slots, one file, two diagnostics | 554,000 | no panic, exclusive use, canceled checkers not offered, associations lead to live checkers, merging by count loses nothing |
| `RefCountCache` | four references | 1,200 | exact count, owners find their entry, refinement of `SharedValue` |
| `OwnerCache` | *Nested*: three snapshots, two contents; *Shared*: four snapshots, two configs on one file | 1,162,000 | owned while live unless struck, released when gone, configs fresh |
| `DirtyMap` | two goroutines, an old and a new key | 85,000 | the old snapshot is not written, entries of one key agree, refinement of `OverlayMap` |
| `Session` | request with auto-import clone, API update, open, timer, publish; a file and a preference change | 1,380,000 | exact references, programs live, no file change lost |
| `SnapshotEffects` | two updates, one of which may be an adopted clone; two watches that may share a pattern; one failing call | 727,000 | watches registered however tasks overtake each other; extensions never older |
| `LspServer` | four scripts of clients, fair | 523,000 | each request answered once, and answered; the server stops; a refresh comes exactly if wanted, or the server ends |
| `FsWatch` | two watches of a directory, made, rolled back and closed concurrently, two errors, fair | 651,000 | open watches served, nothing left of closed ones, events delivered, with the exceptions `late`, `warned`, `spoiled`, `missed` |
| `WatchMode` | two included files, one imported from another directory; two edits, one fault, fair | 553,000 | program and watches right when all is quiet, and a stale program is built again, unless an edit has slipped |
| `ExtendedConfigs` | two parsers, or one, on all graphs over three configs and all chains over four, fair | 216,000 | all return the right result unless they wait for each other in a cycle |
| `BuildConfigs` | three projects, two builders, three edits, of configs and one source, missing configs, cycles, lost events | 3,758,000 | outputs and graph follow the disk, but for `missed` configs |
| `BuildFair` | three projects, 12 graphs, an edit of a config or a source, `--stopBuildOnErrors`, fair | 656,000 | builds end but for `FirstWaits` and `MissingConfig`, order right, reports in order, skips justified unless `spared` |

### Further configurations

Where the code falls short of what its properties should say, the property names
the case as an exception, in terms of the state or of a history variable, and its
run reaches that case: without the exception TLC finds the property violated by
the same run. So the run shows that there is no other way, and the exceptions are

| Property | Excepted | Case in the code |
|---|---|---|
| `OwnedWhileLive` | `struck` | a file extended by two configs is released twice, the second time from a younger entry (ownercache.go:87) |
| `OpenIsServed` | `late` | a watch is made while the last one of the directory is between `unwatch` and `watchRemove` or after its root was deleted, on a dirWatch that nothing reports to (watcher.go:611, inotify_linux.go:356) |
| `OpenIsServed` | `warned` | a watch that was told of an error is for its client to close; an overflow that is already pending swallows the end of the root (event.go:203) |
| `NothingLeft` | `spoiled` | a rollback that finds itself last does not unsubscribe (watcher.go:493); after a fatal error Close does not find itself last (917, 1089) |
| `Delivered` | `missed` | the trigger of a dirWatch made between the copy of the list and the reset of the latch is undone until a later round (debounce.go:109, against the comment at 26) |
| `FreshWhenQuiet`, `CatchesUp` | `slipped` | edits between parsing and watching (watcher.go:440, 500) |
| `AllReturn` | `Deadlocked` | two parsers enter a cycle of extends at different configs (tsconfigparsing.go:1032) |
| `ConfigFresh`, `Fresh` | `missed` | the cached config of a dropped project is used when it is referred to again (host.go:28) |
| `SkipJustified` | `spared` | a project stays skipped because the one it was skipped for needed no build (buildtask.go:303) |
| `BuildEnds` | `FirstWaits` | a task used again that becomes the first keeps its old `prevReporter` (orchestrator.go:201) |
| `BuildEnds`, `ReportedInOrder` | `MissingConfig` | no channels are made for a task without config (orchestrator.go:325), nor a build info (buildtask.go:894) |

The following configurations are kept beside the runs. All but two violate their
one property and mark the border of what the passing runs claim.

| Configuration | Property | Behaviour |
|---|---|---|
| `CheckerPoolFair` | `Served`, `IdleDisposed` (hold) | callers that do not nest are served, idle checkers go |
| `SessionApi` | `OldDisposed` (holds) | under fairness every snapshot the session has left is disposed of |
| `CheckerPoolAffinity` | `SameCheckerWhileHeld` | a request whose associated slot went to another request gets a second slot for a nested call (checkerpool.go:280) |
| `CheckerPoolEmit` | `Exclusive` | two goroutines of one request are given one checker (checkerpool.go:189) |
| `OwnerCachePanic` | `AddOwnerSafe` | a snapshot being disposed of has released the inner of two nested extended files and not yet the outer one; a clone finds the outer one cached, does not load the inner one, and `AddOwner` of it panics (ownercache.go:57 asks callers to keep the entry alive) |
| `ExtendedConfigsCycle` | `NeverDeadlocks` | projects a and b extend x and y, which extend each other: a's goroutine holds x and waits for y, b's holds y and waits for x (extendedconfigcache_test.go:26 promises an error, "not a deadlock") |
| `SessionPrefsLost` | `PrefsNotLost` | an API update consumes pending preferences without applying them (api.go:23) |
| `SessionClone` | `HandlerKeepsAlive` | an auto-import clone is disposed of under its handler (session.go:1287) |
| `SnapshotEffectsMapper` | `RetriedByNextUpdate` | a registration of extensions that failed half-way is not tried again when the next snapshot goes back to the extensions before (session.go:1576) |
| `BuildReordered` | `AlwaysEnds` | a reused task that becomes the first keeps its old `prevReporter` and waits for ever (orchestrator.go:201) |
| `BuildMissingSource` | `ClosesOnce` | a task without config closes its channel again after any source edit (orchestrator.go:325) |
| `BuildStopStale` | `Fresh` | with `--stopBuildOnErrors` declarations emitted with errors are never seen downstream (buildtask.go:185) |

More borders can be seen by changing a constant or the property of a run's configuration:

* `BuildConfigs` with `EditWhileBuilding = TRUE` violates `Fresh`: a source edited
  during a build is not built (orchestrator.go:258). `UpstreamBuildInfo` fails
  when the config of a reference is removed (buildtask.go:894).
* `BuildFair` with two edits of configs or sources of `Moving` and with three
  source edits of `Triangle` (safety only) passes, with 785,000 and 325,000
  states.
* `CheckerPool` with `UsedCheckersCollected`: global diagnostics of the API checker
  are never merged (checkerpool.go:329).
* `Session` without the API update satisfies `PrefsNotLost`.
* `DirtyMap` with `RacingDeletes = TRUE` violates `Implements`: `Delete` of an entry
  that lost the race marks the loser (syncmap.go:153) although the comment at 50 says
  that changes go to the winner; the builders call it in sequential phases only.
* `DirtyMap` with `Ops = {"changeIf"}` violates `ReloadOnce`: a `ChangeIf` whose
  condition held for the base value is made although another goroutine has changed
  the value meanwhile; two goroutines read one file again (snapshotfs.go:434).
* `FsWatch` with three watches and one error passes its two invariants, with 2.5
  million states. That the callback of a watch may be called by the loop and, for
  a fatal error, by the backend at once (watcher.go:169 promises serial calls) is
  not seen, since a call is one step.
* `SnapshotEffects` with `RollbackClean`: after a failed registration the old patterns
  are released although they were not acquired for the new watch (session.go:1511, 1533).
* `SnapshotEffects` with `AdoptedWatched` (the watches of an adopted clone are
  compared with nothing), `NothingLeaked`, `DiagnosticsNewest` (an older task
  publishes last). Two patterns in place of one pass with 2.3 million states.
* `SnapshotEffects` with `MaxUpdates = 5`, one watch and one pattern violates
  `WatchesRegistered`: `WatchedFiles.Clone` does not copy the watcher ID (watch.go:281), so
  every clone with the patterns of its original has the ID `<name> watcher 0`; a task that
  has removed the entry of one such registration (session.go:1538) and calls the client
  late ends the next registration of that name, which a newer task keeps. With four
  updates it holds in all 6.5 million states; with an ID for every clone, five to seven
  updates gave no counterexample in random behaviours.
* `WatchMode` with `WaitsForConfig`: a watch that ends while the config has errors is
  not made again: the cycle ends early, and the correction is not seen
  (watcher.go:285, against the message at 684).
* `LspServer` with `GlobalsPublished`: diagnostics found after the projects were looked
  at and before the flag is reset wait for another request (session.go:1970).
* `LspServer` with `NothingAfterClose`: a type acquisition that ends between
  `cancelDiagnosticsRefresh` and the closing of the queue starts a refresh.

### Bounds

* *Checker pool.* Two query slots, a request that nests and a competitor give
  every state of a slot against every stage of a call; the proofs cover larger
  pools. `Checkers` has an identity for every place that can refer to one, so
  creation never blocks. The `VIEW` names checkers by the places that refer to
  them, which identifies only states that differ in names. The constraints
  `OneExtra` and `OneEach` explore the second query checker, the API's checker and
  global diagnostics one at a time, each with everything else; states beyond them
  are checked but not left.
* *Reference counts.* Four references: a producer, a waiter on a dead entry, a
  clone and its lender. One object per reference and one in the map.
* *Owner cache.* Three snapshots: one being disposed of, one live, one cloned. For
  a late Release to hit a younger entry, another one must have been disposed of,
  hence four with `Shared`.
* *Session.* Three snapshots: the current one, the one being built or a clone, and
  one being disposed of, and a call of every kind. One change of each kind is
  enough to be lost.
* *Dirty map.* Two goroutines race for a key; four entries: one of each, one in the
  map, one stale; three changes: before, in and after the race.
* *Effects.* Two watches are the least that share a pattern. Two tasks overtake each other
  in every way there is for one registration; registrations of the same name need
  five and are listed above.
* *Server.* Scripts rather than all sequences: the dispatch is in order, so what
  matters is what is in flight together: two asynchronous requests, an edit and a
  refresh, shutdown and a refresh, exit before and after `initialized`.
* *File watching.* Two watches: the last one and one that comes; two dirWatches:
  an orphan and its successor; two errors: one pending and one after it. One
  directory, since directories share the loop only.
* *Watch mode.* An imported file outside the config's directory makes directories
  come and go; two edits, because one is needed to start a build and one to come
  during it.
* *Extends.* Three configs give diamonds and cycles of length up to three; the
  deadlock needs two project configs outside the cycle, hence the chains over four.
* *Build.* Three projects are the least with an indirect reference. Edits come
  between builds (`EditWhileBuilding = FALSE`). Three edits drop a project, change
  its config and refer to it again. In `BuildFair` one edit between two builds
  suffices to reorder the projects, to remove a config and to leave a project
  skipped. Expected ("circular") cycles are in `BuildFair` only: with them a
  project built before its reference counts as up to date when the cycle is
  repaired.
* *Symmetry* is used in safety runs only, over identities that no definition
  tells apart (builders, objects, references, snapshots other than the first,
  goroutines and entries of the dirty map, slots and patterns).

`CHECK_DEADLOCK FALSE` stands where the system may stop: a server that has exited, a
watcher to which nothing happens, a pool whose nested callers wait for each other.

### Fairness

* *Pool.* Weak fairness of every section of code and timer, as the Go scheduler
  gives; strong fairness of `ClaimSlot`, because waiting senders of a Go channel
  are served first in, first out. None for new calls, cancellation or Discard.
  Calls that hold a checker return.
* *Session.* Weak fairness of calls and disposal; strong fairness of adoption and
  warming, which wait for `snapshotMu`: Go's mutex enters starvation mode and
  hands itself to the longest waiter. None for the client.
* *Server.* Weak fairness of the loops, of every asynchronous handler and background
  task; a client that is there answers calls. None for what the client sends, for
  cancellation or for its going away.
* *File watching.* Weak fairness of the debounce loop and of a backend that has
  recorded something; strong fairness of firing, because `maxWaitTime` ends the
  coalescing however often it is triggered. None for events and clients.
* *Watch mode.* Weak fairness of the cycle and of the delivery of events and
  handlers. None for edits and faults.
* *Extends, build.* Weak fairness per parser, per builder and of the watch loop.
  Nobody is obliged to edit a file.

## 4. Proofs

The proofs are checked by TLAPS for every value of the constants that satisfies the
named assumptions of the modules (sets that are finite, special values that are no
members of the sets beside them, bounds that are numbers), and TLC evaluates those on
every run. Each `IInv` was an invariant of the component's run before it was proved
inductive. A theorem that holds under a discipline of the callers says so in its
statement; section 3 shows what happens without it, and what the exceptions are that some
properties name.

**CheckerPoolProofs**, for any finite set of calls, any requests, files,
diagnostics, and `MaxCheckers >= 2`. `IInv` is

* `TypeOK`;
* `TokensCounted`: each channel holds as many elements as there are calls of its
  category between the send and the receive;
* `Ownership`: a call that holds a checker is the only holder of its slot, which
  names its request; a held slot has such a call; a call that waits to reclaim a
  slot has one of its category; no checker is in two places.

`PanicFree` is not inductive: that a query slot is free when a call has its
element of `querySem` follows by counting. Were all query slots held, `Ownership`
would give an injection from slots to holders, and with the call itself there
would be more elements in the channel than `TokensCounted` and `TypeOK` allow
(`SlotAvailable`). Theorems: `TypeCorrect`, `NoPanic`, and `ExclusiveUse`, which
assumes `Sequential` (a request calls from one goroutine) and adds `Borrows`: a
borrowed checker is the one its parent, blocked below it on the same goroutine,
holds. Three more rest on it. `CanceledKept` (also `Sequential`): a checker
that is used or canceled and still in a slot is held there. `NoneMissed` (`Sequential`):
the merge is skipped when a checker has as many diagnostics as were merged
from it, which is right because what was merged is a subset of what it has
(`MergedStep`), so that equal counts mean equal sets (`CountIsWhole`).
`AssociationsStayLive` needs no discipline: whatever disposes of a checker removes the
associations with its slot under the same lock.

**RefCountCacheProofs**, for any finite set of references and any objects. `IInv`
adds to `TypeOK` and `CountExact`: an entry is locked only by its producer, all
counted references count in the entry in the map, a producer is the only counted
one, a waiter knows an entry that is dead, or the one in the map, a lender stays
held while it is cloned from, and holders have the value of the entry. `CountExact`
alone does not say in *which* entry a reference is counted, so a delete by key
could hit another one. Theorems: `CacheTyped`, `CountCorrect`, `OwnersSafe`, `Refinement`
(every step is a step of `SharedValue` or leaves what clients hold unchanged).

**OwnerCacheProofs**, for any snapshots, configs, files, acyclic "extends" lists
and contents. `Parse` says that an entry's value is made from the versions that
its hash was computed from, and that a frame of a parser has read exactly what its
snapshot sees of the files applied so far and of all that those extend
(`FrameOK`); so a value is taken only if it is what the parser would have read
itself, and `ExtendedUnfolds` turns the frames' reads into what the whole file
extends (`ConfigsFresh`). `OwnedWhileLive` and `ReleasedWhenGone` hold for configs
that share files, and clones that parse what they do not keep, because every entry
was made for one file, under which it is found, parsed and in the map, although
objects are used again (`Named`): so an entry with an owner is in the map, unless
its file was struck. A parser's locked entries stay there until it unlocks them
(`LockedBy`). `Owns` follows a snapshot through its loops: while it is built and
lives it owns the files it has done with, unless struck, and while it is disposed
of none of those, whatever entry is in the map by then; if the entry that it has
found to release is not in the map any more, it does not own the one that is.
Theorems: `ConfigsFresh`, `OwnersKeepEntries`, `GoneOwnNothing`.

**SessionSnapshotsProofs**, for any calls, snapshots, programs and numbers of
changes. The count of a snapshot is compared with the sizes of four sets of
holders (the snapshots of calls, clones, adoptions, children in the making), so
every action is shown to move one member in or out of one set (`Counted`). That
these are the right sets needs what each stage of a call holds (`CallsWellFormed`,
`TasksWellFormed`), that whatever is held is made (`HeldMade`), that a snapshot
being built has one builder (`Built`, `HasBuilder`, `Distinct`; `BuildersKept` is
the lemma that the actions leaving the builders alone share), and that it is not
warmed yet (`NotWarmed`). `ProgramsCounted` says that a program's count is the
number of finished snapshots that have it, that it is live while any snapshot has
it, and that a program which is not the parent's belongs to the snapshot being
built alone; `FilesTracked` extends `FilesNotLost` to the time of an update, when
the flushed changes are in the hands of the call that holds `snapshotUpdateMu`.
Theorems: `SnapshotsRefsExact`, `SnapshotsProgramsLive`, `SnapshotsFilesNotLost`.

**DirtyMapProofs**, for any goroutines, keys and entries. `IInv` says what an entry may
be at each stage of an operation (`CallsWellFormed`): a dirty entry of the dirty map has
a value of its own (`Stored`), what a goroutine holds is that entry, leads to it, or is
private (`Held`), only entries of the dirty map are shared (`Unshared`), one that was
offered stays locked until it is changed (`Offered`), no counter exceeds the changes made
(`Bounded`). Theorems: `BaseValuesUntouched` and
`HandlesLead`, racing deletions included, and `SyncMapImplements`, the refinement of
`OverlayMap` under `Disciplined` (`RacingDeletes = FALSE`), where a deletion is
alone (`Alone`). Each step of the code is one step of the abstract map or none
(`Simulated`): an operation takes effect where the value it counts in becomes the dirty
map's or is changed there, and `OverlayValue` says what the abstract map holds for a key.

**FsWatchProofs**, for any watches and dirWatches, and any number of errors;
clients and backend are not restricted. `OpenIsServed` is not inductive: what a
callback registered in time (not `late`) can rely on is `Timely`: nobody is giving
its dirWatch up, the dirWatch is subscribed once the watch is open, and the
subscription does not die without a warning. It rests on facts that hold in every
interleaving: the debouncer knows the directory's dirWatch and no other
(`AddedIsCur`), a callback is that of a watch that is being made or is open, on
its own dirWatch (`CallbacksKnown`), and is registered from `watch` to `Close`
unless a fatal error took it (`MakersKnown`), which was told (`ToldWarned`).
`NothingLeft` needs that a subscription has a callback or somebody who is about to
remove it (`SubscriptionsUsed`). Theorems: `OpenServed`, `ClosedLeaveNothing`.

**LspServerProofs**, for any clients and scripts in which no request occurs twice
(`ClientsAssumption`: a request has an id of its own). `AnsweredOnce` holds
because a request is in one place at a time (`OnePlace`): unread, in the request
queue, with the dispatch loop, with its goroutine, or replied to, and moves on
only in this order; it is in the table of pending requests from the third place
until it is canceled or, after the reply, removed (`RemoveMoves`): a cancellation
between the two finds a request that is answered and changes nothing about its
answer. `OneReply` follows it through the outgoing queue, where a result that
cannot be marshalled comes back as an error at the end. `LastWanted` is the
invariant of the debounced refresh: a task of the last generation that has not
begun is the last one, is the one `diagnosticsRefreshCancel` cancels, and is
wanted. Theorems: `RepliesOnce`, and `BeginsOnlyWanted`, an action property.

The same module proves about `SnapshotEffects`, for any number of updates, failures and
adoptions (`EffectsIInv`): the extensions registered last are those of `regSnap`
(`Registered`), and unless a call failed no task has passed that step with a newer
snapshot (`PastIsOlder`). Theorem: `NewestExtensions`.

**WatchModeProofs**, for any finite set of files, any directories, imports (nested
and cyclic ones too), edits and faults (`FilesAssumption`, `BoundsAssumption`). A
watch that is kept is alive or its end is yet to be handled (`EndsHandled`). That
a watch is kept for every file that was looked for (`Covered`) fails as soon as a
handler forgets one; until the next full build has made it again, something has to
remember that it is missing, and what does so changes from step to step: the
handler that is about to ask for a rebuild or the overflow it sets (`Safe`), then
the drained overflow, then the flags that keep the cycle from ending early and
from the fast path, or errors in the config (`Excused`); `Flagged` says that those
flags do not outlive their reason. The program has files that were looked for,
each because the config includes it or a file of the program imports it
(`Founded`), and none that cannot be reached (`Reachable`: every set that is
closed under imports within the program has it all). Theorem: `QuietIsWatched`.
The freshness of the program is one disjunction that every step keeps (`Tracked`):
a full build is sure to follow (`Renewed`), or every file looked for has the
version of the disk, or the event of its edit is on its way or has evicted it, or
the edit has slipped (`Current`), and every file to include was looked for, or its
creation is on its way or has slipped (`Included`). `ConfigTracked` says the same
of the parsed config (`Parsed`) and its modification time (`Dated`), `NamesKept`
of file names looked up in a cycle and reused by `NewProgram`, `CorrectionSeen` of
the end of errors in the config. TLC found `Follows` to hold on instances with
nested and cyclic imports before it was proved. Theorem: `QuietIsFresh`.

Only model-checked: all liveness (fairness is beyond the prover); what the
recursive `BuildGraph` computes, and with it `OrderRight`; `WatchesRegistered` of
`SnapshotEffects`, which holds only for up to four updates (section 3);
everything about `ExtendedConfigs` and `BuildOrchestrator`.

## 5. Not modelled, and plan

In this order:

1. Proofs: `ReportedInOrder` of `BuildOrchestrator`; `OutcomeRight` for acyclic graphs.
2. Hooks, defaults and plugins of tsc-p: registration and order of hooks; rules of
   the graph plugin, evaluation in paris with its integer widths, path rewriting,
   as operators against reference definitions.
3. IPC connections: requests, responses and cancellation, asynchronous and
   synchronous; content mapper processes with their restarts and timeouts.
4. Work groups and the parallel breadth-first search, each against a sequential
   specification; the file loader.
5. Affected files of incremental programs.

Within modelled parts, left out are: the consolidation of nested watches under a
recursive one and the platform backends (`FsWatch`); progress reports, which are
keyed by localized text (lsp/progress.go), and the builtin watcher (`LspServer`);
the idle timer of the session's cache (session.go:659, whose callback clears the
handle of a newer timer); telemetry.

The remaining components, and why they are left out, are listed in
`PROJECT.json`. Most of the repository's lines are the sequential computations of
section 1 ("Left aside"), so the mapped lines stay a small share of all of them.
