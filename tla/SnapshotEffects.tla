-------------------------- MODULE SnapshotEffects --------------------------
(***************************************************************************)
(* What the language server's session tells the client in the background   *)
(* after its snapshot has changed: which files to watch, which extensions  *)
(* of content mappers to synchronise, and the diagnostics of a project     *)
(* (internal/project/session.go, watch.go, background/queue.go;            *)
(* internal/lsp/server.go for the client's side).                          *)
(*                                                                         *)
(* Each update of the snapshot enqueues one task with the old and the new  *)
(* snapshot.  The background queue starts a goroutine per task, so tasks   *)
(* overlap and overtake each other.  Snapshots are numbered by their IDs.  *)
(* The watches of a snapshot are a WatchedFiles for every slot (a field of *)
(* a project or config); its ID is 0 when a clone has the globs of the one *)
(* it was cloned from, and new otherwise.                                  *)
(***************************************************************************)
EXTENDS Integers, Sequences, FiniteSets

CONSTANTS
    Slots,        \* the WatchedFiles of a snapshot
    Globs,        \* patterns to watch
    Extensions,   \* extensions that content mappers may handle
    MaxUpdates,   \* bound: updates of the snapshot
    MaxFailures,  \* bound: client calls that fail or time out
    MaxAdoptions  \* bound: clones for auto-imports that become the session's snapshot

ASSUME BoundsAssumption == {MaxUpdates, MaxFailures, MaxAdoptions} \subseteq Nat

VARIABLES
    snaps,        \* the snapshots the session has had, in the order of their IDs
    taskOf,       \* snapshot ID |-> state of the background task of its update
    entries,      \* watchRegistry: glob |-> count and ID of its registration
    pending,      \* watchRegistry: watches whose registration failed
    registered,   \* what the client watches: pairs of a watch and a glob
    regExts,      \* registeredContentMapperExtensions
    regSnap,      \* registeredContentMapperSnapshotID
    clientExts,   \* the extensions registered with the client
    published,    \* ID of the snapshot whose diagnostics the client shows
    failures

regVars == <<regExts, regSnap, clientExts>>
watchVars == <<entries, pending, registered>>
effectsVars == <<snaps, taskOf, watchVars, regVars, published, failures>>

NoId == <<>>
NoEntry == [count |-> 0, id |-> NoId]
\* todo: slots to compare; slot: the one in hand; new: globs to register with the client;
\* failed: whether a call failed; retry: whether the old watch is left alone;
\* gone: registrations to undo.
Idle(at) == [at |-> at, todo |-> {}, slot |-> NoId, new |-> {}, failed |-> FALSE, retry |-> FALSE,
             fresh |-> {}, gone |-> {}]

Current == Len(snaps)
Watch(n, s) == snaps[n].watch[s]
\* WatcherID: the slot's name and the number.
ID(n, s) == <<s, Watch(n, s).id>>
\* Snapshots that came without a task.
Adopted == {n \in DOMAIN taskOf : taskOf[n].at = "none"}
Running == {n \in DOMAIN taskOf : taskOf[n].at \notin {"none", "done"}}

EffectsInit ==
    /\ snaps = <<[watch |-> [s \in Slots |-> [id |-> 1, globs |-> {}]], exts |-> {},
                 program |-> 1]>>
    /\ taskOf = <<Idle("done")>>
    /\ entries = [g \in Globs |-> NoEntry]
    /\ pending = {} /\ registered = {}
    /\ regExts = {} /\ regSnap = 1 /\ clientExts = {}
    /\ published = 1
    /\ failures = 0

------------------------------------------------------------------------------
(* New snapshots *)

\* WatchedFiles.Clone and Watchers: the number is new if the globs are.
Cloned(w, globs) == [id |-> IF globs = w.globs THEN 0 ELSE Current + 1, globs |-> globs]

\* The next snapshot: some slots are cloned, the others are shared with the old snapshot.
NewSnapshot(at) ==
    \E slots \in SUBSET Slots, exts \in SUBSET Extensions :
        \E globs \in [slots -> SUBSET Globs], program \in {snaps[Current].program, Current + 1} :
            /\ snaps' = Append(snaps,
                 [watch |-> [s \in Slots |-> IF s \in slots THEN Cloned(Watch(Current, s), globs[s])
                                                              ELSE Watch(Current, s)],
                  exts |-> exts, program |-> program])
            /\ taskOf' = Append(taskOf,
                 [Idle(at) EXCEPT !.todo = IF at = "watch" THEN Slots ELSE {}])

\* updateSnapshot makes a snapshot the session's and enqueues the task.
updateSnapshot ==
    /\ Current <= MaxUpdates
    /\ NewSnapshot("watch")
    /\ UNCHANGED <<watchVars, regVars, published, failures>>

\* adoptSnapshotChange makes a clone the session's snapshot, without a task.
adoptSnapshotChange ==
    /\ Cardinality(Adopted) < MaxAdoptions /\ Current <= MaxUpdates
    /\ NewSnapshot("none")
    /\ UNCHANGED <<watchVars, regVars, published, failures>>

------------------------------------------------------------------------------
(* watchRegistry *)

Acquired(e, id, globs) ==
    [g \in Globs |-> IF g \notin globs THEN e[g]
                     ELSE [count |-> e[g].count + 1, id |-> IF e[g].count = 0 THEN id ELSE e[g].id]]

\* Mutant of Released: the entry goes with the last but one reference.
ReleasedEarly(e, globs) ==
    [g \in Globs |-> IF g \in globs /\ e[g].count <= 2 THEN NoEntry
                     ELSE IF g \in globs THEN [e[g] EXCEPT !.count = @ - 1] ELSE e[g]]

\* The entry goes with the last reference; without an entry nothing happens.
Released(e, globs) ==
    [g \in Globs |-> IF g \in globs /\ e[g].count <= 1 THEN NoEntry
                     ELSE IF g \in globs THEN [e[g] EXCEPT !.count = @ - 1] ELSE e[g]]

------------------------------------------------------------------------------
(* updateWatches, one slot after the other *)

\* A watch is updated if its ID has changed, and registered again if that failed before.
Compare(n, s) ==
    LET t == taskOf[n]
        changed == ID(n - 1, s) # ID(n, s)
    IN  /\ t.at = "watch" /\ s \in t.todo
        /\ IF changed \/ ID(n, s) \in pending
             THEN LET globs == Watch(n, s).globs
                      new == {g \in globs : entries[g].count = 0}
                  IN  /\ entries' = Acquired(entries, ID(n, s), globs)
                      /\ taskOf' = [taskOf EXCEPT ![n] = [t EXCEPT !.at = "register", !.slot = s,
                             !.new = new, !.fresh = new, !.failed = FALSE, !.retry = ~changed,
                             !.todo = @ \ {s}]]
             ELSE /\ taskOf' = [taskOf EXCEPT ![n].todo = @ \ {s}]
                  /\ UNCHANGED entries
        /\ UNCHANGED <<snaps, pending, registered, regVars, published, failures>>

\* client.WatchFiles for one glob.  A call that times out may reach the client.
WatchFiles(n, g) ==
    LET t == taskOf[n] IN
    /\ t.at = "register" /\ g \in t.new
    /\ \/ /\ registered' = registered \union {<<ID(n, t.slot), g>>}
          /\ taskOf' = [taskOf EXCEPT ![n].new = @ \ {g}]
          /\ UNCHANGED failures
       \/ /\ failures < MaxFailures /\ failures' = failures + 1
          /\ registered' \in {registered, registered \union {<<ID(n, t.slot), g>>}}
          /\ taskOf' = [taskOf EXCEPT ![n].new = @ \ {g}, ![n].failed = TRUE]
    /\ UNCHANGED <<snaps, entries, pending, regVars, published>>

\* The new watch is rolled back or done, and the old one is released.
Settle(n) ==
    LET t == taskOf[n]
        id == ID(n, t.slot)
        old == IF t.retry THEN {} ELSE Watch(n - 1, t.slot).globs
        kept == IF t.failed THEN Released(entries, t.fresh) ELSE entries
    IN  /\ t.at = "register" /\ t.new = {}
        /\ entries' = Released(kept, old)
        /\ pending' = IF t.failed THEN pending \union {id}
                      ELSE IF Watch(n, t.slot).globs = {} THEN pending ELSE pending \ {id}
        /\ taskOf' = [taskOf EXCEPT ![n] = [@ EXCEPT !.at = "unregister",
               !.gone = {<<kept[g].id, g>> : g \in {h \in old : kept[h].count = 1}}]]
        /\ UNCHANGED <<snaps, registered, regVars, published, failures>>

\* client.UnwatchFiles for one glob; an error (the client does not know it yet) is logged.
UnwatchFiles(n, w) ==
    /\ taskOf[n].at = "unregister" /\ w \in taskOf[n].gone
    /\ registered' = registered \ {w}
    /\ taskOf' = [taskOf EXCEPT ![n].gone = @ \ {w}]
    /\ UNCHANGED <<snaps, entries, pending, regVars, published, failures>>

NextSlot(n) ==
    LET t == taskOf[n] IN
    /\ \/ t.at = "unregister" /\ t.gone = {} /\ taskOf' = [taskOf EXCEPT ![n].at = "watch"]
       \/ t.at = "watch" /\ t.todo = {} /\ taskOf' = [taskOf EXCEPT ![n] = Idle("mappers")]
    /\ UNCHANGED <<snaps, watchVars, regVars, published, failures>>

------------------------------------------------------------------------------
(* Content mappers and diagnostics *)

\* Mutant of Newer: an older snapshot's task is not held back.
NewerAlways(n) == TRUE

\* "never let an older snapshot's task overwrite the registration derived from a newer one".
Newer(n) == n > regSnap

\* updateContentMapperRegistrations, under its lock.  The client unregisters what it has
\* and then registers the new extensions; either call may fail.
updateContentMapperRegistrations(n) ==
    LET exts == snaps[n].exts IN
    /\ taskOf[n].at = "mappers"
    /\ \/ /\ ~Newer(n)
          /\ UNCHANGED <<regVars, failures>>
       \/ /\ Newer(n) /\ exts = regExts
          /\ regSnap' = n
          /\ UNCHANGED <<regExts, clientExts, failures>>
       \/ /\ Newer(n) /\ exts # regExts
          /\ clientExts' = exts /\ regExts' = exts /\ regSnap' = n
          /\ UNCHANGED failures
       \/ /\ Newer(n) /\ exts # regExts
          /\ failures < MaxFailures /\ failures' = failures + 1
          /\ clientExts' \in {clientExts} \union (IF exts = {} THEN {} ELSE {{}})
          /\ UNCHANGED <<regExts, regSnap>>
    /\ taskOf' = [taskOf EXCEPT ![n].at = "publish"]
    /\ UNCHANGED <<snaps, watchVars, published>>

\* publishProgramDiagnostics, for a project whose program this update has changed.
publishProgramDiagnostics(n) ==
    /\ taskOf[n].at = "publish"
    /\ published' = IF snaps[n].program = n THEN n ELSE published
    /\ taskOf' = [taskOf EXCEPT ![n].at = "done"]
    /\ UNCHANGED <<snaps, watchVars, regVars, failures>>

------------------------------------------------------------------------------
Step(n) ==
    \/ \E s \in Slots : Compare(n, s)
    \/ \E g \in Globs : WatchFiles(n, g)
    \/ Settle(n)
    \/ \E w \in taskOf[n].gone : UnwatchFiles(n, w)
    \/ NextSlot(n)
    \/ updateContentMapperRegistrations(n)
    \/ publishProgramDiagnostics(n)

EffectsNext == updateSnapshot \/ adoptSnapshotChange \/ \E n \in Running : Step(n)

EffectsSpec == EffectsInit /\ [][EffectsNext]_effectsVars

------------------------------------------------------------------------------
(* Properties *)

\* Type invariant: the shape of every variable.
EffectsTypeOK ==
    /\ \A n \in DOMAIN snaps : snaps[n].watch \in [Slots -> [id : Nat, globs : SUBSET Globs]]
    /\ DOMAIN taskOf = DOMAIN snaps
    /\ \A n \in DOMAIN taskOf :
         taskOf[n].at \in {"watch", "register", "unregister", "mappers", "publish", "done", "none"}
    /\ \A g \in Globs : entries[g].count \in Nat /\ (entries[g].count = 0 <=> entries[g] = NoEntry)
    /\ pending \subseteq Slots \X Nat /\ registered \subseteq (Slots \X Nat) \X Globs
    /\ regExts \subseteq Extensions /\ clientExts \subseteq Extensions
    /\ regSnap \in DOMAIN snaps /\ published \in DOMAIN snaps
    /\ failures \in 0 .. MaxFailures

Quiet == Running = {}
GlobsOf(n) == UNION {Watch(n, s).globs : s \in Slots}
Awaiting == UNION {Watch(Current, s).globs : s \in {t \in Slots : ID(Current, t) \in pending}}

Watched ==
    \A g \in GlobsOf(Current) \ Awaiting :
        entries[g].count > 0 /\ <<entries[g].id, g>> \in registered

\* When the background tasks are done, in whatever order they overtook each other, the
\* client watches everything the session's snapshot needs: no task has released what
\* another still needs.  (Not so once a call has failed or a clone was adopted; nor beyond
\* MaxUpdates = 4, since clones share the ID 0: a call to unwatch that comes late ends the
\* newer registration of that name.)
WatchesRegistered == (Quiet /\ failures = 0 /\ Adopted = {}) => Watched

\* The client never synchronises the extensions of a snapshot that another has overtaken,
\* and when the tasks are done it has those of the newest snapshot unless a call failed
\* (updateContentMapperRegistrations).
ExtensionsNewest ==
    /\ EffectsTypeOK
    /\ clientExts \in {regExts, {}}
    /\ (Quiet /\ failures = 0 /\ Current \notin Adopted) => clientExts = snaps[Current].exts

\* "Roll back ALL newly-acquired watchers on any failure to keep refcounts clean"
\* (session.go:1511): also after a failed call, what is not marked for another try is watched.
RollbackClean == (Quiet /\ Adopted = {}) => Watched

\* An update that follows the adoption of a clone registers the watches of the clone.
AdoptedWatched == (Quiet /\ failures = 0 /\ Current \notin Adopted) => Watched

\* Watches are not leaked: a registered glob is one the snapshot needs.
NothingLeaked == Quiet => \A g \in Globs : entries[g].count > 0 => g \in GlobsOf(Current)

\* The client shows the diagnostics of the newest program.
DiagnosticsNewest == Quiet => published = snaps[Current].program

\* "On failure we leave the state unadvanced so the next snapshot update retries"
\* (session.go:1584): when the newest snapshot's registration has been settled, the client
\* has its extensions.
RetriedByNextUpdate == (Quiet /\ regSnap = Current) => clientExts = snaps[Current].exts
=============================================================================
