---------------------------- MODULE CheckerPool ----------------------------
(***************************************************************************)
(* The language server's pool of type checkers, internal/project/         *)
(* checkerpool.go.                                                         *)
(*                                                                         *)
(* A checker is a large single-threaded object.  The pool owns MaxCheckers *)
(* slots (slot 0 for diagnostics, the others for queries) and one          *)
(* persistent checker for API clients.  GetChecker hands a checker out and *)
(* a release function takes it back; a channel per category counts the     *)
(* slots in use, and p.mu protects everything else.  A section of code     *)
(* under p.mu is one action; a channel send or receive is an action of its *)
(* own, because the code does both outside p.mu.                           *)
(*                                                                         *)
(* The actors are the calls of GetChecker.  A call names its request, its  *)
(* goroutine, the lifetime its context asks for, its file, and the call    *)
(* that was still holding a checker when it was made (its parent): the     *)
(* language service acquires a checker inside functions that hold one.     *)
(***************************************************************************)
EXTENDS Integers, FiniteSets

CONSTANTS
    Calls,         \* GetChecker call sites of the requests in flight
    Requests,      \* request IDs
    Files,         \* source files
    Diags,         \* global diagnostics a checker may produce
    Checkers,      \* identities of checker objects
    MaxCheckers,   \* opts.MaxCheckers after newCheckerPool's clamping
    ReqOf,         \* call |-> request ID, or Anonymous
    ThreadOf,      \* call |-> the goroutine that makes it
    Lifetime,      \* call |-> "diagnostics", "temporary" or "api"
    FileOf,        \* call |-> file, or NoFile
    Parent,        \* call |-> the call it is nested in, or NoCall
    Anonymous,     \* checkerHeldAnonymous
    Nobody,        \* heldBy of a slot that is not held
    NoChecker,     \* a nil *checker.Checker
    NoFile,        \* a nil *ast.SourceFile
    NoCall         \* the parent of an outermost call

ASSUME FinitenessAssumption == IsFiniteSet(Calls) /\ IsFiniteSet(Diags)
ASSUME SlotsAssumption == MaxCheckers \in Nat /\ MaxCheckers >= 2
ASSUME CallsAssumption ==
    /\ ReqOf \in [Calls -> Requests \union {Anonymous}]
    /\ Lifetime \in [Calls -> {"diagnostics", "temporary", "api"}]
    /\ FileOf \in [Calls -> Files \union {NoFile}]
    /\ Parent \in [Calls -> Calls \union {NoCall}]
\* Calls nest two deep, inside one goroutine.
ASSUME NestingAssumption ==
    \A c \in Calls : Parent[c] \in Calls =>
        /\ ThreadOf[Parent[c]] = ThreadOf[c]
        /\ Parent[Parent[c]] = NoCall
ASSUME DistinctNils ==
    /\ Anonymous \notin Requests
    /\ Nobody \notin Requests /\ Nobody # Anonymous
    /\ NoChecker \notin Checkers
    /\ NoFile \notin Files
    /\ NoCall \notin Calls

VARIABLES
    \* fields of checkerPool
    checkers, heldBy, fileAssociations, requestAssociations,
    lastReleased,      \* "zero", "idle", or "expired" once IdleTimeout has passed
    cleanupTimer,      \* "nil", "armed", or "fired" (non-nil and not running)
    discarded, persistentChecker, persistentHeld,
    diagSem, querySem, persistentSem,   \* elements in each channel
    globalDiagAccumulated, globalDiagChanged, globalDiagCheckerCount,
    \* the checker objects
    globals,           \* checker |-> the global diagnostics it has produced
    canceled,          \* checkers whose WasCanceled() is true
    \* the runtime around the pool
    ctxDone,           \* requests whose context is done
    afterFuncs,        \* requests with a registered AfterFunc
    cleanupRunning,    \* a timer callback has started and not yet locked p.mu
    taken,             \* what TakeNewGlobalDiagnostics has reported (history)
    \* the calls: control point, and the slot and checker each one refers to
    pc, slot, chk

poolVars == <<checkers, heldBy, fileAssociations, requestAssociations,
              lastReleased, cleanupTimer, discarded>>
apiVars == <<persistentChecker, persistentHeld>>
semVars == <<diagSem, querySem, persistentSem>>
diagVars == <<globalDiagAccumulated, globalDiagChanged, globalDiagCheckerCount, taken>>
objVars == <<globals, canceled>>
envVars == <<ctxDone, afterFuncs, cleanupRunning>>
callVars == <<pc, slot, chk>>
vars == <<poolVars, apiVars, semVars, diagVars, objVars, envVars, callVars>>

Slots == 0 .. MaxCheckers - 1
QuerySlots == 1 .. MaxCheckers - 1
NoSlot == -1

(***************************************************************************)
(* Control points of a call:                                               *)
(*   "idle"      not running, or returned and released                     *)
(*   "sem"       blocked on the channel send that claims a slot            *)
(*   "tok"       slot claimed, p.mu not locked yet                         *)
(*   "held"      has a checker, owes a release                             *)
(*   "borrowed"  has the checker its request already holds (noop release)  *)
(*   "freed"     released under p.mu, channel receive still to come        *)
(* In "sem" and "tok", chk is the checker tryReacquireForRequest means to  *)
(* reclaim, or NoChecker.                                                  *)
(***************************************************************************)
PCs == {"idle", "sem", "tok", "held", "borrowed", "freed"}

Init ==
    /\ checkers = [i \in Slots |-> NoChecker]
    /\ heldBy = [i \in Slots |-> Nobody]
    /\ fileAssociations = [f \in Files |-> NoSlot]
    /\ requestAssociations = [r \in Requests |-> NoSlot]
    /\ lastReleased = [i \in Slots |-> "zero"]
    /\ cleanupTimer = "nil"
    /\ discarded = FALSE
    /\ persistentChecker = NoChecker /\ persistentHeld = FALSE
    /\ diagSem = 0 /\ querySem = 0 /\ persistentSem = 0
    /\ globalDiagAccumulated = {} /\ globalDiagChanged = FALSE /\ taken = {}
    /\ globalDiagCheckerCount = [i \in Slots |-> 0]
    /\ globals = [k \in Checkers |-> {}]
    /\ canceled = {}
    /\ ctxDone = {} /\ afterFuncs = {} /\ cleanupRunning = FALSE
    /\ pc = [c \in Calls |-> "idle"]
    /\ slot = [c \in Calls |-> NoSlot]
    /\ chk = [c \in Calls |-> NoChecker]

------------------------------------------------------------------------------
(* Clients *)

\* A goroutine is sequential: apart from c and the call that c is nested in,
\* none of its calls is in progress.  (Nesting is two deep.)
Innermost(c) ==
    \A d \in Calls \ {c, Parent[c]} : ThreadOf[d] = ThreadOf[c] => pc[d] = "idle"

MayCall(c) ==
    /\ pc[c] = "idle"
    /\ Innermost(c)
    /\ IF Parent[c] = NoCall
         THEN TRUE
         ELSE pc[Parent[c]] \in {"held", "borrowed"}

Goto(c, l, i, k) ==
    /\ pc' = [pc EXCEPT ![c] = l]
    /\ slot' = [slot EXCEPT ![c] = i]
    /\ chk' = [chk EXCEPT ![c] = k]

\* checker.NewChecker: an object nobody refers to, with the global diagnostics
\* its initialisation reports.
Referenced == {checkers[i] : i \in Slots} \union {persistentChecker}
                \union {chk[c] : c \in Calls}

Unused == CHOOSE k \in Checkers : k \notin Referenced

NewChecker(k) ==
    /\ k = Unused /\ k \notin Referenced
    /\ \E g \in SUBSET Diags : globals' = [globals EXCEPT ![k] = g]
    /\ canceled' = canceled \ {k}

------------------------------------------------------------------------------
(* tryReacquireForRequest *)

DiagCall(c) == Lifetime[c] = "diagnostics"
QueryCall(c) == Lifetime[c] = "temporary"
ApiCall(c) == Lifetime[c] = "api"

\* The associated index is of the category asked for, and has a checker.
CategoryMatches(c, i) == IF DiagCall(c) THEN i = 0 ELSE i \in QuerySlots

Usable(c, i) == CategoryMatches(c, i) /\ checkers[i] # NoChecker

Association(c) ==
    IF ReqOf[c] = Anonymous THEN NoSlot ELSE requestAssociations[ReqOf[c]]

\* No usable association: claim a slot.  An association of the wrong category,
\* or to a disposed checker, is deleted first.
CallUnassociated(c) ==
    /\ MayCall(c) /\ ~ApiCall(c)
    /\ ~Usable(c, Association(c))
    /\ requestAssociations' =
         IF ReqOf[c] = Anonymous THEN requestAssociations
         ELSE [requestAssociations EXCEPT ![ReqOf[c]] = NoSlot]
    /\ Goto(c, "sem", NoSlot, NoChecker)
    /\ UNCHANGED <<checkers, heldBy, fileAssociations, lastReleased, cleanupTimer,
                   discarded, apiVars, semVars, diagVars, objVars, envVars>>

\* The associated checker is still held by this request: return it with a
\* release function that does nothing.
CallBorrow(c) ==
    /\ MayCall(c) /\ ~ApiCall(c)
    /\ LET i == Association(c) IN
         /\ Usable(c, i)
         /\ heldBy[i] = ReqOf[c]
         /\ Goto(c, "borrowed", i, checkers[i])
    /\ UNCHANGED <<poolVars, apiVars, semVars, diagVars, objVars, envVars>>

\* The associated checker is free: claim a slot, then try to take it.
CallReclaim(c) ==
    /\ MayCall(c) /\ ~ApiCall(c)
    /\ LET i == Association(c) IN
         /\ Usable(c, i)
         /\ heldBy[i] = Nobody
         /\ Goto(c, "sem", i, checkers[i])
    /\ UNCHANGED <<poolVars, apiVars, semVars, diagVars, objVars, envVars>>

\* The associated checker is held by another request: claim a slot normally.
CallContended(c) ==
    /\ MayCall(c) /\ ~ApiCall(c)
    /\ LET i == Association(c) IN
         /\ Usable(c, i)
         /\ heldBy[i] \notin {Nobody, ReqOf[c]}
         /\ Goto(c, "sem", NoSlot, NoChecker)
    /\ UNCHANGED <<poolVars, apiVars, semVars, diagVars, objVars, envVars>>

CallPersistent(c) ==
    /\ MayCall(c) /\ ApiCall(c)
    /\ Goto(c, "sem", NoSlot, NoChecker)
    /\ UNCHANGED <<poolVars, apiVars, semVars, diagVars, objVars, envVars>>

\* The send on the category's channel: blocks while the channel is full.
ClaimSlot(c) ==
    /\ pc[c] = "sem"
    /\ pc' = [pc EXCEPT ![c] = "tok"]
    /\ CASE DiagCall(c)  -> /\ diagSem < 1
                            /\ diagSem' = diagSem + 1
                            /\ UNCHANGED <<querySem, persistentSem>>
         [] QueryCall(c) -> /\ querySem < MaxCheckers - 1
                            /\ querySem' = querySem + 1
                            /\ UNCHANGED <<diagSem, persistentSem>>
         [] ApiCall(c)   -> /\ persistentSem < 1
                            /\ persistentSem' = persistentSem + 1
                            /\ UNCHANGED <<diagSem, querySem>>
    /\ UNCHANGED <<poolVars, apiVars, diagVars, objVars, envVars, slot, chk>>

\* Mutant of StillThere: does not look again at who holds the slot.
StillThereUnlooked(c) == checkers[slot[c]] = chk[c]

\* p.checkers[index] == c && p.heldBy[index] == "" after waiting for the slot.
StillThere(c) == checkers[slot[c]] = chk[c] /\ heldBy[slot[c]] = Nobody

Reclaim(c) ==
    /\ pc[c] = "tok" /\ chk[c] # NoChecker
    /\ StillThere(c)
    /\ heldBy' = [heldBy EXCEPT ![slot[c]] = ReqOf[c]]
    /\ pc' = [pc EXCEPT ![c] = "held"]
    /\ UNCHANGED <<checkers, fileAssociations, requestAssociations, lastReleased,
                   cleanupTimer, discarded, apiVars, semVars, diagVars, objVars,
                   envVars, slot, chk>>

\* Disposed, replaced or taken while waiting: keep the slot, acquire normally.
ReclaimLost(c) ==
    /\ pc[c] = "tok" /\ chk[c] # NoChecker
    /\ ~StillThere(c)
    /\ Goto(c, "tok", NoSlot, NoChecker)
    /\ UNCHANGED <<poolVars, apiVars, semVars, diagVars, objVars, envVars>>

------------------------------------------------------------------------------
(* Normal acquisition, with a slot claimed *)

\* The block repeated after every acquisition: record the association and
\* register its cleanup, unless the request already has one.
Associate(c, i) ==
    IF ReqOf[c] \in Requests /\ requestAssociations[ReqOf[c]] = NoSlot
      THEN /\ requestAssociations' = [requestAssociations EXCEPT ![ReqOf[c]] = i]
           /\ afterFuncs' = afterFuncs \union {ReqOf[c]}
      ELSE UNCHANGED <<requestAssociations, afterFuncs>>

Hold(c, i, k) ==
    /\ heldBy' = [heldBy EXCEPT ![i] = ReqOf[c]]
    /\ Associate(c, i)
    /\ Goto(c, "held", i, k)

Ready(c) == pc[c] = "tok" /\ chk[c] = NoChecker

getDiagnosticsChecker(c) ==
    /\ Ready(c) /\ DiagCall(c)
    /\ \/ /\ checkers[0] # NoChecker
          /\ Hold(c, 0, checkers[0])
          /\ UNCHANGED <<checkers, objVars>>
       \/ /\ checkers[0] = NoChecker
          /\ \E k \in Checkers :
               /\ NewChecker(k)
               /\ checkers' = [checkers EXCEPT ![0] = k]
               /\ Hold(c, 0, k)
    /\ UNCHANGED <<fileAssociations, lastReleased, cleanupTimer, discarded, apiVars,
                   semVars, diagVars, ctxDone, cleanupRunning>>

\* Query checkers that exist and nobody holds; slots where one can be created.
Free == {i \in QuerySlots : checkers[i] # NoChecker /\ heldBy[i] = Nobody}
Empty == {i \in QuerySlots : checkers[i] = NoChecker}
First(i, S) == i \in S /\ \A j \in S : i <= j

\* The file's checker, when it is there and free.
FileAffinity(c) ==
    FileOf[c] # NoFile /\ fileAssociations[FileOf[c]] \in Free

RememberFile(c, i) ==
    fileAssociations' = IF FileOf[c] = NoFile THEN fileAssociations
                        ELSE [fileAssociations EXCEPT ![FileOf[c]] = i]

getQueryChecker(c) ==
    /\ Ready(c) /\ QueryCall(c)
    /\ \/ /\ FileAffinity(c)
          /\ LET i == fileAssociations[FileOf[c]] IN Hold(c, i, checkers[i])
          /\ UNCHANGED <<checkers, objVars, fileAssociations>>
       \/ /\ ~FileAffinity(c)
          /\ \E i \in QuerySlots :
               /\ First(i, Free)
               /\ Hold(c, i, checkers[i])
               /\ RememberFile(c, i)
          /\ UNCHANGED <<checkers, objVars>>
       \/ /\ Free = {}
          /\ \E i \in QuerySlots, k \in Checkers :
               /\ First(i, Empty)
               /\ NewChecker(k)
               /\ checkers' = [checkers EXCEPT ![i] = k]
               /\ Hold(c, i, k)
               /\ RememberFile(c, i)
    /\ UNCHANGED <<lastReleased, cleanupTimer, discarded, apiVars, semVars, diagVars,
                   ctxDone, cleanupRunning>>

\* findOrCreateQueryCheckerLocked would panic: "no available query slot despite
\* holding semaphore token".
NoSlotPanic(c) == Ready(c) /\ QueryCall(c) /\ Free = {} /\ Empty = {}

getPersistentChecker(c) ==
    /\ Ready(c) /\ ApiCall(c)
    /\ persistentHeld' = TRUE
    /\ \/ /\ persistentChecker # NoChecker
          /\ Goto(c, "held", NoSlot, persistentChecker)
          /\ UNCHANGED <<persistentChecker, objVars>>
       \/ /\ persistentChecker = NoChecker
          /\ \E k \in Checkers :
               /\ NewChecker(k)
               /\ persistentChecker' = k
               /\ Goto(c, "held", NoSlot, k)
    /\ UNCHANGED <<poolVars, semVars, diagVars, envVars>>

------------------------------------------------------------------------------
(* Use of a checker *)

Using(c) == pc[c] \in {"held", "borrowed"}

\* Checking a file may report a global diagnostic.
Check(c) ==
    /\ Using(c) /\ Innermost(c)
    /\ \E g \in Diags : globals' = [globals EXCEPT ![chk[c]] = @ \union {g}]
    /\ UNCHANGED <<poolVars, apiVars, semVars, diagVars, envVars, callVars, canceled>>

\* checkSourceFile notices that the request's context is done.
CheckCanceled(c) ==
    /\ Using(c) /\ Innermost(c)
    /\ ReqOf[c] \in ctxDone
    /\ canceled' = canceled \union {chk[c]}
    /\ UNCHANGED <<poolVars, apiVars, semVars, diagVars, envVars, callVars, globals>>

\* The request's context is done: it was canceled by the client, or it ended.
CtxDone(r) ==
    /\ r \notin ctxDone
    /\ ctxDone' = ctxDone \union {r}
    /\ UNCHANGED <<poolVars, apiVars, semVars, diagVars, objVars, callVars,
                   afterFuncs, cleanupRunning>>

\* registerRequestCleanup's callback.
RequestCleanup(r) ==
    /\ r \in afterFuncs \intersect ctxDone
    /\ afterFuncs' = afterFuncs \ {r}
    /\ requestAssociations' = [requestAssociations EXCEPT ![r] = NoSlot]
    /\ UNCHANGED <<checkers, heldBy, fileAssociations, lastReleased, cleanupTimer,
                   discarded, apiVars, semVars, diagVars, objVars, callVars,
                   ctxDone, cleanupRunning>>

------------------------------------------------------------------------------
(* Release, idle cleanup, discard *)

\* Mutant of Dispose: requests stay associated with the emptied slots.
DisposeKeepsRequests(S) ==
    /\ checkers' = [i \in Slots |-> IF i \in S THEN NoChecker ELSE checkers[i]]
    /\ heldBy' = [i \in Slots |-> IF i \in S THEN Nobody ELSE heldBy[i]]
    /\ globalDiagCheckerCount' =
         [i \in Slots |-> IF i \in S THEN 0 ELSE globalDiagCheckerCount[i]]
    /\ lastReleased' = [i \in Slots |-> IF i \in S THEN "zero" ELSE lastReleased[i]]
    /\ UNCHANGED <<fileAssociations, requestAssociations>>

\* Mutant of Dispose: the next checker of the slot inherits the count.
DisposeKeepsCount(S) ==
    /\ checkers' = [i \in Slots |-> IF i \in S THEN NoChecker ELSE checkers[i]]
    /\ heldBy' = [i \in Slots |-> IF i \in S THEN Nobody ELSE heldBy[i]]
    /\ lastReleased' = [i \in Slots |-> IF i \in S THEN "zero" ELSE lastReleased[i]]
    /\ requestAssociations' =
         [r \in Requests |-> IF requestAssociations[r] \in S THEN NoSlot
                             ELSE requestAssociations[r]]
    /\ fileAssociations' =
         [f \in Files |-> IF fileAssociations[f] \in S THEN NoSlot ELSE fileAssociations[f]]
    /\ UNCHANGED globalDiagCheckerCount

\* disposeCheckerLocked, for a set of slots.
Dispose(S) ==
    /\ checkers' = [i \in Slots |-> IF i \in S THEN NoChecker ELSE checkers[i]]
    /\ heldBy' = [i \in Slots |-> IF i \in S THEN Nobody ELSE heldBy[i]]
    /\ globalDiagCheckerCount' =
         [i \in Slots |-> IF i \in S THEN 0 ELSE globalDiagCheckerCount[i]]
    /\ lastReleased' = [i \in Slots |-> IF i \in S THEN "zero" ELSE lastReleased[i]]
    /\ fileAssociations' =
         [f \in Files |-> IF fileAssociations[f] \in S THEN NoSlot ELSE fileAssociations[f]]
    /\ requestAssociations' =
         [r \in Requests |-> IF requestAssociations[r] \in S THEN NoSlot
                             ELSE requestAssociations[r]]

\* scheduleCleanupLocked, given the pool's next state: armed as long as an idle
\* checker remains.
Idle(ks, hs, ls) == {i \in Slots : ks[i] # NoChecker /\ hs[i] = Nobody /\ ls[i] # "zero"}

scheduleCleanup(ks, hs, ls) ==
    cleanupTimer' = IF Idle(ks, hs, ls) = {} THEN "nil" ELSE "armed"

\* mergeGlobalDiagnosticsFromCheckerLocked: compares counts, then merges.
mergeGlobalDiagnostics(i, k) ==
    IF Cardinality(globals[k]) = globalDiagCheckerCount[i]
      THEN UNCHANGED <<globalDiagCheckerCount, globalDiagAccumulated, globalDiagChanged>>
      ELSE /\ globalDiagCheckerCount' =
                [globalDiagCheckerCount EXCEPT ![i] = Cardinality(globals[k])]
           /\ globalDiagAccumulated' = globalDiagAccumulated \union globals[k]
           /\ globalDiagChanged' =
                (globalDiagChanged \/ globalDiagAccumulated' # globalDiagAccumulated)

\* The release function of createRelease, up to p.mu.Unlock().
Release(c) ==
    /\ pc[c] = "held" /\ ~ApiCall(c) /\ Innermost(c)
    /\ chk[c] \notin canceled
    /\ mergeGlobalDiagnostics(slot[c], chk[c])
    /\ heldBy' = [heldBy EXCEPT ![slot[c]] = Nobody]
    /\ lastReleased' = [lastReleased EXCEPT ![slot[c]] = "idle"]
    /\ IF discarded THEN UNCHANGED cleanupTimer
                    ELSE scheduleCleanup(checkers, heldBy', lastReleased')
    /\ Goto(c, "freed", slot[c], NoChecker)
    /\ UNCHANGED <<checkers, fileAssociations, requestAssociations, discarded, apiVars,
                   semVars, taken, objVars, envVars>>

\* Mutant of ReleaseCanceled: the checker goes back to the pool.
ReleaseCanceledToPool(c) ==
    /\ pc[c] = "held" /\ ~ApiCall(c) /\ Innermost(c)
    /\ chk[c] \in canceled
    /\ heldBy' = [heldBy EXCEPT ![slot[c]] = Nobody]
    /\ Goto(c, "freed", slot[c], NoChecker)
    /\ UNCHANGED <<checkers, fileAssociations, requestAssociations, lastReleased,
                   cleanupTimer, discarded, apiVars, semVars, diagVars, objVars, envVars>>

\* Canceled checkers are disposed of instead.
ReleaseCanceled(c) ==
    /\ pc[c] = "held" /\ ~ApiCall(c) /\ Innermost(c)
    /\ chk[c] \in canceled
    /\ Dispose({slot[c]})
    /\ Goto(c, "freed", slot[c], NoChecker)
    /\ UNCHANGED <<cleanupTimer, discarded, apiVars, semVars, globalDiagAccumulated,
                   globalDiagChanged, taken, objVars, envVars>>

\* disposeCheckerLocked's debug.Assert(p.checkers[index] == c) would fail.
DisposeAssertFails(c) ==
    pc[c] = "held" /\ ~ApiCall(c) /\ chk[c] \in canceled /\ checkers[slot[c]] # chk[c]

ReleasePersistent(c) ==
    /\ pc[c] = "held" /\ ApiCall(c) /\ Innermost(c)
    /\ persistentHeld' = FALSE
    /\ persistentChecker' =
         IF chk[c] \in canceled /\ persistentChecker = chk[c]
           THEN NoChecker ELSE persistentChecker
    /\ Goto(c, "freed", NoSlot, NoChecker)
    /\ UNCHANGED <<poolVars, semVars, diagVars, objVars, envVars>>

\* Mutant of ReleaseBorrowed: gives back a slot it did not claim.
ReleaseBorrowedFrees(c) ==
    /\ pc[c] = "borrowed" /\ Innermost(c)
    /\ Goto(c, "freed", slot[c], NoChecker)
    /\ UNCHANGED <<poolVars, apiVars, semVars, diagVars, objVars, envVars>>

ReleaseBorrowed(c) ==
    /\ pc[c] = "borrowed" /\ Innermost(c)
    /\ Goto(c, "idle", NoSlot, NoChecker)
    /\ UNCHANGED <<poolVars, apiVars, semVars, diagVars, objVars, envVars>>

\* The receive that gives the claimed slot back: by the slot's index, not by
\* the lifetime the call asked for.
FreeSlot(c) ==
    /\ pc[c] = "freed"
    /\ Goto(c, "idle", NoSlot, NoChecker)
    /\ IF ApiCall(c)
         THEN persistentSem' = persistentSem - 1 /\ UNCHANGED <<diagSem, querySem>>
       ELSE IF slot[c] = 0
         THEN diagSem' = diagSem - 1 /\ UNCHANGED <<querySem, persistentSem>>
         ELSE querySem' = querySem - 1 /\ UNCHANGED <<diagSem, persistentSem>>
    /\ UNCHANGED <<poolVars, apiVars, diagVars, objVars, envVars>>

\* IdleTimeout passes for a released checker.  (For a held one it may pass too;
\* nobody looks at it then, and the release starts the time again.)
Expire(i) ==
    /\ lastReleased[i] = "idle" /\ heldBy[i] = Nobody
    /\ lastReleased' = [lastReleased EXCEPT ![i] = "expired"]
    /\ UNCHANGED <<checkers, heldBy, fileAssociations, requestAssociations, cleanupTimer,
                   discarded, apiVars, semVars, diagVars, objVars, envVars, callVars>>

\* The timer fires: its callback runs on a goroutine of its own.  A second
\* callback started before the first one runs is not told apart from it.
TimerFires ==
    /\ cleanupTimer = "armed"
    /\ cleanupTimer' = "fired"
    /\ cleanupRunning' = TRUE
    /\ UNCHANGED <<checkers, heldBy, fileAssociations, requestAssociations, lastReleased,
                   discarded, apiVars, semVars, diagVars, objVars, callVars, ctxDone,
                   afterFuncs>>

\* Mutant of Expired: does not look at who holds the slot.
ExpiredHeldToo == {i \in Slots : checkers[i] # NoChecker /\ lastReleased[i] = "expired"}

Expired == {i \in Slots : /\ checkers[i] # NoChecker
                          /\ heldBy[i] = Nobody
                          /\ lastReleased[i] = "expired"}

cleanupIdleCheckers ==
    /\ cleanupRunning
    /\ cleanupRunning' = FALSE
    /\ \/ /\ discarded
          /\ UNCHANGED <<poolVars, globalDiagCheckerCount>>
       \/ /\ ~discarded
          /\ Dispose(Expired)
          /\ scheduleCleanup(checkers', heldBy', lastReleased')
          /\ UNCHANGED discarded
    /\ UNCHANGED <<apiVars, semVars, globalDiagAccumulated, globalDiagChanged, taken,
                   objVars, callVars, ctxDone, afterFuncs>>

TakeNewGlobalDiagnostics ==
    /\ globalDiagChanged
    /\ globalDiagChanged' = FALSE
    /\ taken' = globalDiagAccumulated
    /\ UNCHANGED <<poolVars, apiVars, semVars, objVars, envVars, callVars,
                   globalDiagAccumulated, globalDiagCheckerCount>>

Discard ==
    /\ ~discarded
    /\ discarded' = TRUE
    /\ cleanupTimer' = "nil"
    /\ UNCHANGED <<checkers, heldBy, fileAssociations, requestAssociations, lastReleased,
                   apiVars, semVars, diagVars, objVars, envVars, callVars>>

------------------------------------------------------------------------------
Acquire(c) ==
    \/ CallUnassociated(c) \/ CallBorrow(c) \/ CallReclaim(c) \/ CallContended(c)
    \/ CallPersistent(c)

Proceed(c) ==
    \/ ClaimSlot(c)
    \/ Reclaim(c) \/ ReclaimLost(c)
    \/ getDiagnosticsChecker(c) \/ getQueryChecker(c) \/ getPersistentChecker(c)

Finish(c) ==
    \/ Release(c) \/ ReleaseCanceled(c)
    \/ ReleasePersistent(c) \/ ReleaseBorrowed(c)
    \/ FreeSlot(c)

Next ==
    \/ \E c \in Calls : Acquire(c) \/ Proceed(c) \/ Check(c) \/ CheckCanceled(c) \/ Finish(c)
    \/ \E r \in Requests : CtxDone(r) \/ RequestCleanup(r)
    \/ \E i \in Slots : Expire(i)
    \/ TimerFires \/ cleanupIdleCheckers
    \/ TakeNewGlobalDiagnostics \/ Discard

Spec == Init /\ [][Next]_vars

(***************************************************************************)
(* Fairness.  The pool's own steps run to completion: nothing blocks under *)
(* p.mu.  A goroutine blocked in a channel send is served in arrival       *)
(* order, so one for which a slot is freed again and again gets it: strong *)
(* fairness of ClaimSlot.  Callers release what they acquire.  Nothing     *)
(* forces a caller to start, a request to end or the pool to be discarded. *)
(***************************************************************************)
Fairness ==
    /\ \A c \in Calls : SF_vars(ClaimSlot(c)) /\ WF_vars(Proceed(c)) /\ WF_vars(Finish(c))
    /\ \A r \in Requests : WF_vars(RequestCleanup(r))
    /\ \A i \in Slots : WF_vars(Expire(i))
    /\ WF_vars(TimerFires) /\ WF_vars(cleanupIdleCheckers)

FairSpec == Spec /\ Fairness

------------------------------------------------------------------------------
(* Properties *)

\* All calls of a request are made by one goroutine, as the handlers of the
\* language service do.  (Program.Emit does not: see CheckerPoolEmit.cfg.)
Sequential ==
    \A c, d \in Calls :
        (ReqOf[c] = ReqOf[d] /\ ReqOf[c] \in Requests) => ThreadOf[c] = ThreadOf[d]

\* Type invariant: the shape of every variable.
TypeOK ==
    /\ checkers \in [Slots -> Checkers \union {NoChecker}]
    /\ heldBy \in [Slots -> Requests \union {Anonymous, Nobody}]
    /\ fileAssociations \in [Files -> QuerySlots \union {NoSlot}]
    /\ requestAssociations \in [Requests -> Slots \union {NoSlot}]
    /\ lastReleased \in [Slots -> {"zero", "idle", "expired"}]
    /\ cleanupTimer \in {"nil", "armed", "fired"}
    /\ discarded \in BOOLEAN
    /\ persistentChecker \in Checkers \union {NoChecker}
    /\ persistentHeld \in BOOLEAN
    /\ diagSem \in 0 .. 1
    /\ querySem \in 0 .. MaxCheckers - 1
    /\ persistentSem \in 0 .. 1
    /\ globalDiagAccumulated \subseteq Diags /\ taken \subseteq Diags
    /\ globalDiagChanged \in BOOLEAN
    /\ globalDiagCheckerCount \in [Slots -> Nat]
    /\ globals \in [Checkers -> SUBSET Diags]
    /\ canceled \subseteq Checkers
    /\ ctxDone \subseteq Requests /\ afterFuncs \subseteq Requests
    /\ cleanupRunning \in BOOLEAN
    /\ pc \in [Calls -> PCs]
    /\ slot \in [Calls -> Slots \union {NoSlot}]
    /\ chk \in [Calls -> Checkers \union {NoChecker}]

\* The two panics of the pool are unreachable: a call that got its token out of
\* querySem always finds a free or an empty slot, although the slot and the token
\* are given back in separate steps, and the checker it disposes of is the one it
\* was given.
PanicFree == \A c \in Calls : ~NoSlotPanic(c) /\ ~DisposeAssertFails(c)

\* "each acquisition is exclusive": two goroutines never use one checker at the
\* same time.
Exclusive ==
    \A c, d \in Calls :
        (Using(c) /\ Using(d) /\ chk[c] = chk[d]) => ThreadOf[c] = ThreadOf[d]

\* A canceled checker (it panics when used again) that is still in a slot is held
\* by the request that canceled it, so nobody else can be given it.
CanceledNotOffered ==
    /\ \A i \in Slots : checkers[i] \in canceled => heldBy[i] # Nobody
    /\ persistentChecker \in canceled => persistentHeld

\* Affinity never leads to a disposed checker: every file and request association
\* names a slot that has a checker.
AssociationsLive ==
    /\ \A f \in Files : fileAssociations[f] # NoSlot => checkers[fileAssociations[f]] # NoChecker
    /\ \A r \in Requests :
         requestAssociations[r] # NoSlot => checkers[requestAssociations[r]] # NoChecker

\* No global diagnostic is missed: those of every checker that is back in the pool have
\* been merged, although the merge is skipped when the counts agree, and what
\* TakeNewGlobalDiagnostics has not reported yet is flagged.
ReleasedMerged ==
    /\ \A i \in Slots :
         (checkers[i] # NoChecker /\ heldBy[i] = Nobody)
             => globals[checkers[i]] \subseteq globalDiagAccumulated
    /\ globalDiagAccumulated # taken => globalDiagChanged

\* Every caller that waits for a slot is given a checker, as long as no caller
\* waits while it holds one.
Served == \A c \in Calls : pc[c] = "sem" ~> pc[c] = "held"

\* An idle checker is used again, disposed of, or kept on purpose by Discard.
IdleDisposed ==
    \A i \in Slots : (i \in Idle(checkers, heldBy, lastReleased))
                        ~> (discarded \/ i \notin Idle(checkers, heldBy, lastReleased))

\* checkerpool_test.go:104, "same request ID should return the same checker while
\* held": a call nested in one that uses a checker is not given another one,
\* at least while the request's context is not done.
SameCheckerWhileHeld ==
    \A c \in Calls :
        (Parent[c] # NoCall /\ pc[c] = "held" /\ ReqOf[c] = ReqOf[Parent[c]]
            /\ ReqOf[c] \notin ctxDone)
            => chk[c] = chk[Parent[c]]

\* checkerpool.go:494, GetGlobalDiagnostics returns what was "collected from all
\* checkers that have been used so far": the persistent one included.
UsedCheckersCollected ==
    (persistentChecker # NoChecker /\ ~persistentHeld)
        => globals[persistentChecker] \subseteq globalDiagAccumulated
=============================================================================
