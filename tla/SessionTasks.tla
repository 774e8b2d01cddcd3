---------------------------- MODULE SessionTasks ----------------------------
(***************************************************************************)
(* Work that the session does in the background, outside any request       *)
(* (internal/project/session.go, background/queue.go): the debounced       *)
(* refresh of the client's diagnostics, which a later edit puts off or     *)
(* cancels, and the publishing of the global diagnostics that checkers     *)
(* have found.  The queue starts a goroutine per task and may be closed    *)
(* between looking at "closed" and starting it.                            *)
(*                                                                         *)
(* The operators are the session's side of the steps of LspServer, which   *)
(* says who calls them and where their messages go.                        *)
(***************************************************************************)
EXTENDS Naturals, Sequences

VARIABLES
    generation,   \* diagnosticsRefreshGeneration
    handle,       \* diagnosticsRefreshCancel: the task it cancels, 0 if nil
    tasks,        \* the refreshes that were scheduled
    wanted,       \* a refresh was scheduled and has neither begun nor been canceled
    found,        \* a checker has global diagnostics that were not published
    pubPending,   \* globalDiagPublishPending
    publisher,    \* the state of publishGlobalDiagnostics
    queueClosed,  \* Queue.closed
    done          \* backgroundCtx is done, the context of Server.Run

refreshVars == <<generation, handle, tasks, wanted>>
publishVars == <<found, pubPending, publisher>>
taskVars == <<refreshVars, publishVars, queueClosed>>

TasksInit ==
    /\ generation = 0 /\ handle = 0 /\ tasks = <<>> /\ wanted = FALSE
    /\ found = FALSE /\ pubPending = FALSE /\ publisher = "idle"
    /\ queueClosed = FALSE /\ done = FALSE

\* Enqueue drops a task when the queue is closed or the task's context, which comes from the
\* background context, is done.
Dropped == queueClosed \/ done

\* The tasks after the one that "handle" names has been canceled.
Canceled == [t \in DOMAIN tasks |-> [tasks[t] EXCEPT !.canceled = @ \/ t = handle]]

\* Mutant of scheduleDiagnosticsRefresh: the task has the generation before the increment.
scheduleOldGeneration ==
    /\ generation' = generation + 1
    /\ handle' = Len(tasks) + 1
    /\ tasks' = Append(Canceled, [gen |-> generation, canceled |-> FALSE,
                                  at |-> IF Dropped THEN "done" ELSE "waiting"])
    /\ wanted' = ~Dropped

\* scheduleDiagnosticsRefresh, under its lock.
scheduleDiagnosticsRefresh ==
    /\ generation' = generation + 1
    /\ handle' = Len(tasks) + 1
    /\ tasks' = Append(Canceled, [gen |-> generation + 1, canceled |-> FALSE,
                                  at |-> IF Dropped THEN "done" ELSE "waiting"])
    /\ wanted' = ~Dropped

\* Mutant of cancelDiagnosticsRefresh: the generation stays.
cancelKeepsGeneration ==
    /\ handle' = 0 /\ tasks' = Canceled /\ wanted' = FALSE
    /\ UNCHANGED generation

\* cancelDiagnosticsRefresh, under its lock.
cancelDiagnosticsRefresh ==
    \/ handle = 0 /\ UNCHANGED refreshVars
    \/ /\ handle # 0
       /\ handle' = 0 /\ tasks' = Canceled /\ wanted' = FALSE
       /\ generation' = generation + 1

\* The delay is over or the task's context is done, because the refresh was put off or
\* canceled or the server ends; when both are so, either may be seen first.
Wake(t) ==
    /\ tasks[t].at = "waiting"
    /\ \/ tasks' = [tasks EXCEPT ![t].at = "due"]
       \/ (tasks[t].canceled \/ done) /\ tasks' = [tasks EXCEPT ![t].at = "done"]
    /\ UNCHANGED <<generation, handle, wanted, publishVars, queueClosed>>

\* Under the lock again: only the task of the last generation goes on.
Begin(t) ==
    /\ tasks[t].at = "due"
    /\ \/ /\ tasks[t].gen # generation
          /\ tasks' = [tasks EXCEPT ![t].at = "done"]
          /\ UNCHANGED <<handle, wanted>>
       \/ /\ tasks[t].gen = generation
          /\ handle' = 0 /\ wanted' = FALSE
          /\ tasks' = [tasks EXCEPT ![t].at = "sending"]
    /\ UNCHANGED <<generation, publishVars, queueClosed>>

\* RefreshDiagnostics has been sent.
Refreshed(t) ==
    /\ tasks[t].at = "sending"
    /\ tasks' = [tasks EXCEPT ![t].at = "done"]
    /\ UNCHANGED <<generation, handle, wanted, publishVars, queueClosed>>

\* EnqueuePublishGlobalDiagnostics: if the queue drops the task the flag stays.
EnqueuePublishGlobalDiagnostics(new) ==
    /\ found' = (found \/ new)
    /\ pubPending' = TRUE
    /\ publisher' = IF pubPending \/ Dropped THEN publisher ELSE "looking"

\* publishGlobalDiagnostics: TakeNewGlobalDiagnostics, and publish what there is; or the
\* goroutine of the queue finds the context done and does not run it.
TakeNewGlobalDiagnostics ==
    /\ publisher = "looking"
    /\ \/ found' = FALSE /\ publisher' = "resetting"
       \/ done /\ publisher' = "idle" /\ UNCHANGED found
    /\ UNCHANGED <<pubPending, refreshVars, queueClosed>>

\* publishGlobalDiagnostics: the deferred Store(false).
ResetPending ==
    /\ publisher = "resetting"
    /\ pubPending' = FALSE /\ publisher' = "idle"
    /\ UNCHANGED <<found, refreshVars, queueClosed>>

TasksTypeOK ==
    /\ generation \in Nat /\ handle \in {0} \union DOMAIN tasks
    /\ \A t \in DOMAIN tasks : tasks[t] \in [gen : 0 .. generation, canceled : BOOLEAN,
                                             at : {"waiting", "due", "sending", "done"}]
    /\ {wanted, found, pubPending, queueClosed, done} \subseteq BOOLEAN
    /\ publisher \in {"idle", "looking", "resetting"}
=============================================================================
