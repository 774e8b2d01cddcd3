-------------------------- MODULE LspServerProofs --------------------------
(***************************************************************************)
(* Proofs about LspServer and SessionTasks, for any clients, requests and  *)
(* number of tasks, and then about SnapshotEffects.                        *)
(***************************************************************************)
EXTENDS LspServer, SnapshotEffects, FiniteSetTheorems, SequenceTheorems, TLAPS

Outgoing == ({"result", "error"} \X Requests) \union ({"call"} \X Calls)
Task == [gen : Nat, canceled : BOOLEAN, at : {"waiting", "due", "sending", "done"}]

\* The variables that TypeOK leaves out.
Queues ==
    /\ script \in Seq(Messages) /\ sent \in 0 .. Len(script)
    /\ requestQueue \in Seq(Messages) /\ outgoingQueue \in Seq(Outgoing)
    /\ replies \in [Requests -> Nat]
Shape == Queues /\ tasks \in Seq(Task)

\* The places a request may be in.
InScript(r) == \E i \in DOMAIN script : i > sent /\ script[i] = r
InQueue(r) == \E i \in DOMAIN requestQueue : requestQueue[i] = r
Replied(r) == replies[r] > 0 \/ Queued(r) # {}

\* The client and the read loop do not repeat a request.
NotRepeated ==
    /\ \A i, j \in DOMAIN script : script[i] = script[j] /\ script[i] \in Requests => i = j
    /\ \A i, j \in DOMAIN requestQueue :
         requestQueue[i] = requestQueue[j] /\ requestQueue[i] \in Requests => i = j

\* A request is in one place: not read yet, queued, with the dispatch loop, with its own
\* goroutine, or replied to.  It is in the table from the third place on until it is canceled
\* or, after the reply, removed.
OnePlace ==
    \A r \in Requests :
        /\ InScript(r) => ~InQueue(r) /\ current # r /\ work[r] = "none" /\ ~Replied(r)
        /\ InQueue(r) => current # r /\ work[r] = "none" /\ ~Replied(r)
        /\ current = r => work[r] \in {"none", "answered"}
        /\ Open(r) => ~Replied(r) /\ r \in pendingClientRequests \union canceled
        /\ r \in pendingClientRequests => Open(r) \/ work[r] = "answered"

\* A request has at most one reply, queued or written.
OneReply ==
    \A r \in Requests :
        /\ replies[r] \in {0, 1}
        /\ replies[r] = 1 => Queued(r) = {}
        /\ \A i, j \in Queued(r) : i = j

\* The dispatch loop waits for a call only in handleInitialized.
WaitsInInitialized == waiting # 0 => current \in Messages /\ Kind[current] = "initialized"

\* A task of the last generation that has not begun is the last one, and still wanted.
LastWanted ==
    \A t \in DOMAIN tasks : tasks[t].gen = generation /\ tasks[t].at \in {"waiting", "due"} =>
        wanted /\ handle = t /\ t = Len(tasks)

Placed == Queues /\ NotRepeated /\ OnePlace /\ OneReply /\ WaitsInInitialized

IInv == TypeOK /\ Shape /\ Placed /\ LastWanted

------------------------------------------------------------------------------
(* The tasks of the session *)

\* What a step may do to the refreshes.
RefreshStep ==
    \/ scheduleDiagnosticsRefresh
    \/ cancelDiagnosticsRefresh
    \/ \E t \in DOMAIN tasks : Wake(t) \/ Begin(t) \/ Refreshed(t)
    \/ UNCHANGED refreshVars

LEMMA RefreshSteps == [Next]_vars => RefreshStep
<1> SUFFICES ASSUME [Next]_vars PROVE RefreshStep
  OBVIOUS
<1>1. CASE UNCHANGED vars
  BY <1>1 DEF vars, taskVars, RefreshStep
<1>2. CASE \E t \in DOMAIN tasks : RefreshTask(t)
  BY <1>2 DEF RefreshTask, RefreshStep
<1>3. CASE CloseSession \/ HandleNotification \/ InstallEnds
  BY <1>3 DEF CloseSession, HandleNotification, InstallEnds, RefreshStep, taskVars
<1>4. CASE Read \/ ReadEnds \/ Write \/ WriteEnds \/ Dispatch \/ HandleRequest \/ HandleAsync
             \/ DispatchEnds
  BY <1>4 DEF Read, ReadEnds, Write, WriteEnds, Dispatch, HandleRequest, HandleAsync,
              DispatchEnds, RefreshStep, taskVars
<1>5. CASE PublishTask
  BY <1>5 DEF PublishTask, TakeNewGlobalDiagnostics, ResetPending, RefreshStep
<1>6. CASE \E r \in Requests : cancelRequest(r) \/ Work(r)
  BY <1>6 DEF cancelRequest, Work, WorkDone, WorkReplies, recover, removeRequest, RefreshStep,
              taskVars
<1>7. CASE \E c \in Calls : ReadResponse(c) \/ Call(c) \/ CallEnds(c)
  BY <1>7 DEF ReadResponse, Call, CallEnds, RefreshStep, taskVars
<1> QED
  BY <1>1, <1>2, <1>3, <1>4, <1>5, <1>6, <1>7 DEF Next, Loop

\* The part of the type invariant that is about the refreshes.
RefreshTypeOK ==
    /\ generation \in Nat /\ handle \in {0} \union DOMAIN tasks /\ wanted \in BOOLEAN
    /\ tasks \in Seq(Task)
    /\ \A t \in DOMAIN tasks : tasks[t].gen \in 0 .. generation

\* Canceling changes nothing but the flag.
LEMMA CanceledTasks ==
  ASSUME RefreshTypeOK
  PROVE  /\ Canceled \in Seq(Task) /\ Len(Canceled) = Len(tasks)
         /\ DOMAIN Canceled = DOMAIN tasks
         /\ \A t \in DOMAIN tasks :
              Canceled[t].gen = tasks[t].gen /\ Canceled[t].at = tasks[t].at
<1>1. tasks \in Seq(Task) /\ Len(tasks) \in Nat /\ DOMAIN tasks = 1 .. Len(tasks)
  BY DEF RefreshTypeOK
<1>2. ASSUME NEW t \in DOMAIN tasks
      PROVE  /\ Canceled[t] \in Task
             /\ Canceled[t].gen = tasks[t].gen /\ Canceled[t].at = tasks[t].at
  <2>1. tasks[t] \in Task
    BY <1>1
  <2>2. Canceled[t] = [tasks[t] EXCEPT !.canceled = @ \/ t = handle]
    BY DEF Canceled
  <2> QED
    BY <2>1, <2>2 DEF Task
<1>3. Canceled = [t \in 1 .. Len(tasks) |-> Canceled[t]]
  BY <1>1 DEF Canceled
<1>4. Canceled \in Seq(Task) /\ Len(Canceled) = Len(tasks)
  BY <1>1, <1>2, <1>3, IsASeq
<1> QED
  BY <1>1, <1>2, <1>3, <1>4

\* The refreshes keep their shape, and the last one is the only one that may begin.
LEMMA RefreshKept ==
  ASSUME RefreshTypeOK, LastWanted, RefreshStep
  PROVE  RefreshTypeOK' /\ LastWanted'
<1>1. tasks \in Seq(Task) /\ Len(tasks) \in Nat /\ DOMAIN tasks = 1 .. Len(tasks)
  BY DEF RefreshTypeOK
<1>2. CASE scheduleDiagnosticsRefresh
  <2> DEFINE new == [gen |-> generation + 1, canceled |-> FALSE,
                     at |-> IF Dropped THEN "done" ELSE "waiting"]
  <2>1. new \in Task /\ new.gen = generation + 1
        /\ (new.at \in {"waiting", "due"} => ~Dropped)
    BY DEF RefreshTypeOK, Task
  <2>2. /\ tasks' = Append(Canceled, new) /\ generation' = generation + 1
        /\ handle' = Len(tasks) + 1 /\ wanted' = ~Dropped
    BY <1>2 DEF scheduleDiagnosticsRefresh
  <2> HIDE DEF new
  <2>3. /\ tasks' \in Seq(Task) /\ Len(tasks') = Len(tasks) + 1
        /\ DOMAIN tasks' = 1 .. Len(tasks) + 1
        /\ \A t \in DOMAIN tasks : tasks'[t] = Canceled[t]
        /\ tasks'[Len(tasks) + 1] = new
    BY <1>1, <2>1, <2>2, CanceledTasks, AppendProperties
  <2>4. ASSUME NEW t \in DOMAIN tasks'
        PROVE  /\ tasks'[t].gen \in 0 .. generation'
               /\ t # Len(tasks) + 1 => tasks'[t].gen # generation'
    <3>1. CASE t = Len(tasks) + 1
      BY <3>1, <2>1, <2>2, <2>3 DEF RefreshTypeOK
    <3>2. CASE t \in DOMAIN tasks
      BY <3>2, <2>2, <2>3, CanceledTasks DEF RefreshTypeOK
    <3> QED
      BY <3>1, <3>2, <1>1, <2>3
  <2>5. RefreshTypeOK'
    BY <1>1, <2>2, <2>3, <2>4 DEF RefreshTypeOK
  <2>6. ASSUME NEW t \in DOMAIN tasks', tasks'[t].gen = generation',
               tasks'[t].at \in {"waiting", "due"}
        PROVE  wanted' /\ handle' = t /\ t = Len(tasks')
    <3>1. t = Len(tasks) + 1
      BY <2>4, <2>6
    <3> QED
      BY <3>1, <2>1, <2>2, <2>3, <2>6
  <2> QED
    BY <2>5, <2>6 DEF LastWanted
<1>3. CASE cancelDiagnosticsRefresh
  <2>1. CASE UNCHANGED refreshVars
    BY <2>1 DEF refreshVars, RefreshTypeOK, LastWanted
  <2>2. CASE tasks' = Canceled /\ handle' = 0 /\ wanted' = FALSE /\ generation' = generation + 1
    <3>1. /\ tasks' \in Seq(Task) /\ DOMAIN tasks' = DOMAIN tasks
          /\ \A t \in DOMAIN tasks : tasks'[t].gen = tasks[t].gen
      BY <2>2, CanceledTasks
    <3>2. generation' \in Nat /\ \A t \in DOMAIN tasks' : tasks'[t].gen \in 0 .. generation'
                                                         /\ tasks'[t].gen # generation'
      BY <2>2, <3>1 DEF RefreshTypeOK
    <3> QED
      BY <2>2, <3>1, <3>2 DEF RefreshTypeOK, LastWanted
  <2> QED
    BY <1>3, <2>1, <2>2 DEF cancelDiagnosticsRefresh
<1>4. ASSUME NEW t \in DOMAIN tasks, NEW a \in {"due", "sending", "done"},
             tasks' = [tasks EXCEPT ![t].at = a], generation' = generation
      PROVE  /\ tasks' \in Seq(Task) /\ DOMAIN tasks' = DOMAIN tasks /\ Len(tasks') = Len(tasks)
             /\ tasks'[t].at = a
             /\ \A u \in DOMAIN tasks : tasks'[u].gen = tasks[u].gen
                                        /\ (u # t => tasks'[u] = tasks[u])
  <2>1. tasks[t] \in Task
    BY <1>1
  <2>2. [tasks[t] EXCEPT !.at = a] \in Task
        /\ [tasks[t] EXCEPT !.at = a].at = a /\ [tasks[t] EXCEPT !.at = a].gen = tasks[t].gen
    BY <2>1 DEF Task
  <2>3. tasks' = [tasks EXCEPT ![t] = [tasks[t] EXCEPT !.at = a]]
    BY <1>4
  <2>4. tasks' \in Seq(Task) /\ Len(tasks') = Len(tasks)
    BY <1>1, <2>2, <2>3, ExceptSeq
  <2> QED
    BY <1>1, <2>2, <2>3, <2>4
<1>5. ASSUME NEW t \in DOMAIN tasks, Wake(t)
      PROVE  RefreshTypeOK' /\ LastWanted'
  <2>1. PICK a \in {"due", "sending", "done"} : tasks' = [tasks EXCEPT ![t].at = a]
    BY <1>5 DEF Wake
  <2>2. UNCHANGED <<generation, handle, wanted>> /\ tasks[t].at = "waiting"
    BY <1>5 DEF Wake
  <2>3. /\ tasks' \in Seq(Task) /\ DOMAIN tasks' = DOMAIN tasks /\ Len(tasks') = Len(tasks)
        /\ \A u \in DOMAIN tasks : tasks'[u].gen = tasks[u].gen
                                   /\ (u # t => tasks'[u] = tasks[u])
    BY <2>1, <2>2, <1>4
  <2> QED
    BY <2>2, <2>3 DEF RefreshTypeOK, LastWanted
<1>6. ASSUME NEW t \in DOMAIN tasks, Refreshed(t)
      PROVE  RefreshTypeOK' /\ LastWanted'
  <2>1. tasks' = [tasks EXCEPT ![t].at = "done"] /\ UNCHANGED <<generation, handle, wanted>>
    BY <1>6 DEF Refreshed
  <2> QED
    BY <2>1, <1>4 DEF RefreshTypeOK, LastWanted
<1>7. ASSUME NEW t \in DOMAIN tasks, Begin(t)
      PROVE  RefreshTypeOK' /\ LastWanted'
  <2>1. CASE tasks[t].gen # generation
    BY <2>1, <1>7, <1>4 DEF Begin, RefreshTypeOK, LastWanted
  <2>2. CASE tasks[t].gen = generation
    <3>1. /\ tasks' = [tasks EXCEPT ![t].at = "sending"] /\ generation' = generation
          /\ handle' = 0 /\ wanted' = FALSE /\ tasks[t].at = "due"
      BY <2>2, <1>7 DEF Begin
    <3>2. /\ tasks' \in Seq(Task) /\ DOMAIN tasks' = DOMAIN tasks
          /\ tasks'[t].at = "sending"
          /\ \A u \in DOMAIN tasks : tasks'[u].gen = tasks[u].gen
                                     /\ (u # t => tasks'[u] = tasks[u])
      BY <3>1, <1>4
    <3>3. \A u \in DOMAIN tasks : tasks[u].gen = generation /\ tasks[u].at \in {"waiting", "due"}
                                 => u = t
      BY <2>2, <3>1 DEF LastWanted
    <3>4. RefreshTypeOK'
      BY <3>1, <3>2 DEF RefreshTypeOK
    <3> QED
      BY <3>1, <3>2, <3>3, <3>4 DEF LastWanted
  <2> QED
    BY <2>1, <2>2
<1>8. CASE UNCHANGED refreshVars
  BY <1>8 DEF refreshVars, RefreshTypeOK, LastWanted
<1> QED
  BY <1>2, <1>3, <1>5, <1>6, <1>7, <1>8 DEF RefreshStep

\* A refresh that begins is the last one that was scheduled, and nobody canceled it.
LEMMA RefreshBegins ==
  ASSUME RefreshTypeOK, LastWanted, RefreshStep,
         NEW t \in DOMAIN tasks, tasks[t].at = "due", tasks'[t].at = "sending"
  PROVE  wanted /\ \A u \in DOMAIN tasks : u > t => tasks[u].at # "waiting"
<1>1. tasks \in Seq(Task) /\ Len(tasks) \in Nat /\ DOMAIN tasks = 1 .. Len(tasks)
  BY DEF RefreshTypeOK
<1>2. tasks[t].gen = generation
  <2>1. CASE scheduleDiagnosticsRefresh
    <3>1. tasks'[t] = Canceled[t]
      BY <1>1, <2>1, CanceledTasks, AppendProperties DEF scheduleDiagnosticsRefresh
    <3> QED
      BY <3>1, CanceledTasks
  <2>2. CASE cancelDiagnosticsRefresh
    BY <2>2, CanceledTasks DEF cancelDiagnosticsRefresh, refreshVars
  <2>3. ASSUME NEW u \in DOMAIN tasks, Wake(u) \/ Begin(u) \/ Refreshed(u)
        PROVE  tasks[t].gen = generation
    <3>1. tasks[t] \in Task /\ tasks[u] \in Task
      BY <1>1
    <3>2. CASE u # t
      BY <1>1, <2>3, <3>2 DEF Wake, Begin, Refreshed
    <3>3. CASE u = t
      <4>1. Begin(t)
        BY <2>3, <3>3 DEF Wake, Refreshed
      <4>2. tasks' = [tasks EXCEPT ![t].at = "done"] => tasks'[t].at = "done"
        BY <1>1, <3>1 DEF Task
      <4> QED
        BY <4>1, <4>2 DEF Begin
    <3> QED
      BY <3>2, <3>3
  <2> QED
    BY <2>1, <2>2, <2>3 DEF RefreshStep, refreshVars
<1> QED
  BY <1>1, <1>2 DEF LastWanted

------------------------------------------------------------------------------
(* The queue of the write loop *)

\* The replies are as they were.
RepliesSame ==
    outgoingQueue' \in Seq(Outgoing) /\ replies' = replies
    /\ OneReply' /\ \A s \in Requests : Replied(s)' => Replied(s)

LEMMA NothingSent ==
  ASSUME Queues, OneReply, UNCHANGED <<outgoingQueue, replies>>
  PROVE  RepliesSame
BY DEF RepliesSame, OneReply, Replied, Queued, Queues

\* A request that was not replied to gets a reply, unless the server has stopped; nothing
\* changes for another one.
LEMMA ReplySent ==
  ASSUME Queues, OneReply, NEW r \in Requests, NEW what \in {"result", "error"}, ~Replied(r),
         send(<<what, r>>), replies' = replies
  PROVE  /\ outgoingQueue' \in Seq(Outgoing) /\ OneReply'
         /\ \A s \in Requests : Replied(s)' => Replied(s) \/ s = r
<1>1. CASE outgoingQueue' = outgoingQueue
  BY <1>1 DEF OneReply, Replied, Queued, Queues
<1>2. CASE outgoingQueue' = Append(outgoingQueue, <<what, r>>)
  <2>1. <<what, r>> \in Outgoing
    BY DEF Outgoing
  <2>2. outgoingQueue \in Seq(Outgoing) /\ DOMAIN outgoingQueue = 1 .. Len(outgoingQueue)
        /\ Len(outgoingQueue) \in Nat
    BY DEF Queues
  <2>3. /\ outgoingQueue' \in Seq(Outgoing)
        /\ DOMAIN outgoingQueue' = 1 .. Len(outgoingQueue) + 1
        /\ \A i \in DOMAIN outgoingQueue : outgoingQueue'[i] = outgoingQueue[i]
        /\ outgoingQueue'[Len(outgoingQueue) + 1] = <<what, r>>
    BY <1>2, <2>1, <2>2, AppendProperties
  <2>4. ASSUME NEW s \in Requests, s # r
        PROVE  Queued(s)' = Queued(s)
    BY <2>2, <2>3, <2>4 DEF Queued
  <2>5. Queued(r) = {} /\ replies[r] = 0
    BY DEF Replied, Queues
  <2>6. Queued(r)' = {Len(outgoingQueue) + 1}
    BY <2>2, <2>3, <2>5 DEF Queued
  <2>7. OneReply'
    BY <2>4, <2>5, <2>6 DEF OneReply
  <2> QED
    BY <2>3, <2>4, <2>7 DEF Replied
<1> QED
  BY <1>1, <1>2 DEF send

LEMMA CallSent ==
  ASSUME Queues, OneReply, NEW c \in Calls, send(<<"call", c>>), replies' = replies
  PROVE  RepliesSame
<1>1. CASE outgoingQueue' = outgoingQueue
  BY <1>1, NothingSent
<1>2. CASE outgoingQueue' = Append(outgoingQueue, <<"call", c>>)
  <2>1. <<"call", c>> \in Outgoing
    BY DEF Outgoing
  <2>2. outgoingQueue \in Seq(Outgoing) /\ DOMAIN outgoingQueue = 1 .. Len(outgoingQueue)
        /\ Len(outgoingQueue) \in Nat
    BY DEF Queues
  <2>3. /\ outgoingQueue' \in Seq(Outgoing)
        /\ DOMAIN outgoingQueue' = 1 .. Len(outgoingQueue) + 1
        /\ \A i \in DOMAIN outgoingQueue : outgoingQueue'[i] = outgoingQueue[i]
        /\ outgoingQueue'[Len(outgoingQueue) + 1] = <<"call", c>>
    BY <1>2, <2>1, <2>2, AppendProperties
  <2>4. ASSUME NEW s \in Requests
        PROVE  Queued(s)' = Queued(s)
    BY <2>2, <2>3 DEF Queued
  <2> QED
    BY <2>3, <2>4 DEF RepliesSame, OneReply, Replied
<1> QED
  BY <1>1, <1>2 DEF send

\* The head of the queue is written, or an error takes its place at the end.
LEMMA Written ==
  ASSUME Queues, OneReply, Write
  PROVE  /\ outgoingQueue' \in Seq(Outgoing) /\ replies' \in [Requests -> Nat]
         /\ OneReply' /\ \A s \in Requests : Replied(s)' => Replied(s)
<1> DEFINE msg == Head(outgoingQueue)
           rest == Tail(outgoingQueue)
<1>1. outgoingQueue \in Seq(Outgoing) /\ DOMAIN outgoingQueue = 1 .. Len(outgoingQueue)
      /\ Len(outgoingQueue) \in Nat /\ replies \in [Requests -> Nat] /\ outgoingQueue # <<>>
  BY DEF Queues, Write
<1>2. /\ rest \in Seq(Outgoing) /\ Len(rest) = Len(outgoingQueue) - 1
      /\ DOMAIN rest = 1 .. Len(outgoingQueue) - 1 /\ Len(rest) \in Nat
      /\ \A i \in DOMAIN rest : rest[i] = outgoingQueue[i + 1]
      /\ msg = outgoingQueue[1] /\ 1 \in DOMAIN outgoingQueue /\ msg \in Outgoing
  BY <1>1, HeadTailProperties
<1> HIDE DEF msg, rest
<1> DEFINE answers(s) == {<<"result", s>>, <<"error", s>>}
           left(s) == {i \in DOMAIN rest : rest[i] \in answers(s)}
<1>3. ASSUME NEW s \in Requests
      PROVE  /\ \A i \in left(s) : i + 1 \in Queued(s) /\ i + 1 # 1
             /\ msg \in answers(s) => 1 \in Queued(s)
  BY <1>1, <1>2 DEF Queued
<1>4. ASSUME NEW s \in Requests
      PROVE  /\ \A i, j \in left(s) : i = j
             /\ left(s) # {} => Queued(s) # {} /\ replies[s] = 0 /\ msg \notin answers(s)
             /\ msg \in answers(s) => replies[s] = 0 /\ left(s) = {} /\ Queued(s) # {}
  <2>1. \A i, j \in left(s) : i + 1 = j + 1
    BY <1>3 DEF OneReply
  <2>2. \A i \in left(s) : i \in Nat
    BY <1>2
  <2>3. \A i, j \in left(s) : i = j
    <3> HIDE DEF left
    <3> QED
      BY <2>1, <2>2
  <2>4. left(s) # {} => Queued(s) # {} /\ msg \notin answers(s)
    <3> HIDE DEF left, answers
    <3> QED
      BY <1>3 DEF OneReply
  <2>5. Queued(s) # {} => replies[s] = 0
    BY DEF OneReply
  <2> HIDE DEF left, answers
  <2> QED
    BY <1>3, <2>3, <2>4, <2>5
<1>5. CASE /\ outgoingQueue' = rest
           /\ replies' = [r \in Requests |-> replies[r] + IF msg \in answers(r) THEN 1 ELSE 0]
  <2>1. \A s \in Requests : Queued(s)' = left(s)
    BY <1>5 DEF Queued
  <2>2. ASSUME NEW s \in Requests
        PROVE  /\ replies'[s] \in {0, 1} /\ (replies'[s] = 1 => left(s) = {})
               /\ replies'[s] > 0 => Replied(s)
    <3>1. replies[s] \in {0, 1} /\ (replies[s] = 1 => Queued(s) = {})
      BY DEF OneReply
    <3>2. CASE msg \in answers(s)
      <4>1. replies'[s] = 1 /\ left(s) = {} /\ Queued(s) # {}
        BY <3>2, <1>4, <1>5
      <4> QED
        BY <4>1 DEF Replied
    <3>3. CASE msg \notin answers(s)
      <4>1. replies'[s] = replies[s]
        BY <3>3, <1>1, <1>5
      <4>2. replies[s] = 1 => left(s) = {}
        <5> HIDE DEF left
        <5> QED
          BY <1>4, <3>1
      <4> QED
        BY <4>1, <4>2, <3>1 DEF Replied
    <3> QED
      BY <3>2, <3>3
  <2>3. replies' \in [Requests -> Nat]
    BY <1>1, <1>5
  <2>4. OneReply'
    <3> HIDE DEF left
    <3> QED
      BY <2>1, <2>2, <1>4 DEF OneReply
  <2>5. \A s \in Requests : Replied(s)' => Replied(s)
    <3> HIDE DEF left
    <3> QED
      BY <2>1, <2>2, <1>4 DEF Replied
  <2> QED
    BY <2>3, <2>4, <2>5, <1>2, <1>5
<1>6. CASE msg[1] = "result" /\ outgoingQueue' = Append(rest, <<"error", msg[2]>>)
           /\ replies' = replies
  <2>1. msg[2] \in Requests /\ msg \in answers(msg[2])
    BY <1>2, <1>6 DEF Outgoing
  <2>2. PICK q \in Requests : q = msg[2]
    BY <2>1
  <2>3. <<"error", q>> \in Outgoing
    BY DEF Outgoing
  <2>4. /\ outgoingQueue' \in Seq(Outgoing)
        /\ DOMAIN outgoingQueue' = 1 .. Len(rest) + 1
        /\ \A i \in DOMAIN rest : outgoingQueue'[i] = rest[i]
        /\ outgoingQueue'[Len(rest) + 1] = <<"error", q>>
    BY <1>2, <1>6, <2>2, <2>3, AppendProperties
  <2>5. left(q) = {} /\ Queued(q) # {} /\ replies[q] = 0
    <3> HIDE DEF left, answers
    <3> QED
      BY <2>1, <2>2, <1>4
  <2>6. Queued(q)' = {Len(rest) + 1}
    BY <1>2, <2>4, <2>5 DEF Queued
  <2>7. ASSUME NEW s \in Requests, s # q
        PROVE  Queued(s)' = left(s)
    BY <1>2, <2>4, <2>7 DEF Queued
  <2> HIDE DEF left, answers
  <2>8. OneReply'
    BY <1>4, <1>6, <2>5, <2>6, <2>7 DEF OneReply
  <2>9. \A s \in Requests : Replied(s)' => Replied(s)
    BY <1>4, <1>6, <2>5, <2>7 DEF Replied
  <2> QED
    BY <1>1, <1>6, <2>4, <2>8, <2>9
<1> QED
  BY <1>5, <1>6 DEF Write, msg, rest

------------------------------------------------------------------------------
(* Types *)

\* The part of the type invariant that is not about the refreshes.
ServerTypeOK ==
    /\ found \in BOOLEAN /\ pubPending \in BOOLEAN /\ queueClosed \in BOOLEAN /\ done \in BOOLEAN
    /\ publisher \in {"idle", "looking", "resetting"}
    /\ session \in {"none", "open", "closing", "closed"}
    /\ current \in Messages \union {Nil} /\ waiting \in {0} \union Calls
    /\ work \in [Requests -> {"none", "running", "replying", "answered", "ended"}]
    /\ pendingClientRequests \subseteq Requests /\ canceled \subseteq Requests
    /\ calls \in [Calls -> {"none", "pending", "asked", "answered", "over", "gone", "ignored"}]
    /\ over \subseteq {"read", "dispatch", "write"}

LEMMA RequestsAreMessages == Requests \subseteq Messages /\ Nil \notin Messages
BY ClientsAssumption DEF Requests

LEMMA TypeSplits ==
  ASSUME Shape
  PROVE  TypeOK <=> ServerTypeOK /\ RefreshTypeOK
<1>1. tasks \in Seq(Task) /\ DOMAIN tasks = 1 .. Len(tasks)
  BY DEF Shape
<1>2. ASSUME generation \in Nat, NEW t \in DOMAIN tasks
      PROVE  tasks[t].gen \in 0 .. generation <=>
             tasks[t] \in [gen : 0 .. generation, canceled : BOOLEAN,
                           at : {"waiting", "due", "sending", "done"}]
  <2>1. tasks[t] \in Task
    BY <1>1
  <2> QED
    BY <2>1, <1>2 DEF Task
<1>3. TasksTypeOK <=> /\ RefreshTypeOK /\ {found, pubPending, queueClosed, done} \subseteq BOOLEAN
                      /\ publisher \in {"idle", "looking", "resetting"}
  BY <1>1, <1>2 DEF TasksTypeOK, RefreshTypeOK
<1> QED
  BY <1>3 DEF TypeOK, ServerTypeOK

LEMMA ServerTyped ==
  ASSUME ServerTypeOK, Shape, [Next]_vars
  PROVE  ServerTypeOK'
<1> USE RequestsAreMessages
<1>1. CASE UNCHANGED vars
  BY <1>1 DEF vars, serverVars, readVars, dispatchVars, requestVars, endVars, taskVars,
              publishVars, ServerTypeOK
<1>2. CASE Read \/ ReadEnds \/ DispatchEnds \/ WriteEnds
  BY <1>2 DEF Read, ReadEnds, DispatchEnds, WriteEnds, requestVars, dispatchVars, taskVars,
              publishVars, ServerTypeOK
<1>3. CASE Dispatch
  <2>1. Head(requestQueue) \in Messages
    BY <1>3 DEF Dispatch, Shape, Queues
  <2> QED
    BY <1>3, <2>1 DEF Dispatch, endVars, taskVars, publishVars, ServerTypeOK
<1>4. CASE CloseSession
  BY <1>4 DEF CloseSession, dispatchVars, requestVars, endVars, publishVars, ServerTypeOK
<1>5. CASE HandleRequest
  BY <1>5 DEF HandleRequest, Handling, Reply, dispatchVars, endVars, publishVars, ServerTypeOK
<1>6. CASE HandleAsync
  BY <1>6 DEF HandleAsync, Handling, Reply, endVars, taskVars, publishVars, ServerTypeOK
<1>7. CASE HandleNotification
  BY <1>7 DEF HandleNotification, requestVars, taskVars, publishVars, ServerTypeOK
<1>8. ASSUME NEW c \in Calls, Call(c) \/ CallEnds(c) \/ ReadResponse(c)
      PROVE  ServerTypeOK'
  BY <1>8 DEF Call, CallEnds, ReadResponse, requestVars, dispatchVars, endVars, taskVars,
              publishVars, ServerTypeOK
<1>9. ASSUME NEW r \in Requests, cancelRequest(r)
      PROVE  ServerTypeOK'
  BY <1>9 DEF cancelRequest, dispatchVars, endVars, taskVars, publishVars, ServerTypeOK
<1>10. ASSUME NEW r \in Requests, NEW new \in BOOLEAN, WorkDone(r, new)
       PROVE  ServerTypeOK'
  BY <1>10 DEF WorkDone, EnqueuePublishGlobalDiagnostics, Reply, dispatchVars, endVars,
               ServerTypeOK
<1>11. ASSUME NEW r \in Requests, WorkReplies(r) \/ recover(r) \/ removeRequest(r)
       PROVE  ServerTypeOK'
  BY <1>11 DEF WorkReplies, recover, removeRequest, Reply, dispatchVars, endVars, taskVars, publishVars,
               ServerTypeOK
<1>12. CASE Write
  <2>1. calls' \in [Calls -> {"none", "pending", "asked", "answered", "over", "gone", "ignored"}]
    BY <1>12 DEF Write, ServerTypeOK
  <2> QED
    BY <1>12, <2>1 DEF Write, dispatchVars, requestVars, endVars, taskVars, publishVars,
                       ServerTypeOK
<1>13. CASE InstallEnds
  BY <1>13 DEF InstallEnds, serverVars, dispatchVars, requestVars, endVars, publishVars,
               ServerTypeOK
<1>14. CASE PublishTask
  BY <1>14 DEF PublishTask, TakeNewGlobalDiagnostics, ResetPending, serverVars, dispatchVars,
               requestVars, endVars, ServerTypeOK
<1>15. ASSUME NEW t \in DOMAIN tasks, RefreshTask(t)
       PROVE  ServerTypeOK'
  BY <1>15 DEF RefreshTask, Wake, Begin, Refreshed, serverVars, dispatchVars, requestVars,
               endVars, publishVars, ServerTypeOK
<1> QED
  BY <1>1, <1>2, <1>3, <1>4, <1>5, <1>6, <1>7, <1>8, <1>9, <1>10, <1>11, <1>12, <1>13, <1>14,
     <1>15 DEF Next, Loop, Work

------------------------------------------------------------------------------
(* Where the requests are *)

\* A step that moves no request leaves each in its place.
LEMMA NothingMoves ==
  ASSUME Placed, UNCHANGED <<script, sent, requestQueue>>, Queues', OneReply',
         WaitsInInitialized',
         \A s \in Requests :
             /\ current' = s <=> current = s
             /\ work'[s] = "none" <=> work[s] = "none"
             /\ work'[s] = "answered" <=> work[s] = "answered"
             /\ Open(s)' <=> Open(s)
             /\ Replied(s)' => Replied(s)
             /\ s \in pendingClientRequests' => s \in pendingClientRequests
             /\ s \in pendingClientRequests \union canceled =>
                  s \in pendingClientRequests' \union canceled'
  PROVE  Placed'
<1>1. \A s \in Requests : (InScript(s)' <=> InScript(s)) /\ (InQueue(s)' <=> InQueue(s))
  BY DEF InScript, InQueue
<1>2. OnePlace'
  BY <1>1 DEF Placed, OnePlace
<1> QED
  BY <1>2 DEF Placed, NotRepeated

\* A reply ends the work on a request: it stays where it is, to be removed.
LEMMA ReplyMoves ==
  ASSUME Placed, ServerTypeOK, NEW r \in Requests, Open(r),
         NEW what \in {"result", "error"}, Reply(r, what),
         UNCHANGED <<script, sent, requestQueue, current, waiting, replies,
                     pendingClientRequests, canceled>>
  PROVE  Placed'
<1>1. \A s \in Requests : (InScript(s)' <=> InScript(s)) /\ (InQueue(s)' <=> InQueue(s))
  BY DEF InScript, InQueue
<1>2. ~Replied(r) /\ ~InScript(r) /\ ~InQueue(r)
  BY DEF Placed, OnePlace, Open
<1>3. /\ outgoingQueue' \in Seq(Outgoing) /\ OneReply'
      /\ \A s \in Requests : Replied(s)' => Replied(s) \/ s = r
  BY <1>2, ReplySent DEF Placed, Reply
<1>4. work'[r] = "answered" /\ \A s \in Requests \ {r} : work'[s] = work[s]
  BY DEF Reply, ServerTypeOK
<1>5. ~Open(r)' /\ \A s \in Requests \ {r} : Open(s)' <=> Open(s)
  BY <1>4 DEF Open
<1>6. ASSUME NEW s \in Requests
      PROVE  /\ InScript(s)' => ~InQueue(s)' /\ current' # s /\ work'[s] = "none" /\ ~Replied(s)'
             /\ InQueue(s)' => current' # s /\ work'[s] = "none" /\ ~Replied(s)'
             /\ current' = s => work'[s] \in {"none", "answered"}
             /\ Open(s)' => ~Replied(s)' /\ s \in pendingClientRequests' \union canceled'
             /\ s \in pendingClientRequests' => Open(s)' \/ work'[s] = "answered"
  <2>1. CASE s = r
    BY <2>1, <1>1, <1>2, <1>4, <1>5
  <2>2. CASE s # r
    BY <2>2, <1>1, <1>3, <1>4, <1>5 DEF Placed, OnePlace
  <2> QED
    BY <2>1, <2>2
<1>7. OnePlace'
  BY <1>6 DEF OnePlace
<1>8. Queues' /\ NotRepeated' /\ WaitsInInitialized'
  BY <1>3 DEF Placed, Queues, NotRepeated, WaitsInInitialized
<1> QED
  BY <1>3, <1>7, <1>8 DEF Placed

\* A request that was answered leaves the table, and the dispatch loop if it is there.
LEMMA RemoveMoves ==
  ASSUME Placed, ServerTypeOK, NEW r \in Requests, removeRequest(r)
  PROVE  Placed'
<1>1. /\ UNCHANGED <<script, sent, requestQueue, waiting, canceled, outgoingQueue, replies>>
      /\ work[r] = "answered" /\ work'[r] = "ended" /\ \A s \in Requests \ {r} : work'[s] = work[s]
      /\ pendingClientRequests' = pendingClientRequests \ {r}
      /\ current' = IF current = r THEN Nil ELSE current
  BY DEF removeRequest, readVars, writeVars, ServerTypeOK
<1>2. RepliesSame
  BY <1>1, NothingSent DEF Placed
<1>3. /\ \A s \in Requests : (InScript(s)' <=> InScript(s)) /\ (InQueue(s)' <=> InQueue(s))
      /\ ~InScript(r) /\ ~InQueue(r)
  BY <1>1 DEF InScript, InQueue, Placed, OnePlace
<1>4. \A s \in Requests : current' # r /\ (s # r => (current' = s <=> current = s))
  BY <1>1, RequestsAreMessages
<1>5. ~Open(r)' /\ \A s \in Requests \ {r} : Open(s)' <=> Open(s)
  BY <1>1, <1>4 DEF Open
<1>6. ASSUME NEW s \in Requests
      PROVE  /\ InScript(s)' => ~InQueue(s)' /\ current' # s /\ work'[s] = "none" /\ ~Replied(s)'
             /\ InQueue(s)' => current' # s /\ work'[s] = "none" /\ ~Replied(s)'
             /\ current' = s => work'[s] \in {"none", "answered"}
             /\ Open(s)' => ~Replied(s)' /\ s \in pendingClientRequests' \union canceled'
             /\ s \in pendingClientRequests' => Open(s)' \/ work'[s] = "answered"
  <2>1. CASE s = r
    BY <2>1, <1>1, <1>3, <1>4, <1>5
  <2>2. CASE s # r
    BY <2>2, <1>1, <1>2, <1>3, <1>4, <1>5 DEF Placed, OnePlace, RepliesSame
  <2> QED
    BY <2>1, <2>2
<1>7. OnePlace'
  BY <1>6 DEF OnePlace
<1>8. WaitsInInitialized'
  BY <1>1 DEF Placed, WaitsInInitialized, Requests, RequestKinds
<1> QED
  BY <1>1, <1>2, <1>7, <1>8 DEF Placed, Queues, NotRepeated, RepliesSame

\* The read loop takes a message from the client.
LEMMA ReadMoves ==
  ASSUME Placed, ServerTypeOK, Read
  PROVE  Placed'
<1> DEFINE m == script[sent + 1]
<1>1. /\ script \in Seq(Messages) /\ Len(script) \in Nat /\ DOMAIN script = 1 .. Len(script)
      /\ sent \in Nat /\ sent + 1 \in DOMAIN script /\ m \in Messages /\ sent' = sent + 1
      /\ UNCHANGED <<script, current, waiting, work, pendingClientRequests, canceled, replies>>
  BY DEF Read, Placed, Queues, requestVars
<1> HIDE DEF m
<1>2. \A s \in Requests : /\ InScript(s)' => InScript(s) /\ s # m
                          /\ s = m => InScript(s)
                          /\ Open(s)' <=> Open(s)
  BY <1>1 DEF InScript, Open, Placed, NotRepeated, m
<1>3. WaitsInInitialized'
  BY <1>1 DEF WaitsInInitialized, Placed
<1>4. sent' \in 0 .. Len(script') /\ script' \in Seq(Messages) /\ replies' \in [Requests -> Nat]
  BY <1>1 DEF Placed, Queues
<1>5. ASSUME NEW what \in {"result", "error"}, Kind[m] \in RequestKinds, send(<<what, m>>),
             UNCHANGED requestQueue
      PROVE  Placed'
  <2>1. m \in Requests
    BY <1>1, <1>5 DEF Requests
  <2>2. ~InQueue(m) /\ current # m /\ work[m] = "none" /\ ~Replied(m) /\ ~Open(m)
    BY <2>1, <1>2 DEF Placed, OnePlace, Open
  <2>3. /\ outgoingQueue' \in Seq(Outgoing) /\ OneReply'
        /\ \A s \in Requests : Replied(s)' => Replied(s) \/ s = m
    BY <2>1, <2>2, <1>1, <1>5, ReplySent DEF Placed
  <2>4. \A s \in Requests : InQueue(s)' <=> InQueue(s)
    BY <1>5 DEF InQueue
  <2>5. OnePlace'
    BY <2>2, <2>3, <2>4, <1>1, <1>2 DEF Placed, OnePlace
  <2> QED
    BY <2>3, <2>5, <1>1, <1>3, <1>4, <1>5 DEF Placed, Queues, NotRepeated
<1>6. ASSUME UNCHANGED outgoingQueue,
             requestQueue' = requestQueue \/ requestQueue' = Append(requestQueue, m)
      PROVE  Placed'
  <2>1. RepliesSame
    BY <1>1, <1>6, NothingSent DEF Placed
  <2>2. /\ requestQueue \in Seq(Messages) /\ DOMAIN requestQueue = 1 .. Len(requestQueue)
        /\ Len(requestQueue) \in Nat
    BY DEF Placed, Queues
  <2>3. CASE requestQueue' = requestQueue
    <3>1. \A s \in Requests : InQueue(s)' <=> InQueue(s)
      BY <2>3 DEF InQueue
    <3>2. OnePlace'
      BY <3>1, <2>1, <1>1, <1>2 DEF Placed, OnePlace, RepliesSame
    <3> QED
      BY <3>2, <2>1, <2>3, <1>1, <1>3, <1>4 DEF Placed, Queues, NotRepeated, RepliesSame
  <2>4. CASE requestQueue' = Append(requestQueue, m)
    <3>1. /\ requestQueue' \in Seq(Messages)
          /\ DOMAIN requestQueue' = 1 .. Len(requestQueue) + 1
          /\ \A i \in DOMAIN requestQueue : requestQueue'[i] = requestQueue[i]
          /\ requestQueue'[Len(requestQueue) + 1] = m
      BY <2>2, <2>4, <1>1, AppendProperties
    <3>2. \A s \in Requests : InQueue(s)' => InQueue(s) \/ s = m
      BY <3>1, <2>2 DEF InQueue
    <3>3. m \in Requests =>
            ~InQueue(m) /\ current # m /\ work[m] = "none" /\ ~Replied(m)
      BY <1>2 DEF Placed, OnePlace
    <3>4. \A s \in Requests : (Replied(s)' => Replied(s)) /\ (Open(s)' <=> Open(s))
                              /\ (InScript(s)' => InScript(s) /\ s # m)
      BY <2>1, <1>2 DEF RepliesSame
    <3>5. OnePlace'
      BY <3>2, <3>3, <3>4, <1>1 DEF Placed, OnePlace
    <3>6. ASSUME NEW i \in DOMAIN requestQueue', NEW j \in DOMAIN requestQueue',
                 requestQueue'[i] = requestQueue'[j], requestQueue'[i] \in Requests
          PROVE  i = j
      <4>1. ASSUME m \in Requests, NEW k \in DOMAIN requestQueue
            PROVE  requestQueue[k] # m
        BY <4>1, <3>3 DEF InQueue
      <4>2. \A k, l \in DOMAIN requestQueue :
              requestQueue[k] = requestQueue[l] /\ requestQueue[k] \in Requests => k = l
        BY DEF Placed, NotRepeated
      <4> QED
        BY <4>1, <4>2, <3>1, <3>6, <2>2
    <3>7. NotRepeated'
      BY <3>6, <1>1 DEF Placed, NotRepeated
    <3> QED
      BY <3>1, <3>5, <3>7, <2>1, <1>3, <1>4 DEF Placed, Queues, RepliesSame
  <2> QED
    BY <1>6, <2>3, <2>4
<1>7. \/ \E what \in {"result", "error"} :
             Kind[m] \in RequestKinds /\ send(<<what, m>>) /\ UNCHANGED requestQueue
      \/ /\ UNCHANGED outgoingQueue
         /\ requestQueue' = requestQueue \/ requestQueue' = Append(requestQueue, m)
  BY DEF Read, m, RequestKinds
<1> QED
  BY <1>5, <1>6, <1>7

\* The dispatch loop takes the next message of the queue.
LEMMA DispatchMoves ==
  ASSUME Placed, ServerTypeOK, Dispatch
  PROVE  Placed'
<1>1. /\ requestQueue \in Seq(Messages) /\ DOMAIN requestQueue = 1 .. Len(requestQueue)
      /\ Len(requestQueue) \in Nat /\ requestQueue # <<>>
      /\ current = Nil /\ current' = Head(requestQueue) /\ requestQueue' = Tail(requestQueue)
      /\ pendingClientRequests' = pendingClientRequests \union ({current'} \intersect Requests)
      /\ UNCHANGED <<script, sent, waiting, work, canceled, outgoingQueue, replies>>
  BY DEF Dispatch, Placed, Queues, readVars, writeVars
<1>2. /\ requestQueue' \in Seq(Messages) /\ DOMAIN requestQueue' = 1 .. Len(requestQueue) - 1
      /\ \A i \in DOMAIN requestQueue' : requestQueue'[i] = requestQueue[i + 1]
      /\ current' = requestQueue[1] /\ 1 \in DOMAIN requestQueue /\ current' \in Messages
  BY <1>1, HeadTailProperties
<1>3. RepliesSame
  BY <1>1, NothingSent DEF Placed
<1>4. \A s \in Requests : InScript(s)' <=> InScript(s)
  BY <1>1 DEF InScript
<1>5. \A s \in Requests : InQueue(s)' => InQueue(s) /\ current' # s
  BY <1>1, <1>2 DEF InQueue, Placed, NotRepeated
<1>6. \A s \in Requests : current' = s => InQueue(s)
  BY <1>2 DEF InQueue
<1>7. \A s \in Requests : current # s
  BY <1>1, RequestsAreMessages
<1>8. OnePlace'
  <2>1. \A s \in Requests : IF current' = s THEN work[s] = "none" /\ Open(s)'
                                             ELSE Open(s)' <=> Open(s)
    BY <1>1, <1>6, <1>7 DEF Open, Placed, OnePlace
  <2> QED
    BY <2>1, <1>1, <1>3, <1>4, <1>5, <1>6, <1>7 DEF Placed, OnePlace, RepliesSame
<1>9. NotRepeated'
  BY <1>1, <1>2 DEF Placed, NotRepeated
<1>10. WaitsInInitialized'
  BY <1>1, RequestsAreMessages DEF Placed, WaitsInInitialized
<1> QED
  BY <1>1, <1>2, <1>3, <1>8, <1>9, <1>10 DEF Placed, Queues, RepliesSame

\* The dispatch loop handles what it has taken.
LEMMA HandleMoves ==
  ASSUME Placed, ServerTypeOK, HandleRequest \/ HandleAsync \/ HandleNotification
  PROVE  Placed'
<1> USE RequestsAreMessages
<1>1. /\ UNCHANGED <<script, sent, requestQueue, waiting, replies, pendingClientRequests, canceled>>
      /\ current \in Messages
  BY DEF HandleRequest, HandleAsync, HandleNotification, Handling, readVars, dispatchVars,
         requestVars, writeVars
<1>2. waiting = 0
  <2>1. Kind[current] # "initialized"
    BY DEF HandleRequest, HandleAsync, HandleNotification, Handling, Requests, RequestKinds
  <2> QED
    BY <1>1, <2>1 DEF Placed, WaitsInInitialized
<1>3. WaitsInInitialized'
  BY <1>1, <1>2 DEF WaitsInInitialized
<1>4. ASSUME NEW what \in {"result", "error"}, Handling, Reply(current, what), current' = current
      PROVE  Placed'
  <2>1. PICK r \in Requests : r = current /\ Open(r)
    BY <1>4 DEF Handling, Open
  <2> QED
    BY <1>1, <1>4, <2>1, ReplyMoves
<1>5. CASE HandleRequest
  <2>1. \E what \in {"result", "error"} : Reply(current, what)
    BY <1>5 DEF HandleRequest
  <2> QED
    BY <2>1, <1>4, <1>5 DEF HandleRequest, dispatchVars
<1>6. CASE HandleAsync
  <2>1. CASE Reply(current, "error") /\ UNCHANGED current
    BY <2>1, <1>4, <1>6 DEF HandleAsync
  <2>2. CASE /\ work' = [work EXCEPT ![current] = "running"]
             /\ current' = Nil /\ UNCHANGED outgoingQueue
    <3>1. PICK r \in Requests : r = current /\ work[r] = "none" /\ Open(r)
      BY <1>6 DEF HandleAsync, Handling, Open
    <3>2. RepliesSame
      BY <1>1, <2>2, NothingSent DEF Placed
    <3>3. \A s \in Requests : (InScript(s)' <=> InScript(s)) /\ (InQueue(s)' <=> InQueue(s))
      BY <1>1 DEF InScript, InQueue
    <3>4. \A s \in Requests : current' # s /\ (s # r => current # s)
      BY <2>2, <3>1
    <3>5. work'[r] = "running" /\ \A s \in Requests \ {r} : work'[s] = work[s]
      BY <2>2, <3>1 DEF ServerTypeOK
    <3>6. \A s \in Requests : Open(s)' <=> Open(s)
      BY <3>1, <3>4, <3>5 DEF Open
    <3>7. OnePlace'
      BY <1>1, <3>1, <3>2, <3>3, <3>4, <3>5, <3>6 DEF Placed, OnePlace, RepliesSame
    <3> QED
      BY <3>2, <3>7, <1>1, <1>3 DEF Placed, Queues, NotRepeated, RepliesSame
  <2> QED
    BY <1>6, <2>1, <2>2 DEF HandleAsync
<1>7. CASE HandleNotification
  <2>1. UNCHANGED <<outgoingQueue, replies, work>> /\ current' = Nil
    BY <1>7 DEF HandleNotification, requestVars, writeVars
  <2>2. RepliesSame
    BY <2>1, NothingSent DEF Placed
  <2>3. Queues'
    BY <1>1, <2>1 DEF Placed, Queues
  <2>4. \A s \in Requests : (current' = s <=> current = s) /\ (Open(s)' <=> Open(s))
    BY <1>1, <1>7, <2>1 DEF HandleNotification, Open
  <2> QED
    BY <1>1, <1>3, <2>1, <2>2, <2>3, <2>4, NothingMoves DEF RepliesSame
<1> QED
  BY <1>5, <1>6, <1>7

\* handleInitialized calls the client and goes on.
LEMMA CallMoves ==
  ASSUME Placed, ServerTypeOK, NEW c \in Calls, Call(c) \/ CallEnds(c)
  PROVE  Placed'
<1> USE RequestsAreMessages
<1>1. UNCHANGED <<script, sent, requestQueue, work, pendingClientRequests, canceled, replies>>
  BY DEF Call, CallEnds, readVars, requestVars, writeVars
<1>2. RepliesSame
  <2>1. CASE Call(c)
    BY <2>1, <1>1, CallSent DEF Placed, Call
  <2>2. CASE CallEnds(c)
    BY <2>2, <1>1, NothingSent DEF Placed, CallEnds, writeVars
  <2> QED
    BY <2>1, <2>2
<1>3. current \in Messages /\ Kind[current] = "initialized"
  <2>1. CASE Call(c)
    BY <2>1 DEF Call
  <2>2. CASE CallEnds(c)
    BY <2>2 DEF CallEnds, Calls, Placed, WaitsInInitialized
  <2> QED
    BY <2>1, <2>2
<1>4. current' \in {current, Nil} /\ (waiting' # 0 => current' = current)
  BY DEF Call, CallEnds
<1>5. \A s \in Requests : (current' = s <=> current = s) /\ (Open(s)' <=> Open(s))
  BY <1>1, <1>3, <1>4 DEF Open, Requests, RequestKinds
<1>6. WaitsInInitialized'
  BY <1>3, <1>4 DEF WaitsInInitialized
<1>7. Queues'
  BY <1>1, <1>2 DEF Placed, Queues, RepliesSame
<1> QED
  BY <1>1, <1>2, <1>5, <1>6, <1>7, NothingMoves DEF RepliesSame

\* The goroutine of a request goes on to its reply, or the request's context is done.
LEMMA WorkMoves ==
  ASSUME Placed, ServerTypeOK, NEW r \in Requests, cancelRequest(r) \/ Work(r)
  PROVE  Placed'
<1>1. CASE removeRequest(r)
  BY <1>1, RemoveMoves
<1>2. ASSUME NEW what \in {"result", "error"}, Reply(r, what), work[r] \in {"running", "replying"},
             UNCHANGED <<readVars, dispatchVars, replies, pendingClientRequests, canceled>>
      PROVE  Placed'
  BY <1>2, ReplyMoves DEF Open, readVars, dispatchVars
<1>3. ASSUME UNCHANGED <<readVars, dispatchVars, outgoingQueue, replies>>,
             \A s \in Requests : /\ work'[s] = "none" <=> work[s] = "none"
                                 /\ work'[s] = "answered" <=> work[s] = "answered"
                                 /\ Open(s)' <=> Open(s),
             pendingClientRequests' \subseteq pendingClientRequests,
             pendingClientRequests \union canceled \subseteq pendingClientRequests' \union canceled'
      PROVE  Placed'
  <2>1. UNCHANGED <<script, sent, requestQueue, current, waiting>>
    BY <1>3 DEF readVars, dispatchVars
  <2>2. RepliesSame
    BY <1>3, NothingSent DEF Placed
  <2>3. Queues' /\ WaitsInInitialized'
    BY <1>3, <2>1 DEF Placed, Queues, WaitsInInitialized
  <2> QED
    BY <1>3, <2>1, <2>2, <2>3, NothingMoves DEF RepliesSame
<1>4. CASE cancelRequest(r)
  <2>1. UNCHANGED <<readVars, dispatchVars, outgoingQueue, replies, work, current>>
    BY <1>4 DEF cancelRequest, writeVars, dispatchVars
  <2>2. \A s \in Requests : Open(s)' <=> Open(s)
    BY <2>1 DEF Open
  <2> QED
    BY <1>3, <1>4, <2>1, <2>2 DEF cancelRequest
<1>5. ASSUME NEW new \in BOOLEAN, WorkDone(r, new)
      PROVE  Placed'
  <2>1. CASE Reply(r, "error")
    BY <2>1, <1>2, <1>5 DEF WorkDone
  <2>2. CASE work' = [work EXCEPT ![r] = "replying"] /\ UNCHANGED outgoingQueue
    <3>1. /\ UNCHANGED <<readVars, dispatchVars, replies, pendingClientRequests, canceled, current>>
          /\ work[r] = "running" /\ work'[r] = "replying"
          /\ \A s \in Requests \ {r} : work'[s] = work[s]
      BY <2>2, <1>5 DEF WorkDone, dispatchVars, ServerTypeOK
    <3>2. \A s \in Requests : /\ work'[s] = "none" <=> work[s] = "none"
                              /\ work'[s] = "answered" <=> work[s] = "answered"
                              /\ Open(s)' <=> Open(s)
      BY <3>1 DEF Open
    <3> QED
      BY <2>2, <3>1, <3>2, <1>3
  <2> QED
    BY <1>5, <2>1, <2>2 DEF WorkDone
<1>6. CASE WorkReplies(r) \/ recover(r)
  BY <1>6, <1>2 DEF WorkReplies, recover
<1> QED
  BY <1>1, <1>4, <1>5, <1>6 DEF Work

\* The other steps move no request.
LEMMA OthersMove ==
  ASSUME Placed, UNCHANGED <<script, sent, requestQueue, current, waiting, work,
                             pendingClientRequests, canceled>>,
         Write \/ UNCHANGED <<outgoingQueue, replies>>
  PROVE  Placed'
<1>1. /\ outgoingQueue' \in Seq(Outgoing) /\ replies' \in [Requests -> Nat]
      /\ OneReply' /\ \A s \in Requests : Replied(s)' => Replied(s)
  BY Written, NothingSent DEF Placed, RepliesSame, Queues
<1>2. Queues' /\ WaitsInInitialized'
  BY <1>1 DEF Placed, Queues, WaitsInInitialized
<1>3. \A s \in Requests : Open(s)' <=> Open(s)
  BY DEF Open
<1> QED
  BY <1>1, <1>2, <1>3, NothingMoves

LEMMA PlacedStep ==
  ASSUME Placed, ServerTypeOK, [Next]_vars
  PROVE  Placed'
<1>1. CASE Read
  BY <1>1, ReadMoves
<1>2. CASE Dispatch
  BY <1>2, DispatchMoves
<1>3. CASE HandleRequest \/ HandleAsync \/ HandleNotification
  BY <1>3, HandleMoves
<1>4. CASE \E c \in Calls : Call(c) \/ CallEnds(c)
  BY <1>4, CallMoves
<1>5. CASE \E r \in Requests : cancelRequest(r) \/ Work(r)
  BY <1>5, WorkMoves
<1>6. CASE Write
  BY <1>6, OthersMove DEF Write, readVars, dispatchVars, requestVars
<1>7. CASE ReadEnds \/ DispatchEnds \/ WriteEnds \/ CloseSession
             \/ \E c \in Calls : ReadResponse(c)
  BY <1>7, OthersMove DEF ReadEnds, DispatchEnds, WriteEnds, CloseSession, ReadResponse,
                          readVars, dispatchVars, requestVars, writeVars
<1>8. CASE UNCHANGED vars \/ InstallEnds \/ PublishTask \/ \E t \in DOMAIN tasks : RefreshTask(t)
  BY <1>8, OthersMove DEF vars, InstallEnds, PublishTask, RefreshTask, serverVars, readVars,
                          dispatchVars, requestVars, writeVars
<1> QED
  BY <1>1, <1>2, <1>3, <1>4, <1>5, <1>6, <1>7, <1>8 DEF Next, Loop

------------------------------------------------------------------------------
(* The theorems *)

LEMMA InitIInv == Init => IInv
<1> SUFFICES ASSUME Init PROVE IInv
  OBVIOUS
<1>1. PICK c \in Clients : script = c.script
  BY DEF Init
<1>2. /\ requestQueue = <<>> /\ outgoingQueue = <<>> /\ tasks = <<>> /\ sent = 0
      /\ current = Nil /\ waiting = 0 /\ work = [r \in Requests |-> "none"]
      /\ pendingClientRequests = {} /\ replies = [r \in Requests |-> 0]
  BY DEF Init, TasksInit
<1>3. Queues /\ Shape
  BY <1>1, <1>2, ClientsAssumption DEF Queues, Shape
<1>4. ServerTypeOK
  BY DEF Init, TasksInit, ServerTypeOK
<1>5. RefreshTypeOK
  <2>1. generation = 0 /\ handle = 0 /\ wanted = FALSE
    BY DEF Init, TasksInit
  <2>2. DOMAIN tasks = {}
    BY <1>2
  <2> QED
    BY <1>3, <2>1, <2>2 DEF RefreshTypeOK, Shape
<1>6. \A r \in Requests : Queued(r) = {} /\ ~InQueue(r) /\ ~Open(r) /\ current # r
  BY <1>2, RequestsAreMessages DEF Queued, InQueue, Open
<1>7. OnePlace /\ OneReply
  BY <1>2, <1>6 DEF OnePlace, OneReply, Replied
<1>8. NotRepeated /\ WaitsInInitialized /\ LastWanted
  BY <1>1, <1>2, ClientsAssumption DEF NotRepeated, WaitsInInitialized, LastWanted
<1> QED
  BY <1>3, <1>4, <1>5, <1>7, <1>8, TypeSplits DEF IInv, Placed

LEMMA NextIInv == IInv /\ [Next]_vars => IInv'
<1> SUFFICES ASSUME IInv, [Next]_vars PROVE IInv'
  OBVIOUS
<1>1. ServerTypeOK /\ RefreshTypeOK
  BY TypeSplits DEF IInv
<1>2. ServerTypeOK'
  BY <1>1, ServerTyped DEF IInv
<1>3. RefreshTypeOK' /\ LastWanted'
  BY <1>1, RefreshSteps, RefreshKept DEF IInv
<1>4. Placed'
  BY <1>1, PlacedStep DEF IInv
<1>5. Shape'
  BY <1>3, <1>4 DEF Placed, Shape, RefreshTypeOK
<1>6. Shape' => (TypeOK' <=> ServerTypeOK' /\ RefreshTypeOK')
  BY TypeSplits, PTL
<1> QED
  BY <1>2, <1>3, <1>4, <1>5, <1>6 DEF IInv

\* The inductive invariant holds of every behaviour of the server.
THEOREM Inductive == Spec => []IInv
BY InitIInv, NextIInv, PTL DEF Spec

\* Every request is answered at most once, not before its handler is through with it, can be
\* canceled until then, and is in the table only as long as somebody will remove it: for any
\* client, whose requests differ, and any order of reads, handlers, goroutines,
\* cancellations, panics and writes.
THEOREM RepliesOnce == Spec => []AnsweredOnce
<1>1. ASSUME IInv PROVE AnsweredOnce
  <2> SUFFICES ASSUME NEW r \in Requests
               PROVE  replies[r] + Cardinality(Queued(r)) <= IF Open(r) THEN 0 ELSE 1
    BY <1>1 DEF IInv, AnsweredOnce, Placed, OnePlace
  <2>1. Open(r) => Queued(r) = {} /\ replies[r] = 0
    BY <1>1 DEF IInv, Placed, OnePlace, OneReply, Replied
  <2>2. CASE Queued(r) = {}
    <3>1. Cardinality(Queued(r)) = 0
      BY <2>2, FS_EmptySet
    <3>2. replies[r] \in {0, 1}
      BY <1>1 DEF IInv, Placed, OneReply
    <3> QED
      BY <2>1, <3>1, <3>2
  <2>3. CASE Queued(r) # {}
    <3>1. PICK i \in Queued(r) : Queued(r) = {i}
      BY <1>1, <2>3 DEF IInv, Placed, OneReply
    <3>2. Cardinality(Queued(r)) = 1
      BY <3>1, FS_Singleton
    <3>3. replies[r] = 0
      BY <1>1, <2>3 DEF IInv, Placed, OneReply
    <3> QED
      BY <2>1, <2>3, <3>2, <3>3
  <2> QED
    BY <2>2, <2>3
<1> QED
  BY <1>1, Inductive, PTL

\* No refresh of the diagnostics begins that was canceled or put off, however long its task
\* slept and however often the refresh was scheduled again meanwhile.
THEOREM BeginsOnlyWanted == Spec => RefreshOnlyWanted
<1>1. ASSUME IInv, [Next]_vars
      PROVE  [\A t \in DOMAIN tasks : (tasks[t].at = "due" /\ tasks'[t].at = "sending") =>
                 wanted /\ \A u \in DOMAIN tasks : u > t => tasks[u].at # "waiting"]_vars
  BY <1>1, TypeSplits, RefreshSteps, RefreshBegins DEF IInv
<1> QED
  BY <1>1, Inductive, PTL DEF Spec, RefreshOnlyWanted

------------------------------------------------------------------------------
(* SnapshotEffects, for any number of updates, failures and adopted        *)
(* snapshots                                                               *)

WatchId == (Slots \X Nat) \union {NoId}
Snapshot == [watch : [Slots -> [id : Nat, globs : SUBSET Globs]],
             exts : SUBSET Extensions, program : Nat]
UpdateTask ==
    [at : {"watch", "register", "unregister", "mappers", "publish", "done", "none"},
     todo : SUBSET Slots, slot : Slots \union {NoId}, new : SUBSET Globs,
     failed : BOOLEAN, retry : BOOLEAN, fresh : SUBSET Globs, gone : SUBSET (WatchId \X Globs)]

\* The sequences and records that TypeOK leaves open.
EffectsShape ==
    /\ snaps \in Seq(Snapshot) /\ taskOf \in Seq(UpdateTask)
    /\ Len(snaps) = Len(taskOf) /\ Len(snaps) > 0
    /\ taskOf[1].at = "done"
    /\ \A n \in DOMAIN taskOf : taskOf[n].at = "register" => taskOf[n].slot \in Slots
    /\ entries \in [Globs -> [count : Nat, id : WatchId]]

\* The extensions the server believes to be registered are those of the newest snapshot
\* whose registration went through; a failed call leaves the client with them or with none.
Registered ==
    /\ regExts = snaps[regSnap].exts
    /\ clientExts \in {regExts, {}}
    /\ failures = 0 => clientExts = regExts

\* Unless a call failed, no task has gone past the registration of an older snapshot.
PastIsOlder ==
    failures = 0 => \A n \in DOMAIN taskOf : taskOf[n].at \in {"publish", "done"} => n <= regSnap

EffectsIInv == EffectsTypeOK /\ EffectsShape /\ Registered /\ PastIsOlder

------------------------------------------------------------------------------
\* The snapshots and tasks are sequences of one length.
LEMMA Sequences ==
  ASSUME EffectsShape
  PROVE  /\ Len(snaps) \in Nat \ {0} /\ Current = Len(snaps)
         /\ DOMAIN snaps = 1 .. Len(snaps) /\ DOMAIN taskOf = 1 .. Len(snaps)
         /\ \A n \in DOMAIN snaps : snaps[n] \in Snapshot /\ taskOf[n] \in UpdateTask
BY DEF EffectsShape, Current

LEMMA InitEffectsIInv == EffectsInit => EffectsIInv
<1> SUFFICES ASSUME EffectsInit PROVE EffectsIInv
  OBVIOUS
<1> DEFINE first == [watch |-> [s \in Slots |-> [id |-> 1, globs |-> {}]], exts |-> {},
                     program |-> 1]
<1>1. first \in Snapshot /\ first.exts = {}
      /\ first.watch \in [Slots -> [id : Nat, globs : SUBSET Globs]]
  BY DEF Snapshot
<1>2. Idle("done") \in UpdateTask /\ Idle("done").at = "done"
  BY DEF Idle, UpdateTask
<1>3. snaps = <<first>> /\ taskOf = <<Idle("done")>>
  BY DEF EffectsInit
<1> HIDE DEF first
<1>4. /\ snaps \in Seq(Snapshot) /\ Len(snaps) = 1 /\ snaps[1] = first /\ DOMAIN snaps = {1}
      /\ taskOf \in Seq(UpdateTask) /\ Len(taskOf) = 1 /\ taskOf[1] = Idle("done")
      /\ DOMAIN taskOf = {1}
  BY <1>1, <1>2, <1>3
<1>5. entries \in [Globs -> [count : Nat, id : WatchId]]
      /\ \A g \in Globs : entries[g] = NoEntry /\ entries[g].count = 0
  BY DEF EffectsInit, NoEntry, WatchId
<1>6. EffectsShape
  BY <1>2, <1>4, <1>5 DEF EffectsShape
<1>7. EffectsTypeOK
  <2>1. failures \in 0 .. MaxFailures
    BY BoundsAssumption DEF EffectsInit
  <2> QED
    BY <1>1, <1>2, <1>4, <1>5, <2>1 DEF EffectsInit, EffectsTypeOK
<1>8. Registered /\ PastIsOlder
  BY <1>1, <1>4 DEF EffectsInit, Registered, PastIsOlder
<1> QED
  BY <1>6, <1>7, <1>8 DEF EffectsIInv

\* A new snapshot comes with a task, or with none, and leaves the older ones.
LEMMA NewSnapshotStep ==
  ASSUME EffectsIInv, NEW at \in {"watch", "none"}, NewSnapshot(at),
         UNCHANGED <<watchVars, regVars, published, failures>>
  PROVE  EffectsIInv'
<1>1. PICK slots \in SUBSET Slots, exts \in SUBSET Extensions :
        \E globs \in [slots -> SUBSET Globs], program \in {snaps[Current].program, Current + 1} :
          /\ snaps' = Append(snaps,
               [watch |-> [s \in Slots |-> IF s \in slots THEN Cloned(Watch(Current, s), globs[s])
                                                            ELSE Watch(Current, s)],
                exts |-> exts, program |-> program])
          /\ taskOf' = Append(taskOf, [Idle(at) EXCEPT !.todo = IF at = "watch" THEN Slots ELSE {}])
  BY DEF NewSnapshot
<1>2. PICK globs \in [slots -> SUBSET Globs], program \in {snaps[Current].program, Current + 1} :
          /\ snaps' = Append(snaps,
               [watch |-> [s \in Slots |-> IF s \in slots THEN Cloned(Watch(Current, s), globs[s])
                                                            ELSE Watch(Current, s)],
                exts |-> exts, program |-> program])
          /\ taskOf' = Append(taskOf, [Idle(at) EXCEPT !.todo = IF at = "watch" THEN Slots ELSE {}])
  BY <1>1
<1> DEFINE watch == [s \in Slots |-> IF s \in slots THEN Cloned(Watch(Current, s), globs[s])
                                                     ELSE Watch(Current, s)]
           snap == [watch |-> watch, exts |-> exts, program |-> program]
           task == [Idle(at) EXCEPT !.todo = IF at = "watch" THEN Slots ELSE {}]
<1>3. Current \in DOMAIN snaps /\ snaps[Current] \in Snapshot /\ Current \in Nat
  BY Sequences DEF EffectsIInv
<1>4. watch \in [Slots -> [id : Nat, globs : SUBSET Globs]]
  <2> SUFFICES ASSUME NEW s \in Slots
               PROVE  watch[s] \in [id : Nat, globs : SUBSET Globs]
    OBVIOUS
  <2>1. Watch(Current, s) \in [id : Nat, globs : SUBSET Globs]
    BY <1>3 DEF Watch, Snapshot
  <2>2. s \in slots => Cloned(Watch(Current, s), globs[s]) \in [id : Nat, globs : SUBSET Globs]
    BY <1>3, <2>1 DEF Cloned
  <2> QED
    BY <2>1, <2>2
<1> HIDE DEF watch
<1>5. program \in Nat
  BY <1>3 DEF Snapshot
<1>6. snap \in Snapshot /\ snap.watch = watch
  BY <1>4, <1>5 DEF Snapshot
<1>7. task \in UpdateTask /\ task.at = at
  BY DEF Idle, UpdateTask
<1>8. snaps' = Append(snaps, snap) /\ taskOf' = Append(taskOf, task)
  BY <1>2 DEF watch
<1> HIDE DEF snap, task
<1> DEFINE n == Len(snaps)
<1>9. /\ snaps' \in Seq(Snapshot) /\ taskOf' \in Seq(UpdateTask)
      /\ Len(snaps') = n + 1 /\ Len(taskOf') = n + 1
      /\ DOMAIN snaps' = 1 .. n + 1 /\ DOMAIN taskOf' = 1 .. n + 1
      /\ \A i \in 1 .. n : snaps'[i] = snaps[i] /\ taskOf'[i] = taskOf[i]
      /\ snaps'[n + 1] = snap /\ taskOf'[n + 1] = task
  BY <1>6, <1>7, <1>8, Sequences, AppendProperties DEF EffectsIInv, EffectsShape
<1>10. n \in Nat \ {0} /\ DOMAIN snaps = 1 .. n /\ DOMAIN taskOf = 1 .. n
  BY Sequences DEF EffectsIInv
<1> HIDE DEF n
<1>11. ASSUME NEW i \in 1 .. n + 1
       PROVE  i \in 1 .. n \/ i = n + 1
  BY <1>10
<1>12. EffectsShape'
  <2>1. \A i \in DOMAIN taskOf' : taskOf'[i].at = "register" => taskOf'[i].slot \in Slots
    BY <1>7, <1>9, <1>10, <1>11 DEF EffectsIInv, EffectsShape
  <2>2. taskOf'[1].at = "done"
    BY <1>9, <1>10 DEF EffectsIInv, EffectsShape
  <2> QED
    BY <1>9, <1>10, <2>1, <2>2 DEF EffectsIInv, EffectsShape, watchVars
<1>13. EffectsTypeOK'
  <2>1. \A i \in DOMAIN snaps' : snaps'[i].watch \in [Slots -> [id : Nat, globs : SUBSET Globs]]
    BY <1>4, <1>6, <1>9, <1>10, <1>11 DEF EffectsIInv, EffectsTypeOK
  <2>2. \A i \in DOMAIN taskOf' : taskOf'[i].at \in
            {"watch", "register", "unregister", "mappers", "publish", "done", "none"}
    BY <1>7, <1>9, <1>10, <1>11 DEF EffectsIInv, EffectsTypeOK
  <2>3. DOMAIN taskOf' = DOMAIN snaps' /\ regSnap' \in DOMAIN snaps' /\ published' \in DOMAIN snaps'
    BY <1>9, <1>10 DEF EffectsIInv, EffectsTypeOK, regVars
  <2> QED
    BY <2>1, <2>2, <2>3 DEF EffectsIInv, EffectsTypeOK, watchVars, regVars
<1>14. Registered'
  BY <1>9, <1>10 DEF EffectsIInv, Registered, EffectsTypeOK, regVars
<1>15. PastIsOlder'
  BY <1>7, <1>9, <1>10, <1>11 DEF EffectsIInv, PastIsOlder, regVars
<1> QED
  BY <1>12, <1>13, <1>14, <1>15 DEF EffectsIInv

------------------------------------------------------------------------------
(* The steps of a task *)

Counts(e) == /\ e \in [Globs -> [count : Nat, id : WatchId]]
             /\ \A g \in Globs : e[g].count = 0 <=> e[g] = NoEntry

\* What a step of a task does to the tasks.
LEMMA TaskSet ==
  ASSUME EffectsIInv, NEW n \in Running, NEW t \in UpdateTask, taskOf' = [taskOf EXCEPT ![n] = t]
  PROVE  /\ n \in DOMAIN taskOf /\ n - 1 \in DOMAIN snaps /\ taskOf[n] \in UpdateTask
         /\ taskOf' \in Seq(UpdateTask) /\ Len(taskOf') = Len(taskOf)
         /\ DOMAIN taskOf' = DOMAIN taskOf
         /\ taskOf'[n] = t /\ \A i \in DOMAIN taskOf : i # n => taskOf'[i] = taskOf[i]
         /\ n # 1
<1>1. n \in DOMAIN taskOf /\ n # 1
  BY DEF Running, EffectsIInv, EffectsShape
<1>2. taskOf' \in Seq(UpdateTask) /\ Len(taskOf') = Len(taskOf)
  BY <1>1, ExceptSeq DEF EffectsIInv, EffectsShape
<1> QED
  BY <1>1, <1>2, Sequences DEF EffectsIInv, EffectsShape

\* A step of updateWatches.
LEMMA WatchStep ==
  ASSUME EffectsIInv, NEW n \in Running, NEW t \in UpdateTask, taskOf' = [taskOf EXCEPT ![n] = t],
         t.at \in {"watch", "register", "unregister", "mappers"},
         t.at = "register" => t.slot \in Slots,
         UNCHANGED <<snaps, regVars, published>>,
         failures' = failures \/ (failures < MaxFailures /\ failures' = failures + 1),
         Counts(entries'), pending' \subseteq Slots \X Nat,
         registered' \subseteq (Slots \X Nat) \X Globs
  PROVE  EffectsIInv'
<1>1. /\ n \in DOMAIN taskOf /\ taskOf' \in Seq(UpdateTask) /\ Len(taskOf') = Len(taskOf)
      /\ DOMAIN taskOf' = DOMAIN taskOf /\ taskOf'[n] = t /\ n # 1
      /\ \A i \in DOMAIN taskOf : i # n => taskOf'[i] = taskOf[i]
  BY TaskSet
<1>2. EffectsShape'
  <2>1. taskOf'[1].at = "done"
    BY <1>1, Sequences DEF EffectsIInv, EffectsShape
  <2> QED
    BY <1>1, <2>1 DEF EffectsIInv, EffectsShape, Counts
<1>3. failures' \in 0 .. MaxFailures /\ (failures' = 0 => failures = 0)
  BY BoundsAssumption DEF EffectsIInv, EffectsTypeOK
<1>4. EffectsTypeOK'
  <2>1. \A i \in DOMAIN taskOf' : taskOf'[i].at \in
            {"watch", "register", "unregister", "mappers", "publish", "done", "none"}
    BY <1>1 DEF EffectsIInv, EffectsTypeOK
  <2>2. \A g \in Globs :
          /\ entries'[g].count \in Nat
          /\ entries'[g].count = 0 <=> entries'[g] = NoEntry
    BY DEF Counts
  <2> QED
    BY <1>1, <1>3, <2>1, <2>2 DEF EffectsIInv, EffectsTypeOK, regVars
<1>5. Registered'
  BY <1>3 DEF EffectsIInv, Registered, regVars
<1>6. PastIsOlder'
  BY <1>1, <1>3 DEF EffectsIInv, PastIsOlder, regVars
<1> QED
  BY <1>2, <1>4, <1>5, <1>6 DEF EffectsIInv

LEMMA CountsHold ==
  ASSUME EffectsIInv
  PROVE  Counts(entries)
BY DEF EffectsIInv, EffectsShape, EffectsTypeOK, Counts

\* watchRegistry keeps an entry exactly for what is counted.
LEMMA AcquiredCounts ==
  ASSUME NEW e, Counts(e), NEW id \in Slots \X Nat, NEW globs
  PROVE  Counts(Acquired(e, id, globs))
<1> SUFFICES ASSUME NEW g \in Globs
             PROVE  /\ Acquired(e, id, globs)[g] \in [count : Nat, id : WatchId]
                    /\ Acquired(e, id, globs)[g].count = 0 <=> Acquired(e, id, globs)[g] = NoEntry
  BY DEF Counts, Acquired
<1>1. e[g] \in [count : Nat, id : WatchId] /\ (e[g].count = 0 <=> e[g] = NoEntry)
  BY DEF Counts
<1>2. CASE g \notin globs
  BY <1>1, <1>2 DEF Acquired
<1>3. CASE g \in globs
  <2> DEFINE new == [count |-> e[g].count + 1, id |-> IF e[g].count = 0 THEN id ELSE e[g].id]
  <2>1. Acquired(e, id, globs)[g] = new
    BY <1>3 DEF Acquired
  <2>2. new \in [count : Nat, id : WatchId] /\ new.count # 0
    BY <1>1 DEF WatchId
  <2>3. NoEntry.count = 0
    BY DEF NoEntry
  <2> HIDE DEF new
  <2> QED
    BY <2>1, <2>2, <2>3
<1> QED
  BY <1>2, <1>3

LEMMA ReleasedCounts ==
  ASSUME NEW e, Counts(e), NEW globs
  PROVE  Counts(Released(e, globs))
<1> SUFFICES ASSUME NEW g \in Globs
             PROVE  /\ Released(e, globs)[g] \in [count : Nat, id : WatchId]
                    /\ Released(e, globs)[g].count = 0 <=> Released(e, globs)[g] = NoEntry
  BY DEF Counts, Released
<1>1. e[g] \in [count : Nat, id : WatchId] /\ (e[g].count = 0 <=> e[g] = NoEntry)
  BY DEF Counts
<1>2. NoEntry \in [count : Nat, id : WatchId] /\ NoEntry.count = 0
  BY DEF NoEntry, WatchId
<1>3. CASE g \notin globs
  BY <1>1, <1>3 DEF Released
<1>4. CASE g \in globs /\ e[g].count <= 1
  BY <1>2, <1>4 DEF Released
<1>5. CASE g \in globs /\ ~(e[g].count <= 1)
  <2> DEFINE new == [e[g] EXCEPT !.count = @ - 1]
  <2>1. Released(e, globs)[g] = new
    BY <1>5 DEF Released
  <2>2. new \in [count : Nat, id : WatchId] /\ new.count # 0
    BY <1>1, <1>5
  <2> HIDE DEF new
  <2> QED
    BY <1>2, <2>1, <2>2
<1> QED
  BY <1>3, <1>4, <1>5

LEMMA TaskOf ==
  ASSUME EffectsIInv, NEW n \in Running
  PROVE  /\ taskOf[n] \in UpdateTask /\ n \in DOMAIN snaps /\ n - 1 \in DOMAIN snaps
         /\ \A s \in Slots : /\ ID(n, s) \in Slots \X Nat
                             /\ Watch(n, s).globs \subseteq Globs
                             /\ Watch(n - 1, s).globs \subseteq Globs
<1>1. taskOf[n] \in UpdateTask /\ n \in DOMAIN snaps /\ n - 1 \in DOMAIN snaps
  BY Sequences DEF Running, EffectsIInv, EffectsShape
<1>2. ASSUME NEW s \in Slots, NEW i \in DOMAIN snaps
      PROVE  Watch(i, s) \in [id : Nat, globs : SUBSET Globs]
  BY DEF Watch, EffectsIInv, EffectsTypeOK
<1> QED
  BY <1>1, <1>2 DEF ID

LEMMA CompareStep ==
  ASSUME EffectsIInv, NEW n \in Running, NEW s \in Slots, Compare(n, s)
  PROVE  EffectsIInv'
<1> DEFINE changed == ID(n - 1, s) # ID(n, s)
           new == {g \in Watch(n, s).globs : entries[g].count = 0}
           t1 == [taskOf[n] EXCEPT !.at = "register", !.slot = s, !.new = new, !.fresh = new,
                                  !.failed = FALSE, !.retry = ~changed, !.todo = @ \ {s}]
           t2 == [taskOf[n] EXCEPT !.todo = @ \ {s}]
<1>1. /\ UNCHANGED <<snaps, pending, registered, regVars, published, failures>>
      /\ pending \subseteq Slots \X Nat /\ registered \subseteq (Slots \X Nat) \X Globs
      /\ taskOf[n].at = "watch"
  BY DEF Compare, EffectsIInv, EffectsTypeOK
<1>4. /\ UNCHANGED <<snaps, regVars, published, failures>>
      /\ pending' \subseteq Slots \X Nat /\ registered' \subseteq (Slots \X Nat) \X Globs
  BY <1>1
<1>2. CASE entries' = Acquired(entries, ID(n, s), Watch(n, s).globs)
           /\ taskOf' = [taskOf EXCEPT ![n] = t1]
  <2>1. new \subseteq Globs /\ changed \in BOOLEAN
    BY TaskOf
  <2>2. Counts(entries')
    BY <1>2, TaskOf, CountsHold, AcquiredCounts
  <2> HIDE DEF new, changed
  <2>3. t1 \in UpdateTask /\ t1.at = "register" /\ t1.slot = s
    BY <2>1, TaskOf, ZenonT(60) DEF UpdateTask
  <2> HIDE DEF t1
  <2>4. taskOf' = [taskOf EXCEPT ![n] = t1]
    BY <1>2
  <2> QED
    BY <1>4, <2>2, <2>3, <2>4, WatchStep
<1>3. CASE entries' = entries /\ taskOf' = [taskOf EXCEPT ![n] = t2]
  <2>1. t2 \in UpdateTask /\ t2.at = "watch"
    BY <1>1, TaskOf DEF UpdateTask
  <2>2. Counts(entries')
    BY <1>3, CountsHold
  <2> HIDE DEF t2
  <2> QED
    BY <1>1, <1>3, <2>1, <2>2, WatchStep
<1> QED
  BY <1>2, <1>3 DEF Compare

LEMMA WatchFilesStep ==
  ASSUME EffectsIInv, NEW n \in Running, NEW g \in Globs, WatchFiles(n, g)
  PROVE  EffectsIInv'
<1> DEFINE t1 == [taskOf[n] EXCEPT !.new = @ \ {g}]
           t2 == [taskOf[n] EXCEPT !.new = @ \ {g}, !.failed = TRUE]
<1>1. /\ UNCHANGED <<snaps, entries, pending, regVars, published>>
      /\ pending \subseteq Slots \X Nat /\ registered \subseteq (Slots \X Nat) \X Globs
      /\ taskOf[n].at = "register"
  BY DEF WatchFiles, EffectsIInv, EffectsTypeOK
<1>2. taskOf[n].slot \in Slots /\ n \in DOMAIN taskOf
  BY <1>1, Sequences DEF EffectsIInv, EffectsShape, Running
<1>3. registered' \in {registered, registered \union {<<ID(n, taskOf[n].slot), g>>}}
  BY DEF WatchFiles
<1>4. registered' \subseteq (Slots \X Nat) \X Globs /\ Counts(entries')
  BY <1>1, <1>2, <1>3, TaskOf, CountsHold
<1>5. t1 \in UpdateTask /\ t2 \in UpdateTask
  <2>1. taskOf[n] \in UpdateTask
    BY TaskOf
  <2>2. t1 \in UpdateTask
    BY <2>1 DEF UpdateTask
  <2>3. t2 \in UpdateTask
    BY <2>1 DEF UpdateTask
  <2> QED
    BY <2>2, <2>3
<1>6. t1.at = "register" /\ t1.slot \in Slots /\ t2.at = "register" /\ t2.slot \in Slots
  <2>1. taskOf[n] \in UpdateTask
    BY TaskOf
  <2> QED
    BY <1>1, <1>2, <2>1 DEF UpdateTask
<1>7. \E t \in {t1, t2} : taskOf' = [taskOf EXCEPT ![n] = t]
  BY <1>2 DEF WatchFiles
<1>8. failures' = failures \/ (failures < MaxFailures /\ failures' = failures + 1)
  BY DEF WatchFiles
<1> HIDE DEF t1, t2
<1> QED
  BY <1>1, <1>4, <1>5, <1>7, <1>8, <1>6, WatchStep

LEMMA SettleStep ==
  ASSUME EffectsIInv, NEW n \in Running, Settle(n)
  PROVE  EffectsIInv'
<1> DEFINE slot == taskOf[n].slot
           old == IF taskOf[n].retry THEN {} ELSE Watch(n - 1, slot).globs
           kept == IF taskOf[n].failed THEN Released(entries, taskOf[n].fresh) ELSE entries
           gone == {<<kept[g].id, g>> : g \in {h \in old : kept[h].count = 1}}
           t == [taskOf[n] EXCEPT !.at = "unregister", !.gone = gone]
<1>1. /\ UNCHANGED <<snaps, registered, regVars, published, failures>>
      /\ pending \subseteq Slots \X Nat /\ registered \subseteq (Slots \X Nat) \X Globs
      /\ taskOf[n].at = "register" /\ entries' = Released(kept, old)
      /\ taskOf' = [taskOf EXCEPT ![n] = t]
      /\ pending' \in {pending, pending \union {ID(n, slot)}, pending \ {ID(n, slot)}}
  BY DEF Settle, EffectsIInv, EffectsTypeOK
<1>2. slot \in Slots /\ n \in DOMAIN taskOf
  BY <1>1, Sequences DEF EffectsIInv, EffectsShape, Running
<1>3. pending' \subseteq Slots \X Nat
  BY <1>1, <1>2, TaskOf
<1>4. Counts(kept)
  BY CountsHold, ReleasedCounts
<1>5. old \subseteq Globs
  BY <1>2, TaskOf
<1> HIDE DEF kept, old, slot
<1>6. Counts(entries')
  BY <1>1, <1>4, ReleasedCounts
<1>7. gone \subseteq WatchId \X Globs
  BY <1>4, <1>5 DEF Counts
<1> HIDE DEF gone
<1>8. t \in UpdateTask /\ t.at = "unregister"
  BY <1>7, TaskOf, ZenonT(60) DEF UpdateTask
<1> HIDE DEF t
<1>9. /\ UNCHANGED <<snaps, regVars, published, failures>> /\ taskOf' = [taskOf EXCEPT ![n] = t]
      /\ registered' \subseteq (Slots \X Nat) \X Globs
  BY <1>1
<1> QED
  BY <1>3, <1>6, <1>8, <1>9, WatchStep

LEMMA UnwatchStep ==
  ASSUME EffectsIInv, NEW n \in Running,
         NextSlot(n) \/ \E w \in taskOf[n].gone : UnwatchFiles(n, w)
  PROVE  EffectsIInv'
<1>1. /\ UNCHANGED <<snaps, entries, pending, regVars, published, failures>>
      /\ pending \subseteq Slots \X Nat /\ registered \subseteq (Slots \X Nat) \X Globs
      /\ registered' \subseteq registered
  BY DEF NextSlot, UnwatchFiles, watchVars, EffectsIInv, EffectsTypeOK
<1>2. Counts(entries') /\ n \in DOMAIN taskOf /\ taskOf[n] \in UpdateTask
  BY <1>1, TaskOf, CountsHold DEF Running
<1>3. \E t \in UpdateTask : /\ taskOf' = [taskOf EXCEPT ![n] = t]
                      /\ t.at \in {"watch", "unregister", "mappers"}
  <2>1. CASE NextSlot(n)
    <3>1. [taskOf[n] EXCEPT !.at = "watch"] \in UpdateTask /\ Idle("mappers") \in UpdateTask
          /\ [taskOf[n] EXCEPT !.at = "watch"].at = "watch" /\ Idle("mappers").at = "mappers"
      BY <1>2 DEF UpdateTask, Idle
    <3>2. taskOf' = [taskOf EXCEPT ![n] = [taskOf[n] EXCEPT !.at = "watch"]]
          \/ taskOf' = [taskOf EXCEPT ![n] = Idle("mappers")]
      BY <2>1 DEF NextSlot
    <3> QED
      BY <3>1, <3>2
  <2>2. ASSUME NEW w \in taskOf[n].gone, UnwatchFiles(n, w)
        PROVE  \E t \in UpdateTask : /\ taskOf' = [taskOf EXCEPT ![n] = t]
                               /\ t.at \in {"watch", "unregister", "mappers"}
    <3> DEFINE t == [taskOf[n] EXCEPT !.gone = @ \ {w}]
    <3>1. t \in UpdateTask /\ t.at = "unregister"
      BY <1>2, <2>2 DEF UnwatchFiles, UpdateTask
    <3>2. taskOf' = [taskOf EXCEPT ![n] = t]
      BY <2>2 DEF UnwatchFiles
    <3> HIDE DEF t
    <3> QED
      BY <3>1, <3>2
  <2> QED
    BY <2>1, <2>2
<1>4. PICK t \in UpdateTask :
        taskOf' = [taskOf EXCEPT ![n] = t] /\ t.at \in {"watch", "unregister", "mappers"}
  BY <1>3
<1> QED
  BY <1>1, <1>2, <1>4, WatchStep

\* The registration of the content mappers and the publishing of the diagnostics.
LEMMA LastSteps ==
  ASSUME EffectsIInv, NEW n \in Running,
         updateContentMapperRegistrations(n) \/ publishProgramDiagnostics(n)
  PROVE  EffectsIInv'
<1>1. UNCHANGED <<snaps, watchVars>> /\ n \in DOMAIN snaps /\ n \in DOMAIN taskOf
      /\ taskOf[n] \in UpdateTask /\ n \in Nat /\ regSnap \in Nat
  BY TaskOf, Sequences DEF updateContentMapperRegistrations, publishProgramDiagnostics, Running,
                           EffectsIInv, EffectsTypeOK
<1>2. PICK at \in {"publish", "done"} : taskOf' = [taskOf EXCEPT ![n].at = at]
  BY DEF updateContentMapperRegistrations, publishProgramDiagnostics
<1> DEFINE t == [taskOf[n] EXCEPT !.at = at]
<1>3. t \in UpdateTask /\ t.at = at
  BY <1>1 DEF UpdateTask
<1>4. taskOf' = [taskOf EXCEPT ![n] = t]
  BY <1>2
<1> HIDE DEF t
<1>5. /\ taskOf' \in Seq(UpdateTask) /\ Len(taskOf') = Len(taskOf)
      /\ DOMAIN taskOf' = DOMAIN taskOf /\ taskOf'[n] = t /\ n # 1
      /\ \A i \in DOMAIN taskOf : i # n => taskOf'[i] = taskOf[i]
  BY <1>3, <1>4, TaskSet
<1>6. EffectsShape'
  <2>1. taskOf'[1].at = "done"
    BY <1>5, Sequences DEF EffectsIInv, EffectsShape
  <2> QED
    BY <1>1, <1>3, <1>5, <2>1 DEF EffectsIInv, EffectsShape, watchVars
<1>7. \A i \in DOMAIN taskOf' : taskOf'[i].at \in
          {"watch", "register", "unregister", "mappers", "publish", "done", "none"}
  BY <1>3, <1>5 DEF EffectsIInv, EffectsTypeOK
<1>8. snaps[n].exts \subseteq Extensions
  BY <1>1, Sequences DEF EffectsIInv, Snapshot
<1>9. CASE updateContentMapperRegistrations(n)
  <2>1. failures' \in 0 .. MaxFailures /\ (failures' = 0 => failures' = failures)
    BY <1>9, BoundsAssumption DEF updateContentMapperRegistrations, EffectsIInv, EffectsTypeOK
  <2>2. /\ regSnap' \in {regSnap, n} /\ regExts' \subseteq Extensions
        /\ clientExts' \subseteq Extensions /\ published' = published
    BY <1>8, <1>9 DEF updateContentMapperRegistrations, regVars, EffectsIInv, EffectsTypeOK
  <2>3. EffectsTypeOK'
    BY <1>1, <1>5, <1>7, <2>1, <2>2 DEF EffectsIInv, EffectsTypeOK, watchVars
  <2>4. Registered'
    BY <1>1, <1>9, <2>1
    DEF updateContentMapperRegistrations, regVars, EffectsIInv, Registered, EffectsTypeOK
  <2>5. failures' = failures => n <= regSnap' /\ regSnap <= regSnap'
    BY <1>1, <1>9 DEF updateContentMapperRegistrations, Newer, regVars, EffectsIInv, EffectsTypeOK
  <2>6. PastIsOlder'
    <3> SUFFICES ASSUME failures' = 0, NEW i \in DOMAIN taskOf',
                        taskOf'[i].at \in {"publish", "done"}
                 PROVE  i <= regSnap'
      BY DEF PastIsOlder
    <3>1. failures' = failures /\ i \in Nat /\ regSnap' \in Nat
      BY <1>1, <1>5, <2>1, <2>2, Sequences DEF EffectsIInv
    <3>2. CASE i = n
      BY <2>5, <3>1, <3>2
    <3>3. CASE i # n
      <4>1. i <= regSnap
        BY <1>5, <3>1, <3>3 DEF EffectsIInv, PastIsOlder
      <4> QED
        BY <1>1, <2>5, <3>1, <4>1
    <3> QED
      BY <3>2, <3>3
  <2> QED
    BY <1>6, <2>3, <2>4, <2>6 DEF EffectsIInv
<1>10. CASE publishProgramDiagnostics(n)
  <2>1. UNCHANGED <<regVars, failures>> /\ published' \in {published, n} /\ taskOf[n].at = "publish"
    BY <1>10 DEF publishProgramDiagnostics
  <2>2. EffectsTypeOK'
    BY <1>1, <1>5, <1>7, <2>1 DEF EffectsIInv, EffectsTypeOK, watchVars, regVars
  <2>3. Registered' /\ PastIsOlder'
    BY <1>1, <1>5, <2>1 DEF EffectsIInv, Registered, PastIsOlder, regVars
  <2> QED
    BY <1>6, <2>2, <2>3 DEF EffectsIInv
<1> QED
  BY <1>9, <1>10

------------------------------------------------------------------------------
(* The theorems *)

LEMMA NextEffectsIInv == EffectsIInv /\ [EffectsNext]_effectsVars => EffectsIInv'
<1> SUFFICES ASSUME EffectsIInv, [EffectsNext]_effectsVars PROVE EffectsIInv'
  OBVIOUS
<1>1. CASE UNCHANGED effectsVars
  BY <1>1 DEF effectsVars, watchVars, regVars, EffectsIInv, EffectsTypeOK, EffectsShape,
     Registered, PastIsOlder
<1>2. CASE updateSnapshot \/ adoptSnapshotChange
  BY <1>2, NewSnapshotStep DEF updateSnapshot, adoptSnapshotChange
<1>3. ASSUME NEW n \in Running, Step(n)
      PROVE  EffectsIInv'
  BY <1>3, CompareStep, WatchFilesStep, SettleStep, UnwatchStep, LastSteps DEF Step
<1> QED
  BY <1>1, <1>2, <1>3 DEF EffectsNext

\* The inductive invariant holds of every behaviour.
THEOREM EffectsInductive == EffectsSpec => []EffectsIInv
BY InitEffectsIInv, NextEffectsIInv, PTL DEF EffectsSpec

\* However the background tasks overtake each other, the client never synchronises the
\* extensions of an overtaken snapshot, and in the end those of the newest one, unless a
\* call failed or the newest snapshot came without a task.
THEOREM NewestExtensions == EffectsSpec => []ExtensionsNewest
<1>1. ASSUME EffectsIInv PROVE ExtensionsNewest
  <2>1. EffectsTypeOK /\ clientExts \in {regExts, {}}
    BY <1>1 DEF EffectsIInv, Registered
  <2>2. ASSUME Quiet, failures = 0, Current \notin Adopted
        PROVE  clientExts = snaps[Current].exts
    <3>1. Current \in DOMAIN taskOf /\ Current \in Nat /\ DOMAIN snaps = 1 .. Current
      BY <1>1, Sequences DEF EffectsIInv
    <3>2. taskOf[Current].at = "done"
      BY <2>2, <3>1 DEF Quiet, Running, Adopted
    <3>3. regSnap = Current
      <4>1. Current <= regSnap
        BY <1>1, <2>2, <3>1, <3>2 DEF EffectsIInv, PastIsOlder
      <4>2. regSnap \in 1 .. Current
        BY <1>1, <3>1 DEF EffectsIInv, EffectsTypeOK
      <4> QED
        BY <3>1, <4>1, <4>2
    <3> QED
      BY <1>1, <2>2, <3>3 DEF EffectsIInv, Registered
  <2> QED
    BY <2>1, <2>2 DEF ExtensionsNewest
<1> QED
  BY <1>1, EffectsInductive, PTL
=============================================================================
