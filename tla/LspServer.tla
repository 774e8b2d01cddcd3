------------------------------ MODULE LspServer ------------------------------
(***************************************************************************)
(* The message loops of the language server (internal/lsp/server.go,       *)
(* dynamic_queue.go): the read loop, which queues what the client sends,   *)
(* handles cancellations at once and hands responses to waiting calls; the *)
(* dispatch loop, which runs the synchronous part of every handler in      *)
(* order and starts a goroutine for the rest; and the write loop.  The     *)
(* session's background tasks send to the client too (SessionTasks).       *)
(*                                                                         *)
(* The client sends the messages of a script, answers the server's calls   *)
(* when it likes and may cancel a request or go away at any time.          *)
(* Messages that nobody answers are not followed through the queue.        *)
(***************************************************************************)
EXTENDS SessionTasks, FiniteSets

CONSTANTS
    Messages,     \* what the client may send
    Kind,         \* message |-> its kind
    Clients       \* what a client sends, in order, and bounds on what happens meanwhile: type
                  \* acquisitions that ask for a refresh, and results that cannot be marshalled

RequestKinds == {"initialize", "sync", "async", "shutdown", "unknown", "invalid"}
Requests == {m \in Messages : Kind[m] \in RequestKinds}

ASSUME KindAssumption ==
    Kind \in [Messages -> RequestKinds \union {"initialized", "edit", "mapped", "exit"}]

Nil == "nil"

\* The messages of a client's script are messages, and no two of its requests are the same
\* one (a request has an id of its own).
ASSUME ClientsAssumption ==
    /\ Nil \notin Messages
    /\ \A c \in Clients :
         /\ c.script \in Seq(Messages) /\ c.installs \in Nat /\ c.unmarshalable \in Nat
         /\ \A i, j \in DOMAIN c.script :
              c.script[i] = c.script[j] /\ c.script[i] \in Requests => i = j

\* The calls of handleInitialized: for the configuration (of a client that has one) and to
\* register for its changes.
Calls == 1 .. 2

VARIABLES
    script,         \* what the client sends
    sent,           \* how much of it the server has read
    initializeParams,
    session,        \* "none", "open", "closing" or "closed"
    requestQueue,
    outgoingQueue,  \* <<"result" or "error", request>> and <<"call", c>>
    current,        \* the message in the dispatch loop's hands
    waiting,        \* the call that its handler waits for, 0 if none
    work,           \* request |-> "none", how far its goroutine is, or "answered", "ended"
    pendingClientRequests,
    canceled,       \* requests whose context is done
    calls,          \* call |-> its state: pendingServerRequests and the channel
    replies,        \* request |-> replies written
    exiting,        \* lspExit was called
    over,           \* the loops that have returned
    installs,       \* type acquisitions that have yet to end
    unmarshalable   \* results that have yet to turn out not to be marshallable

readVars == <<script, sent, initializeParams>>
dispatchVars == <<requestQueue, current, waiting>>
requestVars == <<work, pendingClientRequests, canceled>>
writeVars == <<outgoingQueue, replies, unmarshalable>>
endVars == <<exiting, done, over>>
serverVars == <<readVars, dispatchVars, requestVars, writeVars, endVars, session, calls>>
vars == <<serverVars, installs, taskVars>>

Init ==
    /\ TasksInit
    /\ \E c \in Clients :
         script = c.script /\ installs = c.installs /\ unmarshalable = c.unmarshalable
    /\ sent = 0 /\ initializeParams = FALSE /\ session = "none"
    /\ requestQueue = <<>> /\ outgoingQueue = <<>>
    /\ current = Nil /\ waiting = 0
    /\ work = [r \in Requests |-> "none"]
    /\ pendingClientRequests = {} /\ canceled = {}
    /\ calls = [c \in Calls |-> "none"]
    /\ replies = [r \in Requests |-> 0]
    /\ exiting = FALSE /\ over = {}

\* send: nothing is queued once the server's context is done.
send(msg) == outgoingQueue' = IF done THEN outgoingQueue ELSE Append(outgoingQueue, msg)

------------------------------------------------------------------------------
(* readLoop *)

\* One message of the script.  initialize is handled here, before it nothing else is.
Read ==
    LET m == script[sent + 1] IN
    /\ "read" \notin over /\ sent < Len(script)
    /\ sent' = sent + 1
    /\ \/ /\ Kind[m] = "invalid"
          /\ send(<<"error", m>>)
          /\ UNCHANGED <<initializeParams, requestQueue, over>>
       \/ /\ Kind[m] \in RequestKinds \ {"invalid"} /\ ~initializeParams
          /\ send(<<IF Kind[m] = "initialize" THEN "result" ELSE "error", m>>)
          /\ initializeParams' = (Kind[m] = "initialize")
          /\ UNCHANGED <<requestQueue, over>>
       \/ /\ Kind[m] \notin RequestKinds \/ (initializeParams /\ Kind[m] # "invalid")
          /\ requestQueue' = IF done THEN requestQueue ELSE Append(requestQueue, m)
          /\ over' = IF done THEN over \union {"read"} ELSE over
          /\ UNCHANGED <<initializeParams, outgoingQueue>>
    /\ UNCHANGED <<script, session, current, waiting, requestVars, calls, replies,
                   unmarshalable, exiting, done, installs, taskVars>>

\* cancelRequest: a request that is not dispatched yet, or is finished, is not there.
cancelRequest(r) ==
    /\ "read" \notin over /\ r \in pendingClientRequests
    /\ canceled' = canceled \union {r}
    /\ pendingClientRequests' = pendingClientRequests \ {r}
    /\ UNCHANGED <<readVars, session, dispatchVars, work, calls, writeVars, endVars, installs,
                   taskVars>>

\* The client's response to a call: it is handed over if somebody waits for it.
ReadResponse(c) ==
    /\ "read" \notin over /\ calls[c] \in {"asked", "gone"}
    /\ calls' = [calls EXCEPT ![c] = IF @ = "asked" THEN "answered" ELSE "ignored"]
    /\ UNCHANGED <<readVars, session, dispatchVars, requestVars, writeVars, endVars, installs,
                   taskVars>>

\* The client goes away, or the loop finds the context done.
ReadEnds ==
    /\ "read" \notin over
    /\ over' = over \union {"read"} /\ done' = TRUE
    /\ UNCHANGED <<readVars, session, dispatchVars, requestVars, calls, writeVars, exiting,
                   installs, taskVars>>

------------------------------------------------------------------------------
(* dispatchLoop *)

\* The next request: from here on it can be canceled.
Dispatch ==
    /\ "dispatch" \notin over /\ current = Nil /\ ~exiting /\ ~done /\ requestQueue # <<>>
    /\ current' = Head(requestQueue) /\ requestQueue' = Tail(requestQueue)
    /\ pendingClientRequests' = pendingClientRequests \union ({current'} \intersect Requests)
    /\ UNCHANGED <<readVars, session, waiting, work, canceled, calls, writeVars, endVars,
                   installs, taskVars>>

\* The contexts of the requests come from the dispatch loop's.
IsCanceled(r) == r \in canceled \/ exiting \/ done

\* handleError or sendResult: the request stays where it can be canceled until removeRequest.
Reply(r, what) ==
    /\ send(<<what, r>>)
    /\ work' = [work EXCEPT ![r] = "answered"]

\* removeRequest, called by the request's goroutine or, if it has none, by the dispatch
\* loop, which then goes on.
removeRequest(r) ==
    /\ work[r] = "answered"
    /\ work' = [work EXCEPT ![r] = "ended"]
    /\ pendingClientRequests' = pendingClientRequests \ {r}
    /\ current' = IF current = r THEN Nil ELSE current
    /\ UNCHANGED <<readVars, session, requestQueue, waiting, canceled, calls, writeVars,
                   endVars, installs, taskVars>>

\* The dispatch loop has a request in its hands that was not answered.
Handling == current \in Requests /\ work[current] = "none"

\* handleShutdown, Session.Close: the pending work is canceled, and then the queue is closed.
CloseSession ==
    /\ Handling /\ Kind[current] = "shutdown" /\ session \in {"open", "closed"}
    /\ session' = "closing"
    /\ cancelDiagnosticsRefresh
    /\ UNCHANGED <<readVars, dispatchVars, requestVars, calls, writeVars, endVars, installs, publishVars,
                   queueClosed>>

\* registerRequestHandler and methods without a handler: everything is synchronous.
HandleRequest ==
    /\ Handling /\ Kind[current] # "async"
    /\ \/ /\ session = "closing"
          /\ session' = "closed" /\ queueClosed' = TRUE
       \/ /\ session = "none" \/ (session # "closing" /\ Kind[current] # "shutdown")
          /\ UNCHANGED <<session, queueClosed>>
    /\ \/ /\ Kind[current] # "shutdown" \/ session = "none" \/ IsCanceled(current)
          /\ Reply(current, "error")
       \/ /\ Kind[current] \in {"sync", "shutdown"} /\ session # "none" /\ ~IsCanceled(current)
          /\ Reply(current, "result")
    /\ UNCHANGED <<readVars, dispatchVars, pendingClientRequests, canceled, calls, replies,
                   unmarshalable, endVars, installs, refreshVars, publishVars>>

\* registerLanguageServiceDocumentRequestHandler: the language service is there (the rest
\* runs in a goroutine) or not.
HandleAsync ==
    /\ Handling /\ Kind[current] = "async" /\ session # "none"
    /\ \/ /\ work' = [work EXCEPT ![current] = "running"]
          /\ current' = Nil
          /\ UNCHANGED outgoingQueue
       \/ /\ Reply(current, "error")
          /\ UNCHANGED current
    /\ UNCHANGED <<readVars, session, requestQueue, waiting, pendingClientRequests, canceled,
                   calls, replies, unmarshalable, endVars, installs, taskVars>>

\* registerNotificationHandler.  DidChangeFile of a content-mapped file asks for a refresh,
\* that of another file cancels it; exit ends the dispatch loop.
HandleNotification ==
    /\ current \in Messages \ Requests
    /\ \/ session = "none" /\ UNCHANGED <<exiting, taskVars>>
       \/ /\ session # "none" /\ Kind[current] = "mapped"
          /\ scheduleDiagnosticsRefresh
          /\ UNCHANGED <<exiting, publishVars, queueClosed>>
       \/ /\ session # "none" /\ Kind[current] = "edit"
          /\ cancelDiagnosticsRefresh
          /\ UNCHANGED <<exiting, publishVars, queueClosed>>
       \/ /\ session # "none" /\ Kind[current] = "exit"
          /\ exiting' = TRUE
          /\ UNCHANGED taskVars
    /\ Kind[current] # "initialized"
    /\ current' = Nil
    /\ UNCHANGED <<readVars, session, requestQueue, waiting, requestVars, calls, writeVars,
                   done, over, installs>>

\* handleInitialized calls the client from the dispatch loop (sendClientRequest).
Call(c) ==
    /\ current \in Messages /\ Kind[current] = "initialized"
    /\ waiting = 0 /\ calls[c] = "none" /\ \A d \in 1 .. (c - 1) : calls[d] = "over"
    /\ session' = "open"
    /\ waiting' = c
    /\ calls' = [calls EXCEPT ![c] = "pending"]
    /\ send(<<"call", c>>)
    /\ UNCHANGED <<readVars, requestQueue, current, requestVars, replies, unmarshalable,
                   endVars, installs, taskVars>>

\* Mutant of CallEnds: the call waits for the response only.
CallAnswered(c) ==
    /\ waiting = c /\ waiting' = 0
    /\ calls[c] = "answered"
    /\ calls' = [calls EXCEPT ![c] = "over"]
    /\ current' = IF c = 2 THEN Nil ELSE current
    /\ UNCHANGED <<readVars, session, requestQueue, requestVars, writeVars, endVars, installs,
                   taskVars>>

\* The response has come (or an error, which ends the handler), or the context is done.
CallEnds(c) ==
    /\ waiting = c /\ waiting' = 0
    /\ \/ calls[c] = "answered"
          /\ calls' = [calls EXCEPT ![c] = "over"]
          /\ current' \in IF c = 2 THEN {Nil} ELSE {Nil, current}
       \/ done
          /\ calls' = [calls EXCEPT ![c] = IF @ = "asked" THEN "gone" ELSE "over"]
          /\ current' = Nil
    /\ UNCHANGED <<readVars, session, requestQueue, requestVars, writeVars, endVars, installs,
                   taskVars>>

\* requestQueue.Get fails; the loops' group cancels its context.
DispatchEnds ==
    /\ "dispatch" \notin over /\ current = Nil /\ (exiting \/ done)
    /\ over' = over \union {"dispatch"} /\ done' = TRUE
    /\ UNCHANGED <<readVars, session, dispatchVars, requestVars, calls, writeVars, exiting,
                   installs, taskVars>>

------------------------------------------------------------------------------
(* The asynchronous part of a request *)

\* The language service has answered, or failed: its error, or that of the context, is sent.
WorkDone(r, new) ==
    /\ work[r] = "running"
    /\ EnqueuePublishGlobalDiagnostics(new)
    /\ \/ Reply(r, "error")
       \/ /\ ~IsCanceled(r)
          /\ work' = [work EXCEPT ![r] = "replying"]
          /\ UNCHANGED outgoingQueue
    /\ UNCHANGED <<readVars, session, dispatchVars, pendingClientRequests, canceled, calls,
                   replies, unmarshalable, endVars, installs, refreshVars, queueClosed>>

\* Mutant of WorkReplies: the context is looked at after the result was sent, too.
WorkRepliesTwice(r) ==
    /\ work[r] = "replying"
    /\ work' = [work EXCEPT ![r] = IF IsCanceled(r) THEN "running" ELSE "answered"]
    /\ send(<<"result", r>>)
    /\ UNCHANGED <<readVars, session, dispatchVars, pendingClientRequests, canceled, calls,
                   replies, unmarshalable, endVars, installs, taskVars>>

\* The result is sent: a cancellation that comes now, or before removeRequest, is too late.
WorkReplies(r) ==
    /\ work[r] = "replying"
    /\ Reply(r, "result")
    /\ UNCHANGED <<readVars, session, dispatchVars, pendingClientRequests, canceled, calls,
                   replies, unmarshalable, endVars, installs, taskVars>>

\* Mutant of recover: the panic is logged only.
recoverSilently(r) ==
    /\ work[r] = "running"
    /\ work' = [work EXCEPT ![r] = "answered"]
    /\ UNCHANGED <<readVars, session, dispatchVars, pendingClientRequests, canceled, calls,
                   writeVars, endVars, installs, taskVars>>

\* recover: a panic of the language service is the request's error.
recover(r) ==
    /\ work[r] = "running"
    /\ Reply(r, "error")
    /\ UNCHANGED <<readVars, session, dispatchVars, pendingClientRequests, canceled, calls,
                   replies, unmarshalable, endVars, installs, taskVars>>

------------------------------------------------------------------------------
(* writeLoop *)

\* A result that cannot be marshalled becomes an error at the end of the queue.
Write ==
    LET msg == Head(outgoingQueue) IN
    /\ "write" \notin over /\ ~done /\ outgoingQueue # <<>>
    /\ \/ /\ outgoingQueue' = Tail(outgoingQueue)
          /\ replies' = [r \in Requests |->
                 replies[r] + IF msg \in {<<"result", r>>, <<"error", r>>} THEN 1 ELSE 0]
          /\ calls' = [c \in Calls |-> IF msg = <<"call", c>> THEN "asked" ELSE calls[c]]
          /\ UNCHANGED unmarshalable
       \/ /\ msg[1] = "result" /\ unmarshalable > 0
          /\ unmarshalable' = unmarshalable - 1
          /\ outgoingQueue' = Append(Tail(outgoingQueue), <<"error", msg[2]>>)
          /\ UNCHANGED <<calls, replies>>
    /\ UNCHANGED <<readVars, session, dispatchVars, requestVars, endVars, installs, taskVars>>

\* outgoingQueue.Get fails.
WriteEnds ==
    /\ "write" \notin over /\ done
    /\ over' = over \union {"write"}
    /\ UNCHANGED <<readVars, session, dispatchVars, requestVars, calls, writeVars, exiting,
                   done, installs, taskVars>>

------------------------------------------------------------------------------
(* Background tasks of the session *)

\* A type acquisition ends: ScheduleDiagnosticsRefresh.
InstallEnds ==
    /\ session # "none" /\ installs > 0
    /\ installs' = installs - 1
    /\ scheduleDiagnosticsRefresh
    /\ UNCHANGED <<serverVars, publishVars, queueClosed>>

RefreshTask(t) ==
    /\ Wake(t) \/ Begin(t) \/ Refreshed(t)
    /\ UNCHANGED <<serverVars, installs>>

PublishTask ==
    /\ TakeNewGlobalDiagnostics \/ ResetPending
    /\ UNCHANGED <<serverVars, installs>>

------------------------------------------------------------------------------
Work(r) == (\E new \in BOOLEAN : WorkDone(r, new)) \/ WorkReplies(r) \/ recover(r)
               \/ removeRequest(r)
Loop == Dispatch \/ CloseSession \/ HandleRequest \/ HandleAsync \/ HandleNotification \/ DispatchEnds
            \/ \E c \in Calls : Call(c) \/ CallEnds(c)

Next ==
    \/ Read \/ ReadEnds
    \/ \E r \in Requests : cancelRequest(r) \/ Work(r)
    \/ \E c \in Calls : ReadResponse(c)
    \/ Loop \/ Write \/ WriteEnds
    \/ InstallEnds \/ PublishTask
    \/ \E t \in DOMAIN tasks : RefreshTask(t)

Spec == Init /\ [][Next]_vars

MaxTasks == Cardinality(Messages)   \* more than a script and its installs schedule

\* The scheduler runs every loop and goroutine, and the client answers the server's calls.
FairSpec ==
    /\ Spec
    /\ WF_vars(Loop) /\ WF_vars(Write) /\ WF_vars(WriteEnds) /\ WF_vars(PublishTask)
    /\ \A r \in Requests : WF_vars(Work(r))
    /\ \A c \in Calls : WF_vars(ReadResponse(c))
    /\ \A t \in 1 .. MaxTasks :
           WF_vars(t \in DOMAIN tasks /\ RefreshTask(t))

------------------------------------------------------------------------------
(* Properties *)

\* Type invariant: the shape of every variable.
TypeOK ==
    /\ TasksTypeOK
    /\ session \in {"none", "open", "closing", "closed"}
    /\ current \in Messages \union {Nil} /\ waiting \in {0} \union Calls
    /\ work \in [Requests -> {"none", "running", "replying", "answered", "ended"}]
    /\ pendingClientRequests \subseteq Requests /\ canceled \subseteq Requests
    /\ calls \in [Calls -> {"none", "pending", "asked", "answered", "over", "gone", "ignored"}]
    /\ over \subseteq {"read", "dispatch", "write"}

Queued(r) == {i \in DOMAIN outgoingQueue : outgoingQueue[i] \in {<<"result", r>>, <<"error", r>>}}

\* A request that the dispatch loop has taken and nobody has answered.
Open(r) == (current = r /\ work[r] = "none") \/ work[r] \in {"running", "replying"}

\* A request is answered at most once, whether its handler returns, fails, panics or is
\* canceled before, while or after it replies, and whether or not its result could be
\* marshalled.  Until then it can be canceled, unless it was; and what can be canceled is
\* still to be removed by the dispatch loop or by its goroutine, so that no request is left
\* in the table.
AnsweredOnce ==
    /\ TypeOK
    /\ \A r \in Requests :
         /\ replies[r] + Cardinality(Queued(r)) <= IF Open(r) THEN 0 ELSE 1
         /\ Open(r) => r \in pendingClientRequests \union canceled
         /\ r \in pendingClientRequests => Open(r) \/ work[r] = "answered"

\* Every request that the server reads is answered and forgotten, unless the server stops.
Answered == []<>(\A i \in 1 .. sent : script[i] \in Requests =>
                     done \/ (replies[script[i]] = 1 /\ script[i] \notin pendingClientRequests))

\* After exit, or once the client is gone, both loops return and with them Run, even if
\* handleInitialized waits for the client.
Stops == []<>((exiting \/ done) => {"dispatch", "write"} \subseteq over)

\* No refresh begins that was canceled or has been put off, although the task may have
\* slept through its cancellation (the generations of scheduleDiagnosticsRefresh).
RefreshOnlyWanted ==
    [][\A t \in DOMAIN tasks : (tasks[t].at = "due" /\ tasks'[t].at = "sending") =>
           wanted /\ \A u \in DOMAIN tasks : u > t => tasks[u].at # "waiting"]_vars

\* A refresh that was scheduled begins, unless it is canceled or the server ends, which
\* ends the context of its task.
RefreshComes == []<>(~wanted \/ done)

\* "schedules a background check for new accumulated global diagnostics" (session.go:1958):
\* what the checkers have found is published.
GlobalsPublished == []<>(~found \/ queueClosed \/ done)

\* No refresh begins once the session is closed (Session.Close cancels the pending one).
NothingAfterClose == [][queueClosed =>
    \A t \in DOMAIN tasks : tasks[t].at = "due" => tasks'[t].at # "sending"]_vars
=============================================================================
