------------------------------ MODULE FsWatch ------------------------------
(***************************************************************************)
(* fswatch/watcher.go and debounce.go: watches of one directory.  Watches  *)
(* share a dirWatch, which collects the events of the operating system;    *)
(* one goroutine debounces them and calls the watches' callbacks.  What    *)
(* the operating system reports and when is external; a sequence number    *)
(* that separates the events before and after a registration is modelled   *)
(* by the set of watches an event is for.                                  *)
(***************************************************************************)
EXTENDS Naturals

CONSTANTS Watches, Nil,
          MaxErrors   \* bound: errors the operating system reports

ASSUME NilAssumption == Nil \notin Watches
ASSUME MaxErrorsAssumption == MaxErrors \in Nat

\* A dirWatch goes by the name of the watch it was made for.
DirWatches == Watches

VARIABLES
    cur,       \* watcher.dirWatches[dir]: the dirWatch of the directory, or Nil
    callbacks, \* dirWatch.callbacks: the watches registered
    terminal,  \* callbacks whose own directory was deleted under a shared root
    told,      \* callbacks with delivered = true
    events,    \* dirWatch.events: the watches that entries are for, with Nil if there are any
    err,       \* the dirWatches with an error among their events
    subs,      \* watcherBase.subscriptions
    live,      \* the subscriptions from which the operating system still reports
    added,     \* debounce.callbacks, and the dirWatches whose debounce is not nil
    reader,    \* the dirWatches whose backend has recorded and is yet to notify
    notified,  \* debounce: whether the latch is open
    triggered, \* whether the triggerCh that coalesceWait waits for is closed
    loop,      \* debounce.loop: where it is
    toFire,    \* the dirWatches whose callbacks it is yet to call
    batch,     \* the watches it is yet to call
    handling,  \* dirWatch |-> how far handleWatcherError has come with a fatal error
    failing,   \* dirWatch |-> the watches its backend is yet to tell of a fatal error
    reported,  \* how many errors the operating system has reported
    wpc, wdw,  \* watch |-> where its maker or closer is, and its dirWatch
    \* History, read by the properties only.
    due,       \* watches to which something happened that nobody has taken up to tell them
    warned,    \* watches that the loop has told of an error
    late,      \* watches registered on a dirWatch that was being given up, or was dead
    missed,    \* watches whose wake-up was undone by a round that did not know their dirWatch
    spoiled    \* dirWatches given up by a rollback or a fatal error

registry == <<cur, callbacks, subs, live, added, wpc, wdw>>
latch == <<notified, triggered, loop, toFire, batch>>
queued == <<terminal, told, events, err, reader>>
errors == <<handling, failing, reported>>
history == <<due, warned, late, missed, spoiled>>
vars == <<registry, latch, queued, errors, history>>

Init ==
    /\ cur = Nil /\ subs = {} /\ live = {} /\ added = {} /\ reader = {} /\ err = {}
    /\ callbacks = [d \in DirWatches |-> {}]
    /\ events = [d \in DirWatches |-> {}]
    /\ failing = [d \in DirWatches |-> {}]
    /\ handling = [d \in DirWatches |-> "no"]
    /\ terminal = {} /\ told = {} /\ reported = 0
    /\ due = {} /\ warned = {} /\ late = {} /\ missed = {} /\ spoiled = {}
    /\ notified = FALSE /\ triggered = FALSE
    /\ loop = "latchWait" /\ toFire = {} /\ batch = {}
    /\ wpc = [w \in Watches |-> "new"]
    /\ wdw = [w \in Watches |-> Nil]

-----------------------------------------------------------------------------
(* Making and closing a watch, concurrently with the others.  A watch that *)
(* was told that it ended is closed like any other.                        *)

Goes(w, to) == wpc' = [wpc EXCEPT ![w] = to]

getOrCreateDirWatch(w) ==
    /\ wpc[w] = "new" /\ Goes(w, "watch")
    /\ \/ cur # Nil /\ wdw' = [wdw EXCEPT ![w] = cur] /\ UNCHANGED <<cur, added>>
       \/ /\ cur = Nil /\ wdw' = [wdw EXCEPT ![w] = w]
          /\ cur' = w /\ added' = added \union {w}
    /\ UNCHANGED <<callbacks, subs, live, latch, queued, errors, history>>

\* Somebody who has found a dirWatch without callbacks is about to give it up.
GivenUp(d) == \E v \in Watches : wdw[v] = d /\ wpc[v] \in {"watchRemove", "removeDirWatch"}

\* It is subscribed, but its directory is gone and everybody has been told.
Dead(d) == d \in subs \ live /\ d \notin err /\ handling[d] = "no"

watch(w) ==
    /\ wpc[w] = "watch" /\ Goes(w, "watchAdd")
    /\ callbacks' = [callbacks EXCEPT ![wdw[w]] = @ \union {w}]
    /\ late' = IF wdw[w] # cur \/ GivenUp(wdw[w]) \/ Dead(wdw[w]) THEN late \union {w} ELSE late
    /\ UNCHANGED <<cur, subs, live, added, wdw, latch, queued, errors, due, warned, missed, spoiled>>

\* watchAddMany: subscribes a dirWatch that is not yet subscribed; it fails for this
\* dirWatch or for another one of the same call.
watchAdd(w) ==
    /\ wpc[w] = "watchAdd"
    /\ \/ Goes(w, "open") /\ wdw[w] \in subs /\ UNCHANGED <<subs, live>>
       \/ /\ Goes(w, "open") /\ wdw[w] \notin subs
          /\ subs' = subs \union {wdw[w]} /\ live' = live \union {wdw[w]}
       \/ Goes(w, "rollback") /\ UNCHANGED <<subs, live>>
    /\ UNCHANGED <<cur, callbacks, added, wdw, latch, queued, errors, history>>

\* Callbacks go, with what was recorded of them.
Forgotten(d, C) ==
    /\ callbacks' = [callbacks EXCEPT ![d] = @ \ C]
    /\ events' = [events EXCEPT ![d] = @ \ C]
    /\ terminal' = terminal \ C /\ told' = told \ C
    /\ warned' = warned \ C /\ late' = late \ C

Removed(w) == Forgotten(wdw[w], {w}) /\ due' = due \ {w} /\ missed' = missed \ {w}

\* The rollback of WatchDirectories: unwatch, whose answer is not used, then unref.
rollback(w) ==
    /\ wpc[w] = "rollback" /\ Goes(w, "unref")
    /\ Removed(w)
    /\ spoiled' = spoiled \union {d \in subs : d = wdw[w] /\ callbacks[d] = {w}}
    /\ UNCHANGED <<cur, subs, live, added, wdw, err, reader, latch, errors>>

\* Mutants: the last watch is taken for one of several, every watch for the last.
unwatchNotLast(w) == Removed(w) /\ Goes(w, "closed")
unwatchLast(w) == Removed(w) /\ Goes(w, "watchRemove")

unwatch(w) ==
    /\ Removed(w)
    /\ Goes(w, IF callbacks[wdw[w]] = {w} THEN "watchRemove" ELSE "closed")

Close(w) ==
    /\ wpc[w] = "open"
    /\ unwatch(w)
    /\ UNCHANGED <<cur, subs, live, added, wdw, err, reader, latch, errors, spoiled>>

Unsubscribed(d) == subs' = subs \ {d} /\ live' = live \ {d}

watchRemove(w) ==
    /\ wpc[w] = "watchRemove" /\ Goes(w, "unref")
    /\ Unsubscribed(wdw[w])
    /\ UNCHANGED <<cur, callbacks, added, wdw, latch, queued, errors, history>>

unref(w) ==
    /\ wpc[w] = "unref"
    /\ Goes(w, IF callbacks[wdw[w]] = {} THEN "removeDirWatch" ELSE "closed")
    /\ UNCHANGED <<cur, callbacks, subs, live, added, wdw, latch, queued, errors, history>>

\* With destroyDebounce, which takes the debouncer from the dirWatch and the
\* dirWatch from the debouncer.
removeDirWatch(w) ==
    /\ wpc[w] = "removeDirWatch" /\ Goes(w, "closed")
    /\ IF cur = wdw[w]
       THEN cur' = Nil /\ added' = added \ {wdw[w]}
       ELSE UNCHANGED <<cur, added>>
    /\ UNCHANGED <<callbacks, subs, live, wdw, latch, queued, errors, history>>

-----------------------------------------------------------------------------
(* The backend. *)

\* The callbacks that are to be told of an event.
Open(d) == callbacks[d] \ (told \union terminal)

\* The operating system reports an event in the directory.
Event(d) ==
    /\ d \in live
    /\ events' = [events EXCEPT ![d] = @ \union Open(d) \union {Nil}]
    /\ reader' = reader \union {d}
    /\ due' = due \union Open(d)
    /\ UNCHANGED <<terminal, told, err, registry, latch, errors, warned, late, missed, spoiled>>

Reports == reported < MaxErrors /\ reported' = reported + 1

\* eventList.setError: the operating system's queue has overflowed, or the root of the
\* watch was deleted, after which nothing is reported although the dirWatch remains
\* among the subscriptions.  A later error does not replace an earlier one.
setError(d) ==
    /\ d \in live /\ Reports
    /\ live' \in {live, live \ {d}}
    /\ err' = err \union {d}
    /\ reader' = reader \union {d}
    /\ due' = due \union (callbacks[d] \ told)
    /\ UNCHANGED <<cur, callbacks, subs, added, wpc, wdw, terminal, told, events,
                   latch, handling, failing, warned, late, missed, spoiled>>

\* terminateCallbacksForDeletedRoot: directories below a shared root were deleted.
Terminate(d) ==
    /\ d \in live /\ Reports
    /\ \E C \in SUBSET Open(d) \ {{}} :
         /\ terminal' = terminal \union C
         /\ due' = due \union C
    /\ reader' = reader \union {d}
    /\ UNCHANGED <<told, events, err, registry, latch, handling, failing, warned, late, missed, spoiled>>

trigger == notified' = TRUE /\ triggered' = (loop = "coalesceWait")

notify(d) ==
    /\ d \in reader
    /\ reader' = reader \ {d}
    /\ IF /\ callbacks[d] \ told # {} /\ d \in added
          /\ events[d] # {} \/ d \in err \/ callbacks[d] \intersect (terminal \ told) # {}
       THEN trigger
       ELSE UNCHANGED <<notified, triggered>>
    /\ UNCHANGED <<terminal, told, events, err, loop, toFire, batch,
                   registry, errors, history>>

\* A fatal error ends the subscription's goroutine and starts one that handles it.
\* One at a time is followed for a dirWatch.
fatal(d) ==
    /\ d \in live /\ handling[d] = "no" /\ Reports
    /\ live' = live \ {d}
    /\ handling' = [handling EXCEPT ![d] = "raised"]
    /\ UNCHANGED <<cur, callbacks, subs, added, wpc, wdw, latch, queued,
                   failing, history>>

\* The dirWatch is unsubscribed, then all its callbacks are taken and called.
handleWatcherError(d) ==
    /\ handling[d] = "raised"
    /\ handling' = [handling EXCEPT ![d] = "removed"]
    /\ Unsubscribed(d)
    /\ UNCHANGED <<cur, callbacks, added, wpc, wdw, latch, queued, failing, reported, history>>

TakeCallbacks(d) ==
    /\ handling[d] = "removed"
    /\ handling' = [handling EXCEPT ![d] = "no"]
    /\ failing' = [failing EXCEPT ![d] = @ \union callbacks[d]]
    /\ Forgotten(d, callbacks[d])
    /\ spoiled' = IF callbacks[d] # {} THEN spoiled \union {d} ELSE spoiled
    /\ UNCHANGED <<cur, subs, live, added, wpc, wdw, err, reader, latch, reported, due, missed>>

notifyError(d) ==
    /\ \E w \in failing[d] :
         /\ failing' = [failing EXCEPT ![d] = @ \ {w}]
         /\ due' = due \ {w}
    /\ UNCHANGED <<registry, latch, queued, handling, reported, warned, late, missed, spoiled>>

-----------------------------------------------------------------------------
(* The debounce loop. *)

debounced == <<registry, queued, errors, due, warned, late, spoiled>>

latchWait ==
    /\ loop = "latchWait" /\ notified
    /\ loop' = "notifyIfReady"
    /\ UNCHANGED <<notified, triggered, toFire, batch, missed, debounced>>

\* Callbacks are fired at once when more than maxWaitTime has passed since they were.
notifyIfReady(to) ==
    /\ loop = "notifyIfReady" /\ loop' = to
    /\ UNCHANGED <<notified, triggered, toFire, batch, missed, debounced>>

\* Either another trigger comes first or minWaitTime passes.
coalesceWait ==
    /\ loop = "coalesceWait"
    /\ loop' \in {"fire"} \union (IF triggered THEN {"latchWait"} ELSE {})
    /\ triggered' = FALSE
    /\ UNCHANGED <<notified, toFire, batch, missed, debounced>>

fireCallbacks ==
    /\ loop = "fire"
    /\ toFire' = added /\ loop' = "latchReset" /\ missed' = {}
    /\ UNCHANGED <<notified, triggered, batch, debounced>>

latchReset ==
    /\ loop = "latchReset"
    /\ notified' = FALSE /\ loop' = "run"
    /\ missed' = {w \in due : wdw[w] \in added \ (toFire \union reader)}
    /\ UNCHANGED <<triggered, toFire, batch, debounced>>

\* The callbacks of a dirWatch that are told of events, of an error or that they have ended.
Told(d) ==
    {w \in callbacks[d] \ told : w \in terminal \union events[d] \/ d \in err}

\* The loop takes the pending events of the next dirWatch.
triggerCallbacks(d) ==
    /\ loop = "run" /\ d \in toFire /\ batch = {}
    /\ toFire' = toFire \ {d}
    /\ batch' = Told(d)
    /\ told' = told \union (Told(d) \intersect terminal)
    /\ events' = [events EXCEPT ![d] = {}] /\ err' = err \ {d}
    /\ due' = due \ Told(d)
    /\ warned' = warned \union {w \in Told(d) : w \in terminal \/ d \in err}
    /\ UNCHANGED <<terminal, reader, notified, triggered, loop,
                   registry, errors, late, missed, spoiled>>

\* Its callbacks are called one after the other.
callback(w) ==
    /\ loop = "run" /\ w \in batch
    /\ batch' = batch \ {w}
    /\ UNCHANGED <<notified, triggered, loop, toFire, registry, queued, errors, history>>

\* Mutant: the latch is reset once more after the callbacks.
FiredReset ==
    /\ loop = "run" /\ toFire = {} /\ batch = {}
    /\ loop' = "latchWait" /\ notified' = FALSE
    /\ UNCHANGED <<triggered, toFire, batch, missed, debounced>>

Fired ==
    /\ loop = "run" /\ toFire = {} /\ batch = {}
    /\ loop' = "latchWait"
    /\ UNCHANGED <<notified, triggered, toFire, batch, missed, debounced>>

Loop ==
    \/ latchWait \/ notifyIfReady("fire") \/ notifyIfReady("coalesceWait") \/ coalesceWait
    \/ fireCallbacks \/ latchReset \/ Fired
    \/ \E d \in DirWatches : triggerCallbacks(d)
    \/ \E w \in Watches : callback(w)

Backend ==
    \E d \in DirWatches :
      notify(d) \/ handleWatcherError(d) \/ TakeCallbacks(d) \/ notifyError(d)

Next ==
    \/ \E w \in Watches : \/ getOrCreateDirWatch(w) \/ watch(w) \/ watchAdd(w) \/ rollback(w)
                          \/ Close(w) \/ watchRemove(w) \/ unref(w) \/ removeDirWatch(w)
    \/ \E d \in DirWatches : Event(d) \/ setError(d) \/ Terminate(d) \/ fatal(d)
    \/ Loop \/ Backend

\* The goroutines of the loop and the backend run; a loop that goes round without
\* firing finds in the end that maxWaitTime has passed.
Spec == Init /\ [][Next]_vars /\ WF_vars(Loop) /\ SF_vars(notifyIfReady("fire"))
             /\ \A d \in DirWatches :
                  /\ WF_vars(notify(d))
                  /\ WF_vars(handleWatcherError(d) \/ TakeCallbacks(d) \/ notifyError(d))

-----------------------------------------------------------------------------
TypeOK ==
    /\ cur \in DirWatches \union {Nil}
    /\ callbacks \in [DirWatches -> SUBSET Watches]
    /\ events \in [DirWatches -> SUBSET (Watches \union {Nil})]
    /\ failing \in [DirWatches -> SUBSET Watches]
    /\ reported \in 0 .. MaxErrors
    /\ handling \in [DirWatches -> {"no", "raised", "removed"}]
    /\ {err, subs, live, added, reader, toFire, spoiled} \subseteq SUBSET DirWatches
    /\ {terminal, told, batch, due, warned, late, missed} \subseteq SUBSET Watches
    /\ {notified, triggered} \subseteq BOOLEAN
    /\ loop \in {"latchWait", "notifyIfReady", "coalesceWait", "fire", "latchReset", "run"}
    /\ wpc \in [Watches -> {"new", "watch", "watchAdd", "rollback", "open", "watchRemove",
                             "unref", "removeDirWatch", "closed"}]
    /\ wdw \in [Watches -> DirWatches \union {Nil}]

\* The variables have their types, and a watch that is open is served, that is, its
\* dirWatch is the one of the directory, the operating system reports to it and the
\* debouncer knows it, however many watches are made, rolled back and closed at the
\* same time (watcher.go 476-551, 611-624, 1089-1108).  The exceptions are those that
\* the code has: the watch was told of an error or is about to be (an overflow may
\* stand for the end of the root, event.go 203), or it was registered on a dirWatch
\* that another one was giving up or whose root was gone.
OpenIsServed ==
    /\ TypeOK
    /\ \A w \in Watches : LET d == wdw[w] IN
         /\ wpc[w] = "open" /\ w \in callbacks[d] \ (warned \union late)
         /\ d \notin err /\ handling[d] = "no"
         => d = cur /\ d \in live /\ d \in added

\* What no watch uses is given back, to the operating system and to the debouncer, in
\* whatever order the watches that share it are made and closed.  The exceptions: the
\* last watch was rolled back, which does not unsubscribe (watcher.go 493-499), or its
\* callback was taken by a fatal error, after which Close does not find itself last
\* (917-922, 1089-1099).
NothingLeft ==
    \A d \in (subs \union added \union {cur}) \ ({Nil} \union spoiled) :
        \E w \in Watches : wdw[w] = d /\ wpc[w] # "closed"

\* What happens in the directory reaches the callback of every watch that is open:
\* no wake-up of the debounce loop is lost, however triggers, timers and calls of
\* callbacks fall (debounce.go 63-123, 141-155).  The exceptions: the dirWatch was made
\* after a round had copied its list and triggered before that round reset the latch
\* (debounce.go 109-118), until a later round; and it was destroyed while the watch was
\* being registered.
Delivered ==
    \A w \in Watches : w \in due ~> w \notin due \/ w \in missed \/ wdw[w] \notin added
=============================================================================
