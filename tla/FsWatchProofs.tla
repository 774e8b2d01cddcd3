--------------------------- MODULE FsWatchProofs ---------------------------
(***************************************************************************)
(* Proofs about FsWatch, for any number of watches and of errors: however  *)
(* watches are made, rolled back and closed at the same time, whatever the *)
(* operating system reports and wherever the debounce loop is, an open     *)
(* watch is served and nothing is left behind, but for the exceptions that *)
(* the two properties name.                                                *)
(***************************************************************************)
EXTENDS FsWatch, TLAPS

\* The debouncer knows the directory's dirWatch and no other.
AddedIsCur == added = {cur} \ {Nil}

\* A watch on its way has a dirWatch, and its callback is registered from watch to
\* Close unless a fatal error has taken it.
MakersKnown ==
    \A w \in Watches :
        /\ IF wpc[w] = "new" THEN wdw[w] = Nil ELSE wdw[w] \in DirWatches
        /\ wpc[w] \in {"watchAdd", "rollback", "open"} =>
             w \in callbacks[wdw[w]] \/ wdw[w] \in spoiled

\* A callback is that of a watch that is made or open.
CallbacksKnown ==
    \A d \in DirWatches : \A w \in callbacks[d] :
        wdw[w] = d /\ wpc[w] \in {"watchAdd", "rollback", "open"}

\* A callback that is not told any more was told of an error.
ToldWarned == told \subseteq warned

\* What a callback can rely on that was not late: nobody gives its dirWatch up; once it
\* is open the dirWatch is subscribed; and the subscription does not die in silence.
InTime(d, w) ==
    /\ d = cur /\ ~GivenUp(d)
    /\ wpc[w] = "open" /\ handling[d] = "no" => d \in subs
    /\ Dead(d) => w \in warned

Timely == \A d \in DirWatches : \A w \in callbacks[d] \ late : InTime(d, w)

\* A subscription has a callback or somebody who is about to remove it.
SubscriptionsUsed ==
    \A d \in subs \ spoiled :
        callbacks[d] # {} \/ \E w \in Watches : wdw[w] = d /\ wpc[w] = "watchRemove"

IInv ==
    /\ TypeOK /\ AddedIsCur /\ MakersKnown /\ CallbacksKnown /\ ToldWarned
    /\ Timely /\ SubscriptionsUsed /\ NothingLeft

-----------------------------------------------------------------------------
\* The inductive invariant holds before anything is watched.
LEMMA InitIInv == Init => IInv
<1> SUFFICES ASSUME Init PROVE IInv
  OBVIOUS
<1>1. TypeOK
  <2>1. reported \in 0 .. MaxErrors
    BY MaxErrorsAssumption DEF Init
  <2>2. {notified, triggered} \subseteq BOOLEAN /\ loop = "latchWait"
    BY DEF Init
  <2> QED
    BY <2>1, <2>2 DEF Init, TypeOK
<1> QED
  BY <1>1 DEF Init, IInv, AddedIsCur, MakersKnown, CallbacksKnown, ToldWarned, Timely,
     SubscriptionsUsed, NothingLeft, DirWatches

\* Callbacks that go leave the types and the other callbacks as they are.
LEMMA ForgottenTypes ==
  ASSUME TypeOK, NEW d \in DirWatches, NEW C \in SUBSET Watches, Forgotten(d, C)
  PROVE  /\ callbacks' \in [DirWatches -> SUBSET Watches]
         /\ events' \in [DirWatches -> SUBSET (Watches \union {Nil})]
         /\ {terminal', told', warned', late'} \subseteq SUBSET Watches
         /\ callbacks'[d] = callbacks[d] \ C
         /\ \A e \in DirWatches \ {d} : callbacks'[e] = callbacks[e]
BY DEF Forgotten, TypeOK, DirWatches

\* Every action of a watch keeps the types.
LEMMA WatchTypes ==
  ASSUME IInv, NEW w \in Watches,
         \/ getOrCreateDirWatch(w) \/ watch(w) \/ watchAdd(w) \/ rollback(w)
         \/ Close(w) \/ watchRemove(w) \/ unref(w) \/ removeDirWatch(w)
  PROVE  TypeOK'
<1> USE DEF IInv
<1>1. wpc[w] # "new" => wdw[w] \in DirWatches
  BY DEF MakersKnown
<1>2. CASE getOrCreateDirWatch(w)
  BY <1>2, SMTT(30) DEF getOrCreateDirWatch, Goes, TypeOK, DirWatches, latch, queued, errors, history
<1>3. CASE watch(w)
  BY <1>1, <1>3, SMTT(30) DEF watch, Goes, TypeOK, DirWatches, latch, queued, errors
<1>4. CASE watchAdd(w) \/ watchRemove(w)
  BY <1>1, <1>4, SMTT(30) DEF watchAdd, watchRemove, Unsubscribed, Goes, TypeOK, DirWatches,
     latch, queued, errors, history
<1>5. CASE rollback(w) \/ Close(w)
  <2>1. wdw[w] \in DirWatches /\ Forgotten(wdw[w], {w}) /\ {w} \in SUBSET Watches
    BY <1>1, <1>5 DEF rollback, Close, unwatch, Removed
  <2>2. /\ callbacks' \in [DirWatches -> SUBSET Watches]
        /\ events' \in [DirWatches -> SUBSET (Watches \union {Nil})]
        /\ {terminal', told', warned', late'} \subseteq SUBSET Watches
    BY <2>1, ForgottenTypes
  <2>3. /\ wpc' \in [Watches -> {"new", "watch", "watchAdd", "rollback", "open", "watchRemove",
                                 "unref", "removeDirWatch", "closed"}]
        /\ due' = due \ {w} /\ missed' = missed \ {w}
        /\ spoiled' \subseteq DirWatches
        /\ UNCHANGED <<cur, subs, live, added, wdw, err, reader, latch, errors>>
    BY <1>5, <2>1 DEF rollback, Close, unwatch, Removed, Goes, TypeOK
  <2> QED
    BY <2>2, <2>3 DEF TypeOK, latch, errors
<1>6. CASE unref(w)
  BY <1>6, SMTT(30) DEF unref, Goes, TypeOK, latch, queued, errors, history
<1>7. CASE removeDirWatch(w)
  BY <1>1, <1>7, SMTT(30) DEF removeDirWatch, Goes, TypeOK, latch, queued, errors, history
<1> QED
  BY <1>2, <1>3, <1>4, <1>5, <1>6, <1>7

\* What the loop and the backend's reports leave alone.
Quiet ==
    /\ UNCHANGED <<cur, callbacks, subs, added, wpc, wdw, late, spoiled, handling>>
    /\ warned \subseteq warned' /\ told' \subseteq warned'
    /\ \A d \in DirWatches : Dead(d)' =>
         Dead(d) \/ \A w \in callbacks[d] : w \in warned'

\* The debounce loop's steps keep the types and are quiet: an error is forgotten only
\* when every callback has been told of one.
LEMMA LoopStep ==
  ASSUME IInv, Loop
  PROVE  TypeOK' /\ Quiet
<1> USE DEF IInv
<1>1. CASE \/ latchWait \/ coalesceWait \/ fireCallbacks \/ latchReset \/ Fired
           \/ notifyIfReady("fire") \/ notifyIfReady("coalesceWait")
  <2>1. UNCHANGED <<registry, queued, errors, due, warned, late, spoiled>>
    BY <1>1 DEF latchWait, coalesceWait, fireCallbacks, latchReset, Fired, notifyIfReady, debounced
  <2>2. /\ {notified', triggered'} \subseteq BOOLEAN
        /\ loop' \in {"latchWait", "notifyIfReady", "coalesceWait", "fire", "latchReset", "run"}
        /\ toFire' \subseteq DirWatches /\ batch' \subseteq Watches /\ missed' \subseteq Watches
    BY <1>1 DEF latchWait, coalesceWait, fireCallbacks, latchReset, Fired, notifyIfReady, TypeOK
  <2> QED
    BY <2>1, <2>2 DEF Quiet, TypeOK, ToldWarned, Dead, registry, queued, errors
<1>2. ASSUME NEW d \in DirWatches, triggerCallbacks(d) PROVE TypeOK' /\ Quiet
  <2>1. Told(d) \subseteq callbacks[d] /\ Told(d) \subseteq Watches
    BY DEF Told, TypeOK
  <2>2. TypeOK'
    BY <1>2, <2>1 DEF triggerCallbacks, TypeOK, registry, errors
  <2>3. d \in err => \A w \in callbacks[d] : w \in warned'
    BY <1>2 DEF triggerCallbacks, Told, ToldWarned
  <2>4. \A e \in DirWatches : Dead(e)' => Dead(e) \/ (e = d /\ d \in err)
    BY <1>2 DEF triggerCallbacks, Dead, registry, errors
  <2>5. told' \subseteq warned' /\ warned \subseteq warned'
    BY <1>2 DEF triggerCallbacks, ToldWarned
  <2> QED
    BY <1>2, <2>2, <2>3, <2>4, <2>5 DEF triggerCallbacks, Quiet, registry, errors
<1>3. ASSUME NEW w \in Watches, callback(w) PROVE TypeOK' /\ Quiet
  BY <1>3 DEF callback, TypeOK, Quiet, ToldWarned, Dead, registry, queued, errors, history
<1> QED
  BY <1>1, <1>2, <1>3 DEF Loop

\* So are the reports of the operating system and the backend's notifications.
LEMMA BackendStep ==
  ASSUME IInv, NEW d \in DirWatches,
         Event(d) \/ setError(d) \/ Terminate(d) \/ notify(d) \/ notifyError(d)
  PROVE  TypeOK' /\ Quiet
<1> USE DEF IInv
<1>1. Open(d) \subseteq Watches
  BY DEF Open, TypeOK
<1>2. CASE Event(d)
  BY <1>1, <1>2, SMTT(30) DEF Event, TypeOK, Quiet, ToldWarned, Dead, registry, latch, errors
<1>3. CASE setError(d)
  <2>1. TypeOK'
    BY <1>3, MaxErrorsAssumption, SMTT(30) DEF setError, Reports, TypeOK, latch
  <2> QED
    BY <1>3, <2>1 DEF setError, TypeOK, Quiet, ToldWarned, Dead
<1>4. CASE Terminate(d)
  BY <1>1, <1>4, MaxErrorsAssumption, SMTT(30)
  DEF Terminate, Reports, TypeOK, Quiet, ToldWarned, Dead, registry, latch
<1>5. CASE notify(d)
  <2>1. /\ UNCHANGED <<terminal, told, events, err, loop, toFire, batch, registry, errors, history>>
        /\ reader' \subseteq DirWatches /\ {notified', triggered'} \subseteq BOOLEAN
    BY <1>5 DEF notify, trigger, TypeOK
  <2> QED
    BY <2>1 DEF TypeOK, Quiet, ToldWarned, Dead, registry, errors, history
<1>6. CASE notifyError(d)
  BY <1>6, SMTT(30) DEF notifyError, TypeOK, Quiet, ToldWarned, Dead, registry, latch, queued
<1> QED
  BY <1>2, <1>3, <1>4, <1>5, <1>6

\* A quiet step keeps the invariant.
LEMMA QuietStep ==
  ASSUME IInv, TypeOK', Quiet
  PROVE  IInv'
<1> USE DEF IInv, Quiet
<1>1. AddedIsCur' /\ MakersKnown' /\ CallbacksKnown' /\ ToldWarned'
  BY DEF AddedIsCur, MakersKnown, CallbacksKnown, ToldWarned
<1>2. Timely'
  BY DEF Timely, InTime, GivenUp
<1>3. SubscriptionsUsed' /\ NothingLeft'
  BY DEF SubscriptionsUsed, NothingLeft
<1> QED
  BY <1>1, <1>2, <1>3

-----------------------------------------------------------------------------
\* A watch takes the directory's dirWatch, or a new one.  Where there was none nobody
\* was in time.
LEMMA getOrCreateDirWatchStep ==
  ASSUME IInv, NEW w \in Watches, getOrCreateDirWatch(w)
  PROVE  IInv'
<1> USE DEF IInv
<1>1. TypeOK'
  BY WatchTypes
<1>2. /\ wpc[w] = "new" /\ wpc' = [wpc EXCEPT ![w] = "watch"]
      /\ UNCHANGED <<callbacks, subs, live, err, handling, told, warned, late, spoiled>>
  BY DEF getOrCreateDirWatch, Goes, queued, errors, history
<1>3. PICK d \in DirWatches :
        /\ wdw' = [wdw EXCEPT ![w] = d] /\ cur' = d /\ added' = {d}
        /\ cur \in {Nil, d}
  BY NilAssumption DEF getOrCreateDirWatch, TypeOK, AddedIsCur, DirWatches
<1>4. d # Nil
  BY NilAssumption DEF DirWatches
<1>5. AddedIsCur' /\ ToldWarned'
  BY <1>2, <1>3, <1>4 DEF AddedIsCur, ToldWarned
<1>6. \A v \in Watches \ {w} : wpc'[v] = wpc[v] /\ wdw'[v] = wdw[v]
  BY <1>2, <1>3 DEF TypeOK
<1>7. wpc'[w] = "watch" /\ wdw'[w] = d
  BY <1>2, <1>3 DEF TypeOK
<1>8. MakersKnown' /\ CallbacksKnown'
  BY <1>1, <1>2, <1>6, <1>7 DEF MakersKnown, CallbacksKnown, TypeOK
<1>9. \A e \in DirWatches : GivenUp(e)' => GivenUp(e)
  BY <1>6, <1>7 DEF GivenUp
<1>10. Timely'
  <2> SUFFICES ASSUME NEW e \in DirWatches, NEW v \in callbacks[e] \ late PROVE InTime(e, v)'
    BY <1>2 DEF Timely
  <2>1. InTime(e, v) /\ e # Nil /\ v \in Watches /\ v # w
    BY <1>2, NilAssumption DEF Timely, TypeOK, CallbacksKnown, DirWatches
  <2> QED
    BY <1>2, <1>3, <1>6, <1>9, <2>1 DEF InTime, Dead
<1>11. SubscriptionsUsed'
  BY <1>2, <1>6 DEF SubscriptionsUsed
<1>12. NothingLeft'
  <2>1. \A v \in Watches : wdw[v] # Nil => v # w
    BY <1>2 DEF MakersKnown
  <2> QED
    BY <1>2, <1>3, <1>6, <1>7, <2>1 DEF NothingLeft
<1> QED
  BY <1>1, <1>5, <1>8, <1>10, <1>11, <1>12

\* A registered callback is late unless it can rely on its dirWatch.
LEMMA watchStep ==
  ASSUME IInv, NEW w \in Watches, watch(w)
  PROVE  IInv'
<1> USE DEF IInv
<1> DEFINE d == wdw[w]
<1>1. TypeOK'
  BY WatchTypes
<1>2. /\ wpc[w] = "watch" /\ wpc' = [wpc EXCEPT ![w] = "watchAdd"]
      /\ callbacks' = [callbacks EXCEPT ![d] = @ \union {w}]
      /\ UNCHANGED <<cur, subs, live, added, wdw, err, handling, told, warned, spoiled>>
      /\ late \subseteq late'
      /\ w \notin late' => d = cur /\ ~GivenUp(d) /\ ~Dead(d)
  BY DEF watch, Goes, queued, errors
<1>3. d \in DirWatches
  BY <1>2 DEF MakersKnown
<1>4. /\ callbacks'[d] = callbacks[d] \union {w}
      /\ \A e \in DirWatches \ {d} : callbacks'[e] = callbacks[e]
      /\ wpc'[w] = "watchAdd" /\ \A v \in Watches \ {w} : wpc'[v] = wpc[v]
  BY <1>2, <1>3 DEF TypeOK
<1>5. AddedIsCur' /\ ToldWarned'
  BY <1>2 DEF AddedIsCur, ToldWarned
<1>6. MakersKnown' /\ CallbacksKnown'
  BY <1>2, <1>3, <1>4 DEF MakersKnown, CallbacksKnown, TypeOK
<1>7. \A e \in DirWatches : GivenUp(e)' => GivenUp(e)
  BY <1>2, <1>4 DEF GivenUp
<1>8. Timely'
  <2> SUFFICES ASSUME NEW e \in DirWatches, NEW v \in callbacks'[e] \ late' PROVE InTime(e, v)'
    BY DEF Timely
  <2>1. CASE v \in callbacks[e]
    <3>1. InTime(e, v) /\ v \in Watches /\ v # w
      BY <1>2, <2>1 DEF Timely, TypeOK, CallbacksKnown
    <3> QED
      BY <1>2, <1>4, <1>7, <3>1 DEF InTime, Dead
  <2>2. CASE v \notin callbacks[e]
    <3>1. v = w /\ e = d
      BY <1>3, <1>4, <2>2
    <3> QED
      BY <1>2, <1>4, <1>7, <3>1 DEF InTime, Dead
  <2> QED
    BY <2>1, <2>2
<1>9. SubscriptionsUsed'
  BY <1>2, <1>3, <1>4 DEF SubscriptionsUsed, TypeOK
<1>10. NothingLeft'
  BY <1>2, <1>4 DEF NothingLeft
<1> QED
  BY <1>1, <1>5, <1>6, <1>8, <1>9, <1>10

\* A watch is open when its dirWatch is subscribed.
LEMMA watchAddStep ==
  ASSUME IInv, NEW w \in Watches, watchAdd(w)
  PROVE  IInv'
<1> USE DEF IInv
<1> DEFINE d == wdw[w]
<1>1. TypeOK'
  BY WatchTypes
<1>2. /\ wpc[w] = "watchAdd" /\ wpc' \in {[wpc EXCEPT ![w] = "open"], [wpc EXCEPT ![w] = "rollback"]}
      /\ UNCHANGED <<cur, callbacks, added, wdw, err, handling, told, warned, late, spoiled>>
      /\ \/ UNCHANGED <<subs, live>> /\ (wpc'[w] = "open" => d \in subs)
         \/ subs' = subs \union {d} /\ live' = live \union {d} /\ d \notin subs
  BY DEF watchAdd, Goes, queued, errors, history, TypeOK
<1>3. d \in DirWatches /\ (w \in callbacks[d] \/ d \in spoiled)
  BY <1>2 DEF MakersKnown
<1>4. /\ wpc'[w] \in {"open", "rollback"} /\ \A v \in Watches \ {w} : wpc'[v] = wpc[v]
  BY <1>2 DEF TypeOK
<1>5. AddedIsCur' /\ ToldWarned' /\ MakersKnown' /\ CallbacksKnown'
  BY <1>2, <1>3, <1>4 DEF AddedIsCur, ToldWarned, MakersKnown, CallbacksKnown, TypeOK
<1>6. \A e \in DirWatches : (GivenUp(e)' => GivenUp(e)) /\ (Dead(e)' => Dead(e))
  BY <1>2, <1>4 DEF GivenUp, Dead
<1>7. Timely'
  <2> SUFFICES ASSUME NEW e \in DirWatches, NEW v \in callbacks[e] \ late PROVE InTime(e, v)'
    BY <1>2 DEF Timely
  <2>1. InTime(e, v) /\ v \in Watches /\ wdw[v] = e
    BY DEF Timely, TypeOK, CallbacksKnown
  <2> QED
    BY <1>2, <1>4, <1>6, <2>1 DEF InTime
<1>8. SubscriptionsUsed'
  BY <1>2, <1>3, <1>4 DEF SubscriptionsUsed
<1>9. NothingLeft'
  BY <1>2, <1>3, <1>4 DEF NothingLeft
<1> QED
  BY <1>1, <1>5, <1>7, <1>8, <1>9

-----------------------------------------------------------------------------
\* A callback that is removed hands the subscription over: to another callback, to its
\* own watchRemove, or to nobody, and then its dirWatch is spoiled.
LEMMA RemovedStep ==
  ASSUME IInv, NEW w \in Watches, rollback(w) \/ Close(w)
  PROVE  IInv'
<1> USE DEF IInv
<1> DEFINE d == wdw[w]
<1>1. TypeOK'
  BY WatchTypes
<1>2. /\ wpc[w] \in {"rollback", "open"} /\ Forgotten(d, {w})
      /\ wpc' \in {[wpc EXCEPT ![w] = p] : p \in {"unref", "watchRemove", "closed"}}
      /\ UNCHANGED <<cur, subs, live, added, wdw, err, handling>>
      /\ spoiled \subseteq spoiled'
  BY DEF rollback, Close, unwatch, Removed, Goes, errors
<1>3. d \in DirWatches /\ (w \in callbacks[d] \/ d \in spoiled)
  BY <1>2 DEF MakersKnown
<1>4. /\ callbacks'[d] = callbacks[d] \ {w}
      /\ \A e \in DirWatches \ {d} : callbacks'[e] = callbacks[e]
      /\ told' = told \ {w} /\ warned' = warned \ {w} /\ late' = late \ {w}
  <2>1. {w} \in SUBSET Watches
    OBVIOUS
  <2> QED
    BY <1>2, <1>3, <2>1, ForgottenTypes DEF Forgotten
<1>5. /\ wpc'[w] \in {"unref", "watchRemove", "closed"}
      /\ \A v \in Watches \ {w} : wpc'[v] = wpc[v]
      /\ wpc'[w] = "watchRemove" => callbacks[d] = {w}
      /\ wpc'[w] = "closed" => callbacks[d] # {w}
      /\ wpc'[w] = "unref" /\ callbacks[d] = {w} /\ d \in subs => d \in spoiled'
  BY <1>2 DEF rollback, Close, unwatch, Goes, TypeOK
<1>6. AddedIsCur' /\ ToldWarned'
  BY <1>2, <1>4 DEF AddedIsCur, ToldWarned
<1>7. \A e \in DirWatches : callbacks'[e] \subseteq callbacks[e] \ {w}
  BY <1>3, <1>4 DEF CallbacksKnown
<1>8. MakersKnown' /\ CallbacksKnown'
  <2>1. \A v \in Watches : v # w /\ v \in callbacks[wdw[v]] /\ wdw[v] \in DirWatches =>
            v \in callbacks'[wdw[v]]
    BY <1>4
  <2> QED
    BY <1>2, <1>5, <1>7, <2>1 DEF MakersKnown, CallbacksKnown, TypeOK
<1>9. \A e \in DirWatches : GivenUp(e)' => GivenUp(e) \/ (e = d /\ callbacks'[e] = {})
  BY <1>2, <1>4, <1>5 DEF GivenUp
<1>10. Timely'
  <2> SUFFICES ASSUME NEW e \in DirWatches, NEW v \in callbacks'[e] \ late' PROVE InTime(e, v)'
    BY DEF Timely
  <2>1. InTime(e, v) /\ v \in Watches /\ v # w /\ v \in callbacks[e]
    BY <1>4, <1>7 DEF Timely, TypeOK
  <2> QED
    BY <1>2, <1>4, <1>5, <1>9, <2>1 DEF InTime, Dead
<1>11. SubscriptionsUsed'
  <2> SUFFICES ASSUME NEW e \in subs \ spoiled', callbacks'[e] = {}
               PROVE  \E v \in Watches : wdw[v] = e /\ wpc'[v] = "watchRemove"
    BY <1>2 DEF SubscriptionsUsed
  <2>1. e \in DirWatches
    BY DEF TypeOK
  <2>2. CASE callbacks[e] = {}
    BY <1>2, <1>5, <2>2 DEF SubscriptionsUsed
  <2>3. CASE callbacks[e] # {}
    BY <1>2, <1>3, <1>4, <1>5, <2>1, <2>3
  <2> QED
    BY <2>2, <2>3
<1>12. NothingLeft'
  <2> SUFFICES ASSUME NEW e \in (subs \union added \union {cur}) \ ({Nil} \union spoiled')
               PROVE  \E v \in Watches : wdw[v] = e /\ wpc'[v] # "closed"
    BY <1>2 DEF NothingLeft
  <2>1. PICK v \in Watches : wdw[v] = e /\ wpc[v] # "closed"
    BY <1>2 DEF NothingLeft
  <2>2. CASE v # w
    BY <1>5, <2>1, <2>2
  <2>3. CASE v = w /\ wpc'[w] = "closed"
    <3>1. PICK u \in callbacks[d] : u # w
      BY <1>2, <1>3, <1>5, <2>1, <2>3
    <3>2. u \in Watches /\ wdw[u] = d /\ wpc[u] # "closed"
      BY <1>3, <3>1 DEF TypeOK, CallbacksKnown
    <3> QED
      BY <1>5, <2>1, <2>3, <3>1, <3>2
  <2>4. CASE v = w /\ wpc'[w] # "closed"
    BY <2>1, <2>4
  <2> QED
    BY <2>2, <2>3, <2>4
<1> QED
  BY <1>1, <1>6, <1>8, <1>10, <1>11, <1>12

\* Nobody who was in time is registered when the dirWatch is unsubscribed.
LEMMA watchRemoveStep ==
  ASSUME IInv, NEW w \in Watches, watchRemove(w)
  PROVE  IInv'
<1> USE DEF IInv
<1> DEFINE d == wdw[w]
<1>1. TypeOK'
  BY WatchTypes
<1>2. /\ wpc[w] = "watchRemove" /\ wpc' = [wpc EXCEPT ![w] = "unref"]
      /\ subs' = subs \ {d} /\ live' = live \ {d}
      /\ UNCHANGED <<cur, callbacks, added, wdw, err, handling, told, warned, late, spoiled>>
  BY DEF watchRemove, Unsubscribed, Goes, queued, errors, history
<1>3. wpc'[w] = "unref" /\ \A v \in Watches \ {w} : wpc'[v] = wpc[v]
  BY <1>2 DEF TypeOK
<1>4. AddedIsCur' /\ ToldWarned' /\ MakersKnown' /\ CallbacksKnown'
  BY <1>2, <1>3 DEF AddedIsCur, ToldWarned, MakersKnown, CallbacksKnown, TypeOK
<1>5. GivenUp(d)
  BY <1>2 DEF GivenUp
<1>6. \A e \in DirWatches : (GivenUp(e)' => GivenUp(e)) /\ (Dead(e)' => Dead(e))
  BY <1>2, <1>3 DEF GivenUp, Dead
<1>7. Timely'
  <2> SUFFICES ASSUME NEW e \in DirWatches, NEW v \in callbacks[e] \ late PROVE InTime(e, v)'
    BY <1>2 DEF Timely
  <2>1. InTime(e, v) /\ v \in Watches /\ v # w /\ e # d
    BY <1>2, <1>5 DEF Timely, InTime, TypeOK, CallbacksKnown
  <2> QED
    BY <1>2, <1>3, <1>6, <2>1 DEF InTime
<1>8. SubscriptionsUsed'
  BY <1>2, <1>3 DEF SubscriptionsUsed
<1>9. NothingLeft'
  BY <1>2, <1>3 DEF NothingLeft
<1> QED
  BY <1>1, <1>4, <1>7, <1>8, <1>9

\* A dirWatch is given up when it has no callbacks; if it has some, one of them stays.
LEMMA unrefStep ==
  ASSUME IInv, NEW w \in Watches, unref(w)
  PROVE  IInv'
<1> USE DEF IInv
<1> DEFINE d == wdw[w]
<1>1. TypeOK'
  BY WatchTypes
<1>2. /\ wpc[w] = "unref"
      /\ wpc' = [wpc EXCEPT ![w] = IF callbacks[d] = {} THEN "removeDirWatch" ELSE "closed"]
      /\ UNCHANGED <<cur, callbacks, subs, live, added, wdw, err, handling,
                     told, warned, late, spoiled>>
  BY DEF unref, Goes, queued, errors, history
<1>3. /\ wpc'[w] = IF callbacks[d] = {} THEN "removeDirWatch" ELSE "closed"
      /\ \A v \in Watches \ {w} : wpc'[v] = wpc[v]
      /\ d \in DirWatches
  BY <1>2 DEF TypeOK, MakersKnown
<1>4. AddedIsCur' /\ ToldWarned' /\ MakersKnown' /\ CallbacksKnown'
  BY <1>2, <1>3 DEF AddedIsCur, ToldWarned, MakersKnown, CallbacksKnown, TypeOK
<1>5. \A e \in DirWatches : /\ GivenUp(e)' => GivenUp(e) \/ callbacks[e] = {}
                            /\ Dead(e)' => Dead(e)
  BY <1>2, <1>3 DEF GivenUp, Dead
<1>6. Timely'
  <2> SUFFICES ASSUME NEW e \in DirWatches, NEW v \in callbacks[e] \ late PROVE InTime(e, v)'
    BY <1>2 DEF Timely
  <2>1. InTime(e, v) /\ v \in Watches /\ v # w
    BY <1>2 DEF Timely, TypeOK, CallbacksKnown
  <2> QED
    BY <1>2, <1>3, <1>5, <2>1 DEF InTime
<1>7. SubscriptionsUsed'
  BY <1>2, <1>3 DEF SubscriptionsUsed
<1>8. NothingLeft'
  <2> SUFFICES ASSUME NEW e \in (subs \union added \union {cur}) \ ({Nil} \union spoiled)
               PROVE  \E v \in Watches : wdw[v] = e /\ wpc'[v] # "closed"
    BY <1>2 DEF NothingLeft
  <2>1. PICK v \in Watches : wdw[v] = e /\ wpc[v] # "closed"
    BY DEF NothingLeft
  <2>2. CASE v # w \/ callbacks[d] = {}
    BY <1>3, <2>1, <2>2
  <2>3. CASE v = w /\ callbacks[d] # {}
    <3>1. PICK u \in callbacks[d] : u \in Watches /\ wdw[u] = d /\ wpc[u] \notin {"closed", "unref"}
      BY <1>3, <2>3 DEF TypeOK, CallbacksKnown
    <3> QED
      BY <1>2, <1>3, <2>1, <2>3, <3>1
  <2> QED
    BY <2>2, <2>3
<1> QED
  BY <1>1, <1>4, <1>6, <1>7, <1>8

\* Nobody who was in time is registered when the dirWatch is taken from the directory,
\* and a subscription that somebody has made since has its own watch.
LEMMA removeDirWatchStep ==
  ASSUME IInv, NEW w \in Watches, removeDirWatch(w)
  PROVE  IInv'
<1> USE DEF IInv
<1> DEFINE d == wdw[w]
<1>1. TypeOK'
  BY WatchTypes
<1>2. /\ wpc[w] = "removeDirWatch" /\ wpc' = [wpc EXCEPT ![w] = "closed"]
      /\ cur' = IF cur = d THEN Nil ELSE cur
      /\ added' = IF cur = d THEN added \ {d} ELSE added
      /\ UNCHANGED <<callbacks, subs, live, wdw, err, handling, told, warned, late, spoiled>>
  BY DEF removeDirWatch, Goes, queued, errors, history
<1>3. wpc'[w] = "closed" /\ d \in DirWatches /\ \A v \in Watches \ {w} : wpc'[v] = wpc[v]
  BY <1>2 DEF TypeOK, MakersKnown
<1>4. AddedIsCur' /\ ToldWarned' /\ MakersKnown' /\ CallbacksKnown'
  BY <1>2, <1>3 DEF AddedIsCur, ToldWarned, MakersKnown, CallbacksKnown, TypeOK
<1>5. GivenUp(d)
  BY <1>2 DEF GivenUp
<1>6. \A e \in DirWatches : (GivenUp(e)' => GivenUp(e)) /\ (Dead(e)' => Dead(e))
  BY <1>2, <1>3 DEF GivenUp, Dead
<1>7. Timely'
  <2> SUFFICES ASSUME NEW e \in DirWatches, NEW v \in callbacks[e] \ late PROVE InTime(e, v)'
    BY <1>2 DEF Timely
  <2>1. InTime(e, v) /\ v \in Watches /\ v # w /\ e # d
    BY <1>2, <1>5 DEF Timely, InTime, TypeOK, CallbacksKnown
  <2> QED
    BY <1>2, <1>3, <1>6, <2>1 DEF InTime
<1>8. SubscriptionsUsed'
  BY <1>2, <1>3 DEF SubscriptionsUsed
<1>9. NothingLeft'
  <2> SUFFICES ASSUME NEW e \in (subs \union added' \union {cur'}) \ ({Nil} \union spoiled)
               PROVE  \E v \in Watches : wdw[v] = e /\ wpc'[v] # "closed"
    BY <1>2 DEF NothingLeft
  <2>1. e \in DirWatches
    BY <1>1 DEF TypeOK
  <2>2. PICK v \in Watches : wdw[v] = e /\ wpc[v] # "closed"
    BY <1>2 DEF NothingLeft
  <2>3. CASE e # d
    BY <1>3, <2>2, <2>3
  <2>4. CASE e = d
    <3>1. e \in subs
      BY <1>2, <2>4, <2>1, <1>4 DEF AddedIsCur
    <3>2. CASE callbacks[e] # {}
      <4>1. PICK u \in callbacks[e] : u \in Watches /\ wdw[u] = e
                                      /\ wpc[u] \notin {"closed", "removeDirWatch"}
        BY <2>1, <3>2 DEF TypeOK, CallbacksKnown
      <4> QED
        BY <1>2, <1>3, <4>1
    <3>3. CASE callbacks[e] = {}
      BY <1>2, <1>3, <3>1, <3>3 DEF SubscriptionsUsed
    <3> QED
      BY <3>2, <3>3
  <2> QED
    BY <2>3, <2>4
<1> QED
  BY <1>1, <1>4, <1>7, <1>8, <1>9

-----------------------------------------------------------------------------
\* A fatal error unsubscribes, and then takes every callback there is.
LEMMA FatalStep ==
  ASSUME IInv, NEW d \in DirWatches, fatal(d) \/ handleWatcherError(d) \/ TakeCallbacks(d)
  PROVE  IInv'
<1> USE DEF IInv
<1>1. CASE fatal(d)
  <2>1. TypeOK'
    BY <1>1, MaxErrorsAssumption, SMTT(30) DEF fatal, Reports, TypeOK, latch, queued, history
  <2>2. /\ handling'[d] = "raised" /\ \A e \in DirWatches \ {d} : handling'[e] = handling[e]
        /\ live' = live \ {d}
        /\ UNCHANGED <<cur, callbacks, subs, added, wpc, wdw, err, told, warned, late, spoiled>>
    BY <1>1 DEF fatal, TypeOK, queued, history
  <2>3. \A e \in DirWatches : Dead(e)' => Dead(e)
    BY <2>2 DEF Dead
  <2>4. Timely'
    BY <2>2, <2>3 DEF Timely, InTime, GivenUp
  <2> QED
    BY <2>1, <2>2, <2>4 DEF AddedIsCur, MakersKnown, CallbacksKnown, ToldWarned,
       SubscriptionsUsed, NothingLeft
<1>2. CASE handleWatcherError(d)
  <2>1. TypeOK'
    BY <1>2, SMTT(30) DEF handleWatcherError, Unsubscribed, TypeOK, latch, queued, history
  <2>2. /\ handling'[d] = "removed" /\ \A e \in DirWatches \ {d} : handling'[e] = handling[e]
        /\ live' = live \ {d} /\ subs' = subs \ {d}
        /\ UNCHANGED <<cur, callbacks, added, wpc, wdw, err, told, warned, late, spoiled>>
    BY <1>2 DEF handleWatcherError, Unsubscribed, TypeOK, queued, history
  <2>3. \A e \in DirWatches : Dead(e)' => Dead(e)
    BY <2>2 DEF Dead
  <2>4. Timely'
    BY <2>2, <2>3 DEF Timely, InTime, GivenUp
  <2> QED
    BY <2>1, <2>2, <2>4 DEF AddedIsCur, MakersKnown, CallbacksKnown, ToldWarned,
       SubscriptionsUsed, NothingLeft
<1>3. CASE TakeCallbacks(d)
  <2>1. /\ Forgotten(d, callbacks[d]) /\ callbacks[d] \in SUBSET Watches
        /\ handling' = [handling EXCEPT ![d] = "no"]
        /\ failing' = [failing EXCEPT ![d] = @ \union callbacks[d]]
        /\ spoiled' = IF callbacks[d] # {} THEN spoiled \union {d} ELSE spoiled
        /\ UNCHANGED <<cur, subs, live, added, wpc, wdw, err, reader, latch, reported, due, missed>>
    BY <1>3 DEF TakeCallbacks, TypeOK
  <2>2. /\ callbacks'[d] = {}
        /\ \A e \in DirWatches \ {d} : callbacks'[e] = callbacks[e]
        /\ callbacks' \in [DirWatches -> SUBSET Watches]
        /\ events' \in [DirWatches -> SUBSET (Watches \union {Nil})]
        /\ {terminal', told', warned', late'} \subseteq SUBSET Watches
    BY <2>1, ForgottenTypes
  <2>3. TypeOK'
    BY <2>1, <2>2 DEF TypeOK, latch
  <2>4. told' = told \ callbacks[d] /\ warned' = warned \ callbacks[d] /\ late' = late \ callbacks[d]
    BY <2>1 DEF Forgotten
  <2>5. \A e \in DirWatches \ {d} : handling'[e] = handling[e] /\ (Dead(e)' => Dead(e))
    BY <2>1 DEF TypeOK, Dead
  <2>6. AddedIsCur' /\ ToldWarned' /\ MakersKnown' /\ CallbacksKnown'
    BY <2>1, <2>2, <2>4 DEF AddedIsCur, ToldWarned, MakersKnown, CallbacksKnown
  <2>7. Timely'
    <3> SUFFICES ASSUME NEW e \in DirWatches, NEW v \in callbacks'[e] \ late' PROVE InTime(e, v)'
      BY DEF Timely
    <3>1. e # d /\ v \in callbacks[e]
      BY <2>2
    <3>2. v \notin callbacks[d]
      BY <3>1 DEF CallbacksKnown
    <3> QED
      BY <2>1, <2>4, <2>5, <3>1, <3>2 DEF Timely, InTime, GivenUp
  <2>8. SubscriptionsUsed' /\ NothingLeft'
    BY <2>1, <2>2 DEF SubscriptionsUsed, NothingLeft, TypeOK
  <2> QED
    BY <2>3, <2>6, <2>7, <2>8
<1> QED
  BY <1>1, <1>2, <1>3

-----------------------------------------------------------------------------
\* Every step keeps the invariant.
LEMMA NextIInv == IInv /\ [Next]_vars => IInv'
<1> SUFFICES ASSUME IInv, [Next]_vars PROVE IInv'
  OBVIOUS
<1>1. ASSUME NEW w \in Watches, getOrCreateDirWatch(w) PROVE IInv'
  BY <1>1, getOrCreateDirWatchStep
<1>2. ASSUME NEW w \in Watches, watch(w) PROVE IInv'
  BY <1>2, watchStep
<1>3. ASSUME NEW w \in Watches, watchAdd(w) PROVE IInv'
  BY <1>3, watchAddStep
<1>4. ASSUME NEW w \in Watches, rollback(w) \/ Close(w) PROVE IInv'
  BY <1>4, RemovedStep
<1>5. ASSUME NEW w \in Watches, watchRemove(w) PROVE IInv'
  BY <1>5, watchRemoveStep
<1>6. ASSUME NEW w \in Watches, unref(w) PROVE IInv'
  BY <1>6, unrefStep
<1>7. ASSUME NEW w \in Watches, removeDirWatch(w) PROVE IInv'
  BY <1>7, removeDirWatchStep
<1>8. ASSUME NEW d \in DirWatches,
             Event(d) \/ setError(d) \/ Terminate(d) \/ notify(d) \/ notifyError(d)
      PROVE  IInv'
  BY <1>8, BackendStep, QuietStep
<1>9. ASSUME NEW d \in DirWatches, fatal(d) \/ handleWatcherError(d) \/ TakeCallbacks(d)
      PROVE  IInv'
  BY <1>9, FatalStep
<1>10. CASE Loop
  BY <1>10, LoopStep, QuietStep
<1>11. CASE UNCHANGED vars
  <2>1. TypeOK' /\ Quiet
    BY <1>11 DEF vars, registry, latch, queued, errors, history, IInv, TypeOK, Quiet, ToldWarned, Dead
  <2> QED
    BY <2>1, QuietStep
<1> QED
  BY <1>1, <1>2, <1>3, <1>4, <1>5, <1>6, <1>7, <1>8, <1>9, <1>10, <1>11 DEF Next, Backend

\* An open watch that was registered in time and was told of no error is served: its
\* dirWatch is the directory's, the operating system reports to it and the debouncer
\* knows it.
THEOREM OpenServed == Spec => []OpenIsServed
<1>1. IInv => OpenIsServed
  <2> SUFFICES ASSUME IInv, NEW w \in Watches, wpc[w] = "open",
                      w \in callbacks[wdw[w]] \ (warned \union late),
                      wdw[w] \notin err, handling[wdw[w]] = "no"
               PROVE  wdw[w] = cur /\ wdw[w] \in live /\ wdw[w] \in added
    BY DEF IInv, OpenIsServed
  <2>1. wdw[w] \in DirWatches
    BY DEF IInv, MakersKnown
  <2>2. InTime(wdw[w], w)
    BY <2>1 DEF IInv, Timely
  <2> QED
    BY <2>1, <2>2, NilAssumption DEF IInv, InTime, Dead, AddedIsCur, DirWatches
<1> QED
  BY <1>1, InitIInv, NextIInv, PTL DEF Spec

\* What no watch uses is given back, unless the last watch was rolled back or its
\* callback was taken by a fatal error.
THEOREM ClosedLeaveNothing == Spec => []NothingLeft
<1>1. IInv => NothingLeft
  BY DEF IInv
<1> QED
  BY <1>1, InitIInv, NextIInv, PTL DEF Spec
=============================================================================
