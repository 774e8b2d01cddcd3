------------------------------ MODULE DirtyMap ------------------------------
(***************************************************************************)
(* project/dirty/syncmap.go: the copy-on-write map in which the goroutines *)
(* that build a snapshot change the values of the old one.  A goroutine    *)
(* changes a value through an entry; an entry of a base value is private   *)
(* until its first change stores it in the dirty map.  The entry that      *)
(* loses that race becomes a proxy of the one that won.                    *)
(*                                                                         *)
(* Objects are the base values (named by their keys) and the copies (named *)
(* by the entry that made them).  An object counts the changes each        *)
(* goroutine has made to it.                                               *)
(***************************************************************************)
EXTENDS Naturals, FiniteSets

CONSTANTS Procs, Keys, Base, Entries, Nil, Absent, Deleted,
          Ops,            \* the operations the goroutines call
          MaxChanges,     \* bound on the changes of one goroutine
          RacingDeletes   \* whether Delete is called while others use the key

ASSUME OpsAssumption == Ops \subseteq {"change", "changeIf", "delete", "deleteLocked"}
ASSUME BaseAssumption == Base \subseteq Keys
ASSUME NamesAssumption ==
    /\ Keys \intersect Entries = {} /\ Nil \notin Procs \union Keys \union Entries \union Ops
ASSUME NilAssumption == Nil # "delete" /\ Nil \notin [op : Ops, key : Keys]
ASSUME ValuesAssumption == Absent # Deleted /\ {Absent, Deleted} \intersect [Procs -> Nat] = {}
ASSUME BoundsAssumption == MaxChanges \in Nat /\ RacingDeletes \in BOOLEAN

VARIABLES
    heap,     \* object |-> goroutine |-> the number of its changes
    entry,    \* entry |-> its fields (syncmap.go 46-55, entry.go 3-9)
    dirty,    \* SyncMap.dirty: key |-> entry or Nil
    mu,       \* entry |-> the goroutine that holds its mutex, or Nil
    hnd,      \* goroutine |-> the entry it works with, or Nil
    call,     \* goroutine |-> the operation it is in, or Nil
    at,       \* goroutine |-> the entry whose mutex it takes next
    pc,       \* goroutine |-> "idle", "enter", "won", "lost"
    changes,  \* goroutine |-> the changes it has called so far
    final     \* what Finalize returned, or Nil

vars == <<heap, entry, dirty, mu, hnd, call, at, pc, changes, final>>

Zero == [p \in Procs |-> 0]

NoEntry == [key |-> Nil, value |-> Nil, dirty |-> FALSE, del |-> FALSE, proxyFor |-> Nil]

Init ==
    /\ heap = [o \in Keys \union Entries |-> Zero]
    /\ entry = [e \in Entries |-> NoEntry]
    /\ dirty = [k \in Keys |-> Nil]
    /\ mu = [e \in Entries |-> Nil]
    /\ hnd = [p \in Procs |-> Nil]
    /\ call = [p \in Procs |-> Nil]
    /\ at = [p \in Procs |-> Nil]
    /\ pc = [p \in Procs |-> "idle"]
    /\ changes = [p \in Procs |-> 0]
    /\ final = Nil

-----------------------------------------------------------------------------
(* Getting an entry. *)

\* Entries nobody can reach any more.
Free == {e \in Entries : /\ \A p \in Procs : hnd[p] # e
                         /\ \A k \in Keys : dirty[k] # e}

Key(p) == entry[hnd[p]].key

\* The builders call Delete in their sequential phases, with an entry of that phase.
Sequential(p) ==
    /\ \A q \in Procs \ {p} : hnd[q] = Nil
    /\ dirty[Key(p)] \in {Nil, hnd[p], entry[hnd[p]].proxyFor}

Idle(p) ==
    /\ pc[p] = "idle" /\ final = Nil
    /\ RacingDeletes \/ \A q \in Procs : call[q] # "delete"

\* The entry of the dirty map, unless it is deleted; waits for its mutex.
LoadDirty(p, k) ==
    /\ Idle(p) /\ hnd[p] = Nil /\ dirty[k] # Nil
    /\ mu[dirty[k]] = Nil
    /\ ~entry[dirty[k]].del
    /\ hnd' = [hnd EXCEPT ![p] = dirty[k]]
    /\ UNCHANGED <<heap, entry, dirty, mu, call, at, pc, changes, final>>

\* A private entry of the base value.
LoadBase(p, k) ==
    /\ Idle(p) /\ hnd[p] = Nil /\ dirty[k] = Nil /\ k \in Base
    /\ \E e \in Free :
         /\ entry' = [entry EXCEPT ![e] = [NoEntry EXCEPT !.key = k, !.value = k]]
         /\ hnd' = [hnd EXCEPT ![p] = e]
    /\ UNCHANGED <<heap, dirty, mu, call, at, pc, changes, final>>

\* LoadOrStore of a key the base map does not have stores a dirty entry.
StoreNew(p, k) ==
    /\ Idle(p) /\ hnd[p] = Nil /\ dirty[k] = Nil /\ k \notin Base
    /\ \E e \in Free :
         /\ entry' = [entry EXCEPT ![e] =
                        [NoEntry EXCEPT !.key = k, !.value = e, !.dirty = TRUE]]
         /\ heap' = [heap EXCEPT ![e] = Zero]
         /\ dirty' = [dirty EXCEPT ![k] = e]
         /\ hnd' = [hnd EXCEPT ![p] = e]
    /\ UNCHANGED <<mu, call, at, pc, changes, final>>

\* The goroutine is done with its entry.
Forget(p) ==
    /\ Idle(p) /\ hnd[p] # Nil
    /\ hnd' = [hnd EXCEPT ![p] = Nil]
    /\ UNCHANGED <<heap, entry, dirty, mu, call, at, pc, changes, final>>

-----------------------------------------------------------------------------
(* Operations on an entry.                                                 *)

Call(p, op) ==
    /\ Idle(p) /\ hnd[p] # Nil /\ op \in Ops
    /\ op = "delete" => RacingDeletes \/ Sequential(p)
    /\ changes[p] < MaxChanges
    /\ changes' = [changes EXCEPT ![p] = @ + 1]
    /\ call' = [call EXCEPT ![p] = op]
    /\ at' = [at EXCEPT ![p] = hnd[p]]
    /\ pc' = [pc EXCEPT ![p] = "enter"]
    /\ UNCHANGED <<heap, entry, dirty, mu, hnd, final>>

\* All the mutexes p holds, released when its call returns.
Released(p) == [e \in Entries |-> IF mu[e] = p THEN Nil ELSE mu[e]]

Deletes(p) == call[p] \in {"delete", "deleteLocked"}

\* The call returns; the goroutine keeps no entry it has deleted.
Return(p) ==
    /\ mu' = Released(p)
    /\ call' = [call EXCEPT ![p] = Nil]
    /\ at' = [at EXCEPT ![p] = Nil]
    /\ pc' = [pc EXCEPT ![p] = "idle"]
    /\ hnd' = [hnd EXCEPT ![p] = IF Deletes(p) THEN Nil ELSE @]
    /\ UNCHANGED <<changes, final>>

\* The condition of ChangeIf is looked at in the entry itself.
Declined(p, e) == call[p] = "changeIf" /\ (entry[e].del \/ heap[entry[e].value] # Zero)

Marked(e) == [entry EXCEPT ![e].del = TRUE]

Applied(p, o) == [heap EXCEPT ![o][p] = @ + 1]

\* The callers lock the mutex of the entry and are sent on by a proxy.
Forward(p) ==
    /\ pc[p] = "enter" /\ mu[at[p]] = Nil
    /\ entry[at[p]].proxyFor # Nil
    /\ mu' = [mu EXCEPT ![at[p]] = p]
    /\ at' = [at EXCEPT ![p] = entry[at[p]].proxyFor]
    /\ UNCHANGED <<heap, entry, dirty, hnd, call, pc, changes, final>>

\* An entry that is dirty is changed, or marked, in place.
InPlace(p) ==
    LET e == at[p] IN
    /\ pc[p] = "enter" /\ mu[e] = Nil
    /\ entry[e].proxyFor = Nil
    /\ \/ Declined(p, e) /\ UNCHANGED <<heap, entry>>
       \/ /\ ~Declined(p, e) /\ entry[e].dirty /\ ~Deletes(p)
          /\ heap' = Applied(p, entry[e].value) /\ UNCHANGED entry
       \/ entry[e].dirty /\ Deletes(p) /\ entry' = Marked(e) /\ UNCHANGED heap
    /\ Return(p)
    /\ UNCHANGED dirty

\* Any other entry is offered to the dirty map.
Offer(p) ==
    LET e == at[p]
        k == entry[e].key
    IN
    /\ pc[p] = "enter" /\ mu[e] = Nil
    /\ entry[e].proxyFor = Nil /\ ~entry[e].dirty /\ ~Declined(p, e)
    /\ mu' = [mu EXCEPT ![e] = p]
    /\ IF dirty[k] = Nil
       THEN /\ dirty' = [dirty EXCEPT ![k] = e]
            /\ pc' = [pc EXCEPT ![p] = "won"]
       ELSE /\ pc' = [pc EXCEPT ![p] = "lost"]
            /\ UNCHANGED dirty
    /\ UNCHANGED <<heap, entry, hnd, call, at, changes, final>>

\* The copy an entry makes of its value before it is changed, if it has none yet.
Copied(w) == IF entry[w].dirty THEN heap ELSE [heap EXCEPT ![w] = heap[entry[w].value]]

\* Mutant: the value is changed without being copied.
CopyOfNone(w) == entry[w].value

CopyOf(w) == IF entry[w].dirty THEN entry[w].value ELSE w

Won(p) ==
    LET e == at[p] IN
    /\ pc[p] = "won"
    /\ IF Deletes(p)
       THEN entry' = Marked(e) /\ UNCHANGED heap
       ELSE /\ entry' = [entry EXCEPT ![e].value = CopyOf(e), ![e].dirty = TRUE]
            /\ heap' = [Copied(e) EXCEPT ![CopyOf(e)][p] = @ + 1]
    /\ Return(p)
    /\ UNCHANGED dirty

\* Mutant: the loser does not become a proxy of the winner.
ChangeThroughOnce(p, e, w) ==
    /\ entry' = [entry EXCEPT ![w].value = CopyOf(w), ![w].dirty = TRUE,
                              ![e].value = CopyOf(w), ![e].dirty = TRUE]
    /\ heap' = [Copied(w) EXCEPT ![CopyOf(w)][p] = @ + 1]

\* changeLocked of an entry e that lost: the winner w is changed, e follows it.
ChangeThrough(p, e, w) ==
    /\ entry' = [entry EXCEPT ![w].value = CopyOf(w), ![w].dirty = TRUE,
                              ![e].value = CopyOf(w), ![e].dirty = TRUE,
                              ![e].proxyFor = w, ![e].del = entry[w].del]
    /\ heap' = [Copied(w) EXCEPT ![CopyOf(w)][p] = @ + 1]

\* Delete of an entry that lost marks that entry only.
DeleteSelf(p, e, w) == entry' = Marked(e) /\ UNCHANGED heap

\* deleteLocked of an entry that lost.
DeleteThrough(p, e, w) ==
    /\ entry' = [entry EXCEPT ![w].del = TRUE,
                              ![e].value = entry[w].value, ![e].dirty = entry[w].dirty,
                              ![e].proxyFor = w, ![e].del = TRUE]
    /\ UNCHANGED heap

\* The loser waits for the mutex of the winner.
Lost(p) ==
    LET e == at[p]
        w == dirty[entry[e].key]
    IN
    /\ pc[p] = "lost" /\ mu[w] = Nil
    /\ CASE call[p] = "delete" -> DeleteSelf(p, e, w)
         [] call[p] = "deleteLocked" -> DeleteThrough(p, e, w)
         [] OTHER -> ChangeThrough(p, e, w)
    /\ Return(p)
    /\ UNCHANGED dirty

-----------------------------------------------------------------------------
(* Finalization, when all goroutines are done. *)

\* The keys of the finished map and their values.
Result ==
    LET gone == {k \in Keys : dirty[k] # Nil /\ entry[dirty[k]].del}
        fresh == {k \in Keys \ gone : dirty[k] # Nil /\ entry[dirty[k]].dirty}
    IN  [result  |-> [k \in (Base \ gone) \union fresh |->
                        heap[IF k \in fresh THEN entry[dirty[k]].value ELSE k]],
         changed |-> gone \union fresh # {}]

Finalize ==
    /\ final = Nil /\ \A p \in Procs : pc[p] = "idle"
    /\ final' = Result
    /\ hnd' = [p \in Procs |-> Nil]
    /\ UNCHANGED <<heap, entry, dirty, mu, call, at, pc, changes>>

Finished == final # Nil /\ UNCHANGED vars

Next ==
    \/ \E p \in Procs, k \in Keys : LoadDirty(p, k) \/ LoadBase(p, k) \/ StoreNew(p, k)
    \/ \E p \in Procs, op \in Ops : Call(p, op)
    \/ \E p \in Procs : \/ Forget(p) \/ Forward(p) \/ InPlace(p)
                        \/ Offer(p) \/ Won(p) \/ Lost(p)
    \/ Finalize
    \/ Finished

Spec == Init /\ [][Next]_vars

-----------------------------------------------------------------------------
\* The value the dirty map has for a key.
Overlay(k) ==
    CASE dirty[k] # Nil /\ entry[dirty[k]].del -> Deleted
      [] dirty[k] # Nil /\ ~entry[dirty[k]].del -> heap[entry[dirty[k]].value]
      [] dirty[k] = Nil /\ k \in Base -> Zero
      [] OTHER -> Absent

Abstract ==
    INSTANCE OverlayMap WITH
        m <- [k \in Keys |-> Overlay(k)],
        pending <- [p \in Procs |-> IF call[p] = Nil THEN Nil
                                    ELSE [op |-> call[p], key |-> Key(p)]],
        published <- final

\* SyncMap implements OverlayMap: with any number of entries of one value in any
\* number of hands, every change and deletion happens exactly once to the one value
\* that Finalize publishes, and none is made to a private copy that nobody sees.
Implements == Abstract!Spec

\* The values of the old snapshot, which others still read, are never written:
\* an entry copies its value before it changes it.
BaseUntouched == \A k \in Keys : heap[k] = Zero

TypeOK ==
    /\ heap \in [Keys \union Entries -> [Procs -> 0..MaxChanges]]
    /\ entry \in [Entries -> [key : Keys \union {Nil}, value : Keys \union Entries \union {Nil},
                              dirty : BOOLEAN, del : BOOLEAN, proxyFor : Entries \union {Nil}]]
    /\ dirty \in [Keys -> Entries \union {Nil}]
    /\ mu \in [Entries -> Procs \union {Nil}]
    /\ hnd \in [Procs -> Entries \union {Nil}]
    /\ at \in [Procs -> Entries \union {Nil}]
    /\ call \in [Procs -> Ops \union {Nil}]
    /\ pc \in [Procs -> {"idle", "enter", "won", "lost"}]
    /\ changes \in [Procs -> 0..MaxChanges]

\* The variables have their types, and whoever has made a change sees what is
\* published: the entry of a goroutine that is dirty, or a proxy, leads to the dirty
\* map's entry, whoever changes that since (Value, syncmap.go 57-72).
HandlesAgree ==
    /\ TypeOK
    /\ \A p \in Procs : hnd[p] # Nil /\ (entry[hnd[p]].dirty \/ entry[hnd[p]].proxyFor # Nil) =>
           LET w == dirty[Key(p)] IN
           /\ w # Nil
           /\ hnd[p] = w \/ (entry[hnd[p]].proxyFor = w /\ entry[w].proxyFor = Nil)

\* ReloadOnce: a value that is changed on the condition that nobody has changed it
\* yet (a file that needs to be read again, snapshotfs.go 434-437) is changed once.
ReloadOnce ==
    \A o \in Keys \union Entries : Cardinality({p \in Procs : heap[o][p] > 0}) <= 1
=============================================================================
