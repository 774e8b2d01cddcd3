----------------------------- MODULE OverlayMap -----------------------------
(***************************************************************************)
(* What dirty.SyncMap promises the goroutines that build a snapshot: a map *)
(* laid over the base map of the old snapshot, to which every operation    *)
(* of a goroutine happens exactly once, at one moment between its call and *)
(* its return.  A value is the number of changes each goroutine has made   *)
(* to it; a deleted key stays deleted.                                     *)
(***************************************************************************)
EXTENDS Naturals

CONSTANTS Procs, Keys, Base, Nil, Absent, Deleted

VARIABLES m,          \* key |-> its value, Absent or Deleted
          pending,    \* goroutine |-> the operation it has called, or Nil
          published   \* the finished map and whether it is new, or Nil

Zero == [p \in Procs |-> 0]

Init ==
    /\ m = [k \in Keys |-> IF k \in Base THEN Zero ELSE Absent]
    /\ pending = [p \in Procs |-> Nil]
    /\ published = Nil

Add(k) ==
    /\ published = Nil /\ m[k] = Absent
    /\ m' = [m EXCEPT ![k] = Zero]
    /\ UNCHANGED <<pending, published>>

Invoke(p) ==
    /\ published = Nil /\ pending[p] = Nil
    /\ \E op \in {"change", "changeIf", "delete", "deleteLocked"}, k \in Keys :
         pending' = [pending EXCEPT ![p] = [op |-> op, key |-> k]]
    /\ UNCHANGED <<m, published>>

Changed(p, k) ==
    m' = IF m[k] \in {Absent, Deleted} THEN m ELSE [m EXCEPT ![k][p] = @ + 1]

\* A change under the condition "nobody has changed it" must be made when the
\* condition holds, and may be made when it held for the base value.
Do(p) ==
    /\ pending[p] # Nil
    /\ LET k == pending[p].key
           op == pending[p].op
       IN  \/ op = "change" /\ Changed(p, k)
           \/ op = "changeIf" /\ Changed(p, k)
           \/ op = "changeIf" /\ m[k] # Zero /\ UNCHANGED m
           \/ op \in {"delete", "deleteLocked"} /\ m' = [m EXCEPT ![k] = Deleted]
    /\ pending' = [pending EXCEPT ![p] = Nil]
    /\ UNCHANGED published

\* The result is the map without its tombstones; the base map is handed on as it
\* is only when it is the result.
Publish ==
    /\ published = Nil /\ \A p \in Procs : pending[p] = Nil
    /\ LET kept == {k \in Keys : m[k] \notin {Absent, Deleted}}
           result == [k \in kept |-> m[k]]
       IN  \E new \in BOOLEAN :
             /\ new \/ result = [k \in Base |-> Zero]
             /\ published' = [result |-> result, changed |-> new]
    /\ UNCHANGED <<m, pending>>

Next ==
    \/ \E k \in Keys : Add(k)
    \/ \E p \in Procs : Invoke(p) \/ Do(p)
    \/ Publish

Spec == Init /\ [][Next]_<<m, pending, published>>
=============================================================================
