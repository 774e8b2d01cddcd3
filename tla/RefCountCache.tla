--------------------------- MODULE RefCountCache ---------------------------
(***************************************************************************)
(* The reference-counted cache of parsed files, internal/project/          *)
(* refcountcache.go, for one key (entries of different keys are            *)
(* independent).                                                           *)
(*                                                                         *)
(* The map is a concurrent map: a load, a load-or-store and a delete are   *)
(* each one step.  An entry has a mutex, so between finding an entry and   *)
(* locking it others may release it and take it out of the map; and Deref  *)
(* knows its entry by key only.                                            *)
(*                                                                         *)
(* The actors are client references.  A program that parses a file         *)
(* acquires one (compilerhost.go); a program cloned from another one takes *)
(* one more with Ref while the other program is alive (project.go); both   *)
(* give it back with Deref (snapshot.go).  RefCountCacheOptions'           *)
(* DisableDeletion, a testing aid, is off.                                 *)
(***************************************************************************)
EXTENDS Integers, FiniteSets

CONSTANTS
    Refs,      \* client references
    Objs,      \* identities of entries; a produced value is named after its entry
    Nil

ASSUME RefsFinite == IsFiniteSet(Refs)
ASSUME NilDistinct == Nil \notin Refs /\ Nil \notin Objs

VARIABLES
    entry,       \* entries[key], or Nil
    refCount,    \* entry |-> its reference count
    mu,          \* entry |-> the reference whose operation has it locked, or Nil
    value,       \* entry |-> its value, Nil until it is produced
    pc,          \* reference |-> control point
    ent,         \* reference |-> the entry it has found; while held, the one it counts in
    got,         \* reference |-> the value it was given
    lender       \* reference |-> the one it is cloned from, or Nil

vars == <<entry, refCount, mu, value, pc, ent, got, lender>>

(***************************************************************************)
(*   "none"     not a reference                                            *)
(*   "store"    in loadOrStoreNewLockedEntry, before LoadOrStore           *)
(*   "lock"     found an entry, waits for its mutex                        *)
(*   "produce"  stored its own entry and produces the value, mutex held    *)
(*   "held"     has the value                                              *)
(*   "ref"      in Ref, waits for the mutex                                *)
(*   "deref"    in Deref, waits for the mutex                              *)
(***************************************************************************)
PCs == {"none", "store", "lock", "produce", "held", "ref", "deref"}

Init ==
    /\ entry = Nil
    /\ refCount = [e \in Objs |-> 0]
    /\ mu = [e \in Objs |-> Nil]
    /\ value = [e \in Objs |-> Nil]
    /\ pc = [r \in Refs |-> "none"]
    /\ ent = [r \in Refs |-> Nil]
    /\ got = [r \in Refs |-> Nil]
    /\ lender = [r \in Refs |-> Nil]

Goto(r, l, e, v) ==
    /\ pc' = [pc EXCEPT ![r] = l]
    /\ ent' = [ent EXCEPT ![r] = e]
    /\ got' = [got EXCEPT ![r] = v]

\* An allocated entry is one nobody refers to.
Fresh(e) ==
    /\ e # entry
    /\ \A r \in Refs : ent[r] # e /\ got[r] # e

------------------------------------------------------------------------------
(* Acquire and AcquireOrError *)

Acquire(r) ==
    /\ pc[r] = "none"
    /\ Goto(r, "store", Nil, Nil)
    /\ UNCHANGED <<entry, refCount, mu, value, lender>>

\* Mutant of StoreNew: Store in place of LoadOrStore.
StoreOver(r) ==
    /\ pc[r] = "store"
    /\ \E e \in Objs :
         /\ Fresh(e)
         /\ entry' = e
         /\ refCount' = [refCount EXCEPT ![e] = 1]
         /\ mu' = [mu EXCEPT ![e] = r]
         /\ value' = [value EXCEPT ![e] = Nil]
         /\ Goto(r, "produce", e, Nil)
    /\ UNCHANGED lender

\* LoadOrStore stores the new entry: locked, with a count of one.
StoreNew(r) ==
    /\ pc[r] = "store"
    /\ entry = Nil
    /\ \E e \in Objs :
         /\ Fresh(e)
         /\ entry' = e
         /\ refCount' = [refCount EXCEPT ![e] = 1]
         /\ mu' = [mu EXCEPT ![e] = r]
         /\ value' = [value EXCEPT ![e] = Nil]
         /\ Goto(r, "produce", e, Nil)
    /\ UNCHANGED lender

\* LoadOrStore finds an entry.
LoadExisting(r) ==
    /\ pc[r] = "store"
    /\ entry # Nil
    /\ Goto(r, "lock", entry, Nil)
    /\ UNCHANGED <<entry, refCount, mu, value, lender>>

Unlocked(r) == mu[ent[r]] = Nil

\* Mutant of LockLive: does not look whether the entry was released meanwhile.
LockAny(r) ==
    /\ pc[r] = "lock" /\ Unlocked(r)
    /\ refCount' = [refCount EXCEPT ![ent[r]] = @ + 1]
    /\ Goto(r, "held", ent[r], value[ent[r]])
    /\ UNCHANGED <<entry, mu, value, lender>>

\* The entry found is alive: count, and return its value.
LockLive(r) ==
    /\ pc[r] = "lock" /\ Unlocked(r)
    /\ refCount[ent[r]] > 0
    /\ refCount' = [refCount EXCEPT ![ent[r]] = @ + 1]
    /\ Goto(r, "held", ent[r], value[ent[r]])
    /\ UNCHANGED <<entry, mu, value, lender>>

\* The entry was released while waiting for its mutex: start again.
LockDead(r) ==
    /\ pc[r] = "lock" /\ Unlocked(r)
    /\ refCount[ent[r]] <= 0
    /\ Goto(r, "store", Nil, Nil)
    /\ UNCHANGED <<entry, refCount, mu, value, lender>>

ProduceValue(r) ==
    /\ pc[r] = "produce"
    /\ value' = [value EXCEPT ![ent[r]] = ent[r]]
    /\ mu' = [mu EXCEPT ![ent[r]] = Nil]
    /\ Goto(r, "held", ent[r], ent[r])
    /\ UNCHANGED <<entry, refCount, lender>>

\* Mutant of ProduceError: the entry is not deleted.
ProduceErrorKeeps(r) ==
    /\ pc[r] = "produce"
    /\ refCount' = [refCount EXCEPT ![ent[r]] = 0]
    /\ mu' = [mu EXCEPT ![ent[r]] = Nil]
    /\ Goto(r, "none", Nil, Nil)
    /\ UNCHANGED <<entry, value, lender>>

\* produce returns an error (AcquireOrError only): the entry is undone.
ProduceError(r) ==
    /\ pc[r] = "produce"
    /\ refCount' = [refCount EXCEPT ![ent[r]] = 0]
    /\ entry' = Nil
    /\ mu' = [mu EXCEPT ![ent[r]] = Nil]
    /\ Goto(r, "none", Nil, Nil)
    /\ UNCHANGED <<value, lender>>

------------------------------------------------------------------------------
(* Ref and Deref *)

\* A program is cloned from the one that owns s, which stays alive meanwhile.
Ref(r, s) ==
    /\ pc[r] = "none" /\ pc[s] = "held"
    /\ entry # Nil
    /\ lender' = [lender EXCEPT ![r] = s]
    /\ Goto(r, "ref", entry, Nil)
    /\ UNCHANGED <<entry, refCount, mu, value>>

\* Ref would panic: "cache entry not found".
RefPanics(s) == pc[s] = "held" /\ entry = Nil

RefLock(r) ==
    /\ pc[r] = "ref" /\ Unlocked(r)
    /\ refCount[ent[r]] > 0
    /\ refCount' = [refCount EXCEPT ![ent[r]] = @ + 1]
    /\ Goto(r, "held", ent[r], got[lender[r]])
    /\ lender' = [lender EXCEPT ![r] = Nil]
    /\ UNCHANGED <<entry, mu, value>>

\* Ref would find its entry released, and copy the value into another entry.
RefFindsDead(r) == pc[r] = "ref" /\ Unlocked(r) /\ refCount[ent[r]] <= 0

\* The owner is disposed of: not while a clone of it is being made.
Deref(r) ==
    /\ pc[r] = "held"
    /\ \A s \in Refs : lender[s] # r
    /\ entry # Nil
    /\ Goto(r, "deref", entry, Nil)
    /\ UNCHANGED <<entry, refCount, mu, value, lender>>

\* Deref would return without releasing anything.
DerefMisses(r) == pc[r] = "held" /\ entry = Nil

\* Mutant of DerefLock: deletes when one other reference is left.
DerefLockEarly(r) ==
    /\ pc[r] = "deref" /\ Unlocked(r)
    /\ refCount' = [refCount EXCEPT ![ent[r]] = @ - 1]
    /\ entry' = IF refCount[ent[r]] <= 2 THEN Nil ELSE entry
    /\ Goto(r, "none", Nil, Nil)
    /\ UNCHANGED <<mu, value, lender>>

\* The entry is deleted by key.
DerefLock(r) ==
    /\ pc[r] = "deref" /\ Unlocked(r)
    /\ refCount' = [refCount EXCEPT ![ent[r]] = @ - 1]
    /\ entry' = IF refCount[ent[r]] <= 1 THEN Nil ELSE entry
    /\ Goto(r, "none", Nil, Nil)
    /\ UNCHANGED <<mu, value, lender>>

------------------------------------------------------------------------------
AcquireStep(r) ==
    \/ StoreNew(r) \/ LoadExisting(r) \/ LockLive(r) \/ LockDead(r)
    \/ ProduceValue(r) \/ ProduceError(r)

Next ==
    \E r \in Refs :
        \/ Acquire(r) \/ AcquireStep(r)
        \/ \E s \in Refs : Ref(r, s)
        \/ RefLock(r) \/ Deref(r) \/ DerefLock(r)

Spec == Init /\ [][Next]_vars

------------------------------------------------------------------------------
(* Properties *)

\* Type invariant: the shape of every variable.
TypeOK ==
    /\ entry \in Objs \union {Nil}
    /\ refCount \in [Objs -> Nat]
    /\ mu \in [Objs -> Refs \union {Nil}]
    /\ value \in [Objs -> Objs \union {Nil}]
    /\ pc \in [Refs -> PCs]
    /\ ent \in [Refs -> Objs \union {Nil}]
    /\ got \in [Refs -> Objs \union {Nil}]
    /\ lender \in [Refs -> Refs \union {Nil}]

Counting == {r \in Refs : pc[r] \in {"produce", "held", "deref"}}

\* The entry in the map counts exactly the references there are, and there is an
\* entry as long as there are any, although Deref and a failed production delete
\* by key.
CountExact ==
    IF Counting = {} THEN entry = Nil
    ELSE entry # Nil /\ refCount[entry] = Cardinality(Counting)

\* A reference lives: Ref and Deref of an owner find the entry they mean, so Ref
\* neither panics nor revives an entry and Deref never gives up silently.
OwnersFindEntry ==
    \A r \in Refs :
        /\ ~RefPanics(r) /\ ~DerefMisses(r) /\ ~RefFindsDead(r)
        /\ pc[r] = "deref" => ent[r] = entry

Abstract == INSTANCE SharedValue

\* The cache implements SharedValue: all programs that hold the file at a time hold
\* one and the same parsed file, so that source files can be compared by identity.
SharesOneValue == Abstract!Spec
=============================================================================
