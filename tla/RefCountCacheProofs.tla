------------------------ MODULE RefCountCacheProofs ------------------------
(***************************************************************************)
(* Proofs about RefCountCache, for any number of references.               *)
(***************************************************************************)
EXTENDS RefCountCache, FiniteSetTheorems, TLAPS

\* An entry is locked across steps only while its value is produced.
LockedByProducer ==
    /\ \A r \in Refs : pc[r] = "produce" => mu[ent[r]] = r
    /\ \A e \in Objs : mu[e] # Nil => pc[mu[e]] = "produce" /\ ent[mu[e]] = e

\* Whoever is counted is counted in the entry that is in the map.
CountedInEntry == \A r \in Counting : ent[r] = entry

\* A producer is alone: everybody else waits for its mutex.
ProducerAlone == \A r \in Refs : pc[r] = "produce" => Counting = {r}

\* A waiter has an entry, and it is the one in the map or a dead one.
WaitersKnow ==
    \A r \in Refs : pc[r] = "lock" =>
        /\ ent[r] # Nil
        /\ ent[r] # entry => refCount[ent[r]] = 0

\* A clone is made from a live reference, of the entry in the map.
LenderHolds ==
    \A r \in Refs :
        /\ lender[r] # Nil => pc[lender[r]] = "held"
        /\ pc[r] = "ref" => lender[r] # Nil /\ ent[r] = entry

\* The value is there once the mutex is free, and the holders have it.
ValueThere ==
    /\ entry # Nil /\ mu[entry] = Nil => value[entry] = entry
    /\ \A r \in Refs : got[r] = IF pc[r] = "held" THEN entry ELSE Nil

IInv ==
    /\ TypeOK /\ CountExact /\ LockedByProducer /\ CountedInEntry /\ ProducerAlone
    /\ WaitersKnow /\ LenderHolds /\ ValueThere

------------------------------------------------------------------------------
\* The set of counted references is finite.
LEMMA CountingFinite == IsFiniteSet(Counting) /\ Cardinality(Counting) \in Nat
<1>1. Counting \subseteq Refs
  BY DEF Counting
<1> QED
  BY <1>1, RefsFinite, FS_Subset, FS_CardinalityType

\* An entry in the map counts at least one reference.
LEMMA EntryCounts ==
  ASSUME IInv, entry # Nil
  PROVE  Counting # {} /\ refCount[entry] = Cardinality(Counting) /\ refCount[entry] > 0
<1>1. Counting # {}
  BY DEF IInv, CountExact
<1>2. Cardinality(Counting) # 0
  BY <1>1, CountingFinite, FS_EmptySet
<1> QED
  BY <1>1, <1>2, CountingFinite DEF IInv, CountExact

\* A clone, and an owner that is being released, refer to a live entry.
LEMMA OwnersLive ==
  ASSUME IInv, NEW r \in Refs, pc[r] \in {"held", "ref", "deref"}
  PROVE  entry # Nil /\ (pc[r] # "held" => ent[r] = entry)
<1>1. CASE pc[r] = "ref"
  <2>1. lender[r] \in Refs /\ pc[lender[r]] = "held"
    BY <1>1, NilDistinct DEF IInv, LenderHolds, TypeOK
  <2>2. Counting # {}
    BY <2>1 DEF Counting
  <2> QED
    BY <1>1, <2>2 DEF IInv, CountExact, LenderHolds
<1>2. CASE pc[r] # "ref"
  <2>1. r \in Counting
    BY <1>2 DEF Counting
  <2> QED
    BY <2>1, <1>2 DEF IInv, CountExact, CountedInEntry
<1> QED
  BY <1>1, <1>2

\* The inductive invariant holds of an empty cache.
LEMMA InitIInv == Init => IInv
<1> SUFFICES ASSUME Init PROVE IInv
  OBVIOUS
<1>1. Counting = {}
  BY DEF Init, Counting
<1>2. TypeOK
  BY NilDistinct DEF Init, TypeOK, PCs
<1> QED
  BY <1>1, <1>2, NilDistinct DEF Init, IInv, CountExact, LockedByProducer, CountedInEntry,
     ProducerAlone, WaitersKnow, LenderHolds, ValueThere

\* Steps that count nobody and change no entry: they move one reference that is
\* not counted.
LEMMA QuietStep ==
  ASSUME IInv, NEW r \in Refs, Acquire(r) \/ LoadExisting(r) \/ LockDead(r)
  PROVE  IInv'
<1>1. pc[r] \in {"none", "store", "lock"} /\ pc'[r] \in {"store", "lock"}
  BY DEF Acquire, LoadExisting, LockDead, Goto, IInv, TypeOK
<1>2. TypeOK'
  BY DEF IInv, TypeOK, PCs, Acquire, LoadExisting, LockDead, Goto
<1>3. Counting' = Counting
  BY <1>1 DEF Counting, Acquire, LoadExisting, LockDead, Goto, IInv, TypeOK
<1>4. /\ UNCHANGED <<entry, refCount, mu, value, lender>>
      /\ \A s \in Refs \ {r} : UNCHANGED <<pc[s], ent[s], got[s]>>
  BY DEF Acquire, LoadExisting, LockDead, Goto, IInv, TypeOK
<1>5. got'[r] = Nil /\ (pc'[r] = "lock" => ent'[r] = entry /\ entry # Nil)
  BY DEF Acquire, LoadExisting, LockDead, Goto, IInv, TypeOK
<1>6. CountExact' /\ CountedInEntry' /\ ProducerAlone'
  BY <1>1, <1>3, <1>4 DEF IInv, CountExact, CountedInEntry, ProducerAlone, Counting
<1>7. LockedByProducer'
  BY <1>1, <1>4, NilDistinct DEF IInv, LockedByProducer, TypeOK
<1>8. WaitersKnow' /\ LenderHolds'
  BY <1>1, <1>4, <1>5, NilDistinct DEF IInv, WaitersKnow, LenderHolds, TypeOK
<1>9. ValueThere'
  BY <1>1, <1>4, <1>5 DEF IInv, ValueThere
<1> QED
  BY <1>2, <1>6, <1>7, <1>8, <1>9 DEF IInv

\* A new entry starts with the one reference that made it.
LEMMA StoreNewStep ==
  ASSUME IInv, NEW r \in Refs, StoreNew(r)
  PROVE  IInv'
<1>1. PICK e \in Objs :
        /\ Fresh(e) /\ entry' = e /\ refCount' = [refCount EXCEPT ![e] = 1]
        /\ mu' = [mu EXCEPT ![e] = r] /\ value' = [value EXCEPT ![e] = Nil]
        /\ Goto(r, "produce", e, Nil)
  BY DEF StoreNew
<1>2. pc[r] = "store" /\ entry = Nil /\ lender' = lender
  BY DEF StoreNew
<1>3. Counting = {}
  BY <1>2, EntryCounts DEF IInv, CountExact
<1>4. \A s \in Refs \ {r} : UNCHANGED <<pc[s], ent[s], got[s]>>
  BY <1>1 DEF Goto, IInv, TypeOK
<1>5. pc'[r] = "produce" /\ ent'[r] = e /\ got'[r] = Nil
  BY <1>1 DEF Goto, IInv, TypeOK
<1>6. Counting' = {r}
  BY <1>3, <1>4, <1>5 DEF Counting
<1>7. TypeOK'
  BY <1>1, <1>2 DEF IInv, TypeOK, PCs, Goto
<1>8. CountExact'
  BY <1>1, <1>6, FS_Singleton, NilDistinct DEF CountExact, IInv, TypeOK
<1>9. LockedByProducer'
  <2>1. \A s \in Refs : pc[s] # "produce"
    BY <1>3 DEF Counting
  <2>2. \A d \in Objs : mu[d] = Nil
    BY <2>1, NilDistinct DEF IInv, LockedByProducer, TypeOK
  <2> QED
    BY <1>1, <1>4, <1>5, <2>1, <2>2 DEF LockedByProducer, IInv, TypeOK
<1>10. CountedInEntry' /\ ProducerAlone'
  BY <1>1, <1>4, <1>5, <1>6, <1>3 DEF CountedInEntry, ProducerAlone, Counting
<1>11. WaitersKnow'
  BY <1>1, <1>2, <1>4, <1>5 DEF IInv, WaitersKnow, Fresh, TypeOK
<1>12. LenderHolds'
  <2>1. \A s \in Refs : pc[s] # "held"
    BY <1>3 DEF Counting
  <2> QED
    BY <2>1, <1>2, <1>4, <1>5, NilDistinct DEF IInv, LenderHolds, TypeOK
<1>13. ValueThere'
  <2>1. \A s \in Refs : pc[s] # "held"
    BY <1>3 DEF Counting
  <2> QED
    BY <2>1, <1>1, <1>4, <1>5, NilDistinct DEF IInv, ValueThere, TypeOK
<1> QED
  BY <1>7, <1>8, <1>9, <1>10, <1>11, <1>12, <1>13 DEF IInv

\* One reference more, in the entry in the map, whose mutex is free.
LEMMA CountStep ==
  ASSUME IInv, NEW r \in Refs, LockLive(r) \/ RefLock(r)
  PROVE  IInv'
<1>1. pc[r] \in {"lock", "ref"} /\ ent[r] = entry /\ entry # Nil
  BY OwnersLive DEF LockLive, RefLock, IInv, WaitersKnow
<1>2. mu[entry] = Nil /\ refCount' = [refCount EXCEPT ![entry] = @ + 1]
  BY <1>1 DEF LockLive, RefLock, Unlocked
<1>3. value[entry] = entry
  BY <1>1, <1>2 DEF IInv, ValueThere
<1>4. UNCHANGED <<entry, mu, value>>
  BY DEF LockLive, RefLock
<1>5. \A s \in Refs \ {r} : UNCHANGED <<pc[s], ent[s], got[s], lender[s]>>
  BY DEF LockLive, RefLock, Goto, IInv, TypeOK
<1>6. got'[r] = entry
  <2>1. CASE LockLive(r)
    BY <2>1, <1>1, <1>3 DEF LockLive, Goto, IInv, TypeOK
  <2>2. CASE RefLock(r)
    <3>1. lender[r] \in Refs /\ pc[lender[r]] = "held"
      BY <2>2, NilDistinct DEF RefLock, IInv, LenderHolds, TypeOK
    <3> QED
      BY <2>2, <3>1 DEF RefLock, Goto, IInv, ValueThere, TypeOK
  <2> QED
    BY <2>1, <2>2
<1>7. pc'[r] = "held" /\ ent'[r] = entry /\ (lender'[r] = Nil \/ (LockLive(r) /\ lender'[r] = lender[r]))
  BY <1>1 DEF LockLive, RefLock, Goto, IInv, TypeOK
<1>8. Counting' = Counting \union {r} /\ r \notin Counting
  BY <1>1, <1>5, <1>7 DEF Counting
<1>9. TypeOK'
  <2>1. refCount' \in [Objs -> Nat]
    BY <1>1, <1>2 DEF IInv, TypeOK
  <2>2. got' \in [Refs -> Objs \union {Nil}]
    BY <1>1, <1>6, <1>5 DEF LockLive, RefLock, Goto, IInv, TypeOK
  <2> QED
    BY <2>1, <2>2, <1>1 DEF LockLive, RefLock, Goto, IInv, TypeOK, PCs
<1>10. CountExact'
  <2>1. Cardinality(Counting') = Cardinality(Counting) + 1
    BY <1>8, CountingFinite, FS_AddElement
  <2> QED
    BY <2>1, <1>1, <1>2, <1>4, <1>8, EntryCounts, CountingFinite DEF CountExact, IInv, TypeOK
<1>11. \A s \in Refs : pc[s] # "produce"
  BY <1>1, <1>2, NilDistinct DEF IInv, LockedByProducer, CountedInEntry, Counting
<1>12. LockedByProducer' /\ ProducerAlone'
  BY <1>4, <1>5, <1>7, <1>11, NilDistinct DEF IInv, LockedByProducer, ProducerAlone, TypeOK
<1>13. CountedInEntry'
  BY <1>4, <1>5, <1>7, <1>8 DEF IInv, CountedInEntry, Counting
<1>14. WaitersKnow'
  BY <1>1, <1>2, <1>4, <1>5, <1>7 DEF IInv, WaitersKnow, TypeOK
<1>15. LenderHolds'
  BY <1>1, <1>4, <1>5, <1>7, NilDistinct DEF IInv, LenderHolds, TypeOK
<1>16. ValueThere'
  BY <1>3, <1>4, <1>5, <1>6, <1>7 DEF IInv, ValueThere
<1> QED
  BY <1>9, <1>10, <1>12, <1>13, <1>14, <1>15, <1>16 DEF IInv
\* The value is produced and the mutex unlocked.
LEMMA ProduceValueStep ==
  ASSUME IInv, NEW r \in Refs, ProduceValue(r)
  PROVE  IInv'
<1>1. pc[r] = "produce" /\ Counting = {r} /\ ent[r] = entry /\ entry # Nil /\ mu[entry] = r
  BY DEF ProduceValue, IInv, ProducerAlone, CountedInEntry, CountExact, LockedByProducer
<1>2. /\ UNCHANGED <<entry, refCount, lender>>
      /\ \A s \in Refs \ {r} : UNCHANGED <<pc[s], ent[s], got[s]>>
  BY DEF ProduceValue, Goto, IInv, TypeOK
<1>3. pc'[r] = "held" /\ ent'[r] = entry /\ got'[r] = entry
  BY <1>1 DEF ProduceValue, Goto, IInv, TypeOK
<1>4. value'[entry] = entry /\ mu' = [mu EXCEPT ![entry] = Nil]
  BY <1>1 DEF ProduceValue, IInv, TypeOK
<1>5. Counting' = Counting
  BY <1>1, <1>2, <1>3 DEF Counting
<1>6. TypeOK'
  BY <1>1 DEF IInv, TypeOK, PCs, ProduceValue, Goto
<1>7. \A s \in Refs : pc[s] \in {"produce", "held", "deref"} => s = r
  BY <1>1 DEF Counting
<1>8. CountExact' /\ CountedInEntry'
  BY <1>2, <1>3, <1>5, <1>7 DEF IInv, CountExact, CountedInEntry, Counting
<1>9. LockedByProducer' /\ ProducerAlone'
  <2>1. \A s \in Refs : pc'[s] # "produce"
    BY <1>2, <1>3, <1>7
  <2>2. \A e \in Objs : mu'[e] = Nil
    BY <1>1, <1>4, <1>7, NilDistinct DEF IInv, LockedByProducer, TypeOK
  <2> QED
    BY <2>1, <2>2 DEF LockedByProducer, ProducerAlone
<1>10. WaitersKnow' /\ LenderHolds'
  BY <1>1, <1>2, <1>3, NilDistinct DEF IInv, WaitersKnow, LenderHolds, TypeOK
<1>11. ValueThere'
  BY <1>2, <1>3, <1>4, <1>7 DEF IInv, ValueThere
<1> QED
  BY <1>6, <1>8, <1>9, <1>10, <1>11 DEF IInv

\* A failed production leaves no entry and no reference; its waiters start again.
LEMMA ProduceErrorStep ==
  ASSUME IInv, NEW r \in Refs, ProduceError(r)
  PROVE  IInv'
<1>1. pc[r] = "produce" /\ Counting = {r} /\ ent[r] = entry /\ entry # Nil /\ mu[entry] = r
  BY DEF ProduceError, IInv, ProducerAlone, CountedInEntry, CountExact, LockedByProducer
<1>2. /\ UNCHANGED <<value, lender>>
      /\ \A s \in Refs \ {r} : UNCHANGED <<pc[s], ent[s], got[s]>>
  BY DEF ProduceError, Goto, IInv, TypeOK
<1>3. pc'[r] = "none" /\ got'[r] = Nil
  BY DEF ProduceError, Goto, IInv, TypeOK
<1>4. /\ entry' = Nil
      /\ refCount' = [refCount EXCEPT ![entry] = 0]
      /\ mu' = [mu EXCEPT ![entry] = Nil]
  BY <1>1 DEF ProduceError
<1>5. \A s \in Refs : pc[s] \in {"produce", "held", "deref"} => s = r
  BY <1>1 DEF Counting
<1>6. Counting' = {}
  BY <1>2, <1>3, <1>5 DEF Counting
<1>7. TypeOK'
  BY <1>1, <1>4 DEF IInv, TypeOK, PCs, ProduceError, Goto
<1>8. CountExact' /\ CountedInEntry'
  BY <1>4, <1>6 DEF CountExact, CountedInEntry
<1>9. LockedByProducer' /\ ProducerAlone'
  <2>1. \A s \in Refs : pc'[s] # "produce"
    BY <1>2, <1>3, <1>5
  <2>2. \A e \in Objs : mu'[e] = Nil
    BY <1>1, <1>4, <1>5, NilDistinct DEF IInv, LockedByProducer, TypeOK
  <2> QED
    BY <2>1, <2>2 DEF LockedByProducer, ProducerAlone
<1>10. WaitersKnow'
  BY <1>1, <1>2, <1>3, <1>4 DEF IInv, WaitersKnow, TypeOK
<1>11. LenderHolds'
  <2>1. \A s \in Refs : lender[s] = Nil
    BY <1>1, <1>5, NilDistinct DEF IInv, LenderHolds, TypeOK
  <2> QED
    BY <2>1, <1>2, <1>3 DEF LenderHolds, IInv
<1>12. ValueThere'
  BY <1>2, <1>3, <1>4, <1>5 DEF IInv, ValueThere
<1> QED
  BY <1>7, <1>8, <1>9, <1>10, <1>11, <1>12 DEF IInv

\* A clone begins.
LEMMA RefStep ==
  ASSUME IInv, NEW r \in Refs, NEW s \in Refs, Ref(r, s)
  PROVE  IInv'
<1>1. pc[r] = "none" /\ pc[s] = "held" /\ entry # Nil
  BY DEF Ref
<1>2. /\ UNCHANGED <<entry, refCount, mu, value>>
      /\ \A t \in Refs \ {r} : UNCHANGED <<pc[t], ent[t], got[t], lender[t]>>
  BY DEF Ref, Goto, IInv, TypeOK
<1>3. pc'[r] = "ref" /\ ent'[r] = entry /\ got'[r] = Nil /\ lender'[r] = s
  BY DEF Ref, Goto, IInv, TypeOK
<1>4. Counting' = Counting
  BY <1>1, <1>2, <1>3 DEF Counting
<1>5. TypeOK'
  BY DEF IInv, TypeOK, PCs, Ref, Goto
<1>6. CountExact' /\ CountedInEntry' /\ ProducerAlone'
  BY <1>1, <1>2, <1>3, <1>4 DEF IInv, CountExact, CountedInEntry, ProducerAlone, Counting
<1>7. LockedByProducer'
  BY <1>1, <1>2, <1>3, NilDistinct DEF IInv, LockedByProducer, TypeOK
<1>8. WaitersKnow' /\ LenderHolds'
  BY <1>1, <1>2, <1>3, NilDistinct DEF IInv, WaitersKnow, LenderHolds, TypeOK
<1>9. ValueThere'
  BY <1>1, <1>2, <1>3 DEF IInv, ValueThere
<1> QED
  BY <1>5, <1>6, <1>7, <1>8, <1>9 DEF IInv

\* An owner begins its release: it is still counted.
LEMMA DerefStep ==
  ASSUME IInv, NEW r \in Refs, Deref(r)
  PROVE  IInv'
<1>1. pc[r] = "held" /\ (\A s \in Refs : lender[s] # r)
  BY DEF Deref
<1>2. /\ UNCHANGED <<entry, refCount, mu, value, lender>>
      /\ \A t \in Refs \ {r} : UNCHANGED <<pc[t], ent[t], got[t]>>
  BY DEF Deref, Goto, IInv, TypeOK
<1>3. pc'[r] = "deref" /\ ent'[r] = entry /\ got'[r] = Nil
  BY DEF Deref, Goto, IInv, TypeOK
<1>4. Counting' = Counting
  BY <1>1, <1>2, <1>3 DEF Counting
<1>5. TypeOK'
  BY DEF IInv, TypeOK, PCs, Deref, Goto
<1>6. CountExact' /\ CountedInEntry' /\ ProducerAlone'
  BY <1>1, <1>2, <1>3, <1>4 DEF IInv, CountExact, CountedInEntry, ProducerAlone, Counting
<1>7. LockedByProducer'
  BY <1>1, <1>2, <1>3, NilDistinct DEF IInv, LockedByProducer, TypeOK
<1>8. WaitersKnow' /\ LenderHolds'
  BY <1>1, <1>2, <1>3, NilDistinct DEF IInv, WaitersKnow, LenderHolds, TypeOK
<1>9. ValueThere'
  BY <1>1, <1>2, <1>3 DEF IInv, ValueThere
<1> QED
  BY <1>5, <1>6, <1>7, <1>8, <1>9 DEF IInv

\* An owner is released; the last one takes the entry out of the map.
LEMMA DerefLockStep ==
  ASSUME IInv, NEW r \in Refs, DerefLock(r)
  PROVE  IInv'
<1>1. pc[r] = "deref" /\ ent[r] = entry /\ entry # Nil /\ mu[entry] = Nil
  BY OwnersLive DEF DerefLock, Unlocked
<1>2. /\ UNCHANGED <<mu, value, lender>>
      /\ \A t \in Refs \ {r} : UNCHANGED <<pc[t], ent[t], got[t]>>
  BY DEF DerefLock, Goto, IInv, TypeOK
<1>3. pc'[r] = "none" /\ got'[r] = Nil
  BY DEF DerefLock, Goto, IInv, TypeOK
<1>4. /\ refCount' = [refCount EXCEPT ![entry] = @ - 1]
      /\ entry' = IF refCount[entry] <= 1 THEN Nil ELSE entry
  BY <1>1 DEF DerefLock
<1>5. Counting' = Counting \ {r} /\ r \in Counting
  BY <1>1, <1>2, <1>3 DEF Counting
<1>6. refCount[entry] = Cardinality(Counting) /\ refCount[entry] > 0 /\ refCount[entry] \in Nat
  BY <1>1, EntryCounts DEF IInv, TypeOK
<1>7. Cardinality(Counting') = Cardinality(Counting) - 1
  BY <1>5, CountingFinite, FS_RemoveElement
<1>8. refCount'[entry] = Cardinality(Counting') /\ refCount'[entry] \in Nat
  BY <1>1, <1>4, <1>6, <1>7 DEF IInv, TypeOK
<1>9. Counting' = {} <=> refCount[entry] <= 1
  <2>1. IsFiniteSet(Counting')
    BY <1>5, CountingFinite, FS_RemoveElement
  <2>2. Cardinality(Counting') = 0 <=> Counting' = {}
    BY <2>1, FS_EmptySet
  <2> QED
    BY <2>2, <1>6, <1>7
<1>10. TypeOK'
  <2>1. refCount' \in [Objs -> Nat]
    BY <1>1, <1>4, <1>8 DEF IInv, TypeOK
  <2> QED
    BY <2>1 DEF IInv, TypeOK, PCs, DerefLock, Goto
<1>11. CountExact'
  BY <1>1, <1>4, <1>8, <1>9 DEF CountExact
<1>12. CountedInEntry'
  BY <1>2, <1>4, <1>5, <1>9 DEF IInv, CountedInEntry, Counting
<1>13. \A s \in Refs : pc[s] # "produce" /\ pc'[s] # "produce"
  BY <1>1, <1>2, <1>3, <1>5 DEF IInv, ProducerAlone
<1>14. LockedByProducer' /\ ProducerAlone'
  BY <1>2, <1>13, NilDistinct DEF IInv, LockedByProducer, ProducerAlone, TypeOK
<1>15. WaitersKnow'
  BY <1>1, <1>2, <1>3, <1>4, <1>6 DEF IInv, WaitersKnow, TypeOK
<1>16. \A s \in Refs : pc[s] = "held" => entry' = entry
  BY <1>1, <1>2, <1>4, <1>5, <1>9 DEF Counting
<1>17. LenderHolds'
  BY <1>1, <1>2, <1>3, <1>16, NilDistinct DEF IInv, LenderHolds, TypeOK
<1>18. ValueThere'
  BY <1>1, <1>2, <1>3, <1>4, <1>16 DEF IInv, ValueThere
<1> QED
  BY <1>10, <1>11, <1>12, <1>14, <1>15, <1>17, <1>18 DEF IInv

------------------------------------------------------------------------------
\* Every step keeps the inductive invariant.
LEMMA NextIInv == IInv /\ [Next]_vars => IInv'
<1> SUFFICES ASSUME IInv, [Next]_vars PROVE IInv'
  OBVIOUS
<1>1. CASE UNCHANGED vars
  BY <1>1 DEF vars, IInv, TypeOK, CountExact, Counting, LockedByProducer, CountedInEntry,
     ProducerAlone, WaitersKnow, LenderHolds, ValueThere
<1>2. CASE Next
  <2>1. PICK r \in Refs :
          \/ Acquire(r) \/ AcquireStep(r)
          \/ \E s \in Refs : Ref(r, s)
          \/ RefLock(r) \/ Deref(r) \/ DerefLock(r)
    BY <1>2 DEF Next
  <2>2. CASE Acquire(r) \/ LoadExisting(r) \/ LockDead(r)
    BY <2>2, QuietStep
  <2>3. CASE StoreNew(r)
    BY <2>3, StoreNewStep
  <2>4. CASE LockLive(r) \/ RefLock(r)
    BY <2>4, CountStep
  <2>5. CASE ProduceValue(r)
    BY <2>5, ProduceValueStep
  <2>6. CASE ProduceError(r)
    BY <2>6, ProduceErrorStep
  <2>7. CASE \E s \in Refs : Ref(r, s)
    BY <2>7, RefStep
  <2>8. CASE Deref(r)
    BY <2>8, DerefStep
  <2>9. CASE DerefLock(r)
    BY <2>9, DerefLockStep
  <2> QED
    BY <2>1, <2>2, <2>3, <2>4, <2>5, <2>6, <2>7, <2>8, <2>9 DEF AcquireStep
<1> QED
  BY <1>1, <1>2

\* The inductive invariant holds of every behaviour of the cache.
THEOREM CacheInductive == Spec => []IInv
BY InitIInv, NextIInv, PTL DEF Spec

\* Type correctness: the entries, counts and locks of the cache keep their shape.
THEOREM CacheTyped == Spec => []TypeOK
<1>1. IInv => TypeOK
  BY DEF IInv
<1> QED
  BY <1>1, CacheInductive, PTL

\* The entry's count is the number of references, and no entry outlives them.
THEOREM CountCorrect == Spec => []CountExact
<1>1. IInv => CountExact
  BY DEF IInv
<1> QED
  BY <1>1, CacheInductive, PTL

\* Ref never panics or revives a dead entry, and no Deref is lost, as long as clones
\* are made from programs that are alive.
THEOREM OwnersSafe == Spec => []OwnersFindEntry
<1>1. ASSUME IInv PROVE OwnersFindEntry
  <2> SUFFICES ASSUME NEW r \in Refs
               PROVE  /\ ~RefPanics(r) /\ ~DerefMisses(r) /\ ~RefFindsDead(r)
                      /\ pc[r] = "deref" => ent[r] = entry
    BY DEF OwnersFindEntry
  <2>1. pc[r] = "held" => entry # Nil
    BY <1>1, OwnersLive
  <2>2. pc[r] = "ref" => refCount[ent[r]] > 0
    BY <1>1, OwnersLive, EntryCounts
  <2>3. pc[r] = "ref" => ~(refCount[ent[r]] <= 0)
    BY <2>2, <1>1, OwnersLive DEF IInv, TypeOK
  <2>4. pc[r] = "deref" => ent[r] = entry
    BY <1>1, OwnersLive
  <2> QED
    BY <2>1, <2>3, <2>4 DEF RefPanics, DerefMisses, RefFindsDead
<1> QED
  BY <1>1, CacheInductive, PTL

\* A step of the cache is a step of the abstract cache, or none.
LEMMA StepRefines == IInv /\ [Next]_vars => [Abstract!Next]_got
<1> SUFFICES ASSUME IInv, [Next]_vars PROVE [Abstract!Next]_got
  OBVIOUS
<1>1. CASE UNCHANGED vars
  BY <1>1 DEF vars
<1>2. CASE Next
  <2>1. PICK r \in Refs :
          \/ Acquire(r) \/ AcquireStep(r)
          \/ \E s \in Refs : Ref(r, s)
          \/ RefLock(r) \/ Deref(r) \/ DerefLock(r)
    BY <1>2 DEF Next
  <2>2. CASE \/ Acquire(r) \/ LoadExisting(r) \/ LockDead(r) \/ StoreNew(r) \/ ProduceError(r)
             \/ (\E s \in Refs : Ref(r, s)) \/ DerefLock(r)
    <3>1. got[r] = Nil /\ got' = [got EXCEPT ![r] = Nil]
      BY <2>2 DEF Acquire, LoadExisting, LockDead, StoreNew, ProduceError, Ref, DerefLock,
         Goto, IInv, ValueThere
    <3>2. got' = got
      BY <3>1 DEF IInv, TypeOK
    <3> QED
      BY <3>2
  <2>3. CASE ProduceValue(r) \/ LockLive(r) \/ RefLock(r)
    <3>1. entry # Nil /\ entry \in Objs
      BY <2>3, OwnersLive DEF ProduceValue, LockLive, RefLock, IInv, TypeOK, WaitersKnow,
         CountedInEntry, Counting, CountExact
    <3>2. IInv'
      BY <1>2, NextIInv
    <3>3. pc'[r] = "held" /\ entry' = entry /\ pc[r] # "held"
      BY <2>3 DEF ProduceValue, LockLive, RefLock, Goto, IInv, TypeOK
    <3>4. got'[r] = entry
      BY <3>2, <3>3 DEF IInv, ValueThere
    <3>5. got' = [got EXCEPT ![r] = entry]
      BY <2>3, <3>4 DEF ProduceValue, LockLive, RefLock, Goto, IInv, TypeOK
    <3>6. got[r] = Nil /\ \A s \in Refs : got[s] \in {Nil, entry}
      BY <3>3 DEF IInv, ValueThere
    <3>7. Abstract!Obtain(r)
      BY <3>1, <3>5, <3>6 DEF Abstract!Obtain
    <3> QED
      BY <3>7 DEF Abstract!Next
  <2>4. CASE Deref(r)
    <3>1. got[r] # Nil
      BY <2>4, OwnersLive DEF Deref, IInv, ValueThere
    <3>2. Abstract!Drop(r)
      BY <2>4, <3>1 DEF Deref, Goto, Abstract!Drop
    <3> QED
      BY <3>2 DEF Abstract!Next
  <2> QED
    BY <2>1, <2>2, <2>3, <2>4 DEF AcquireStep
<1> QED
  BY <1>1, <1>2

\* The cache implements SharedValue: the programs that hold a file at a time hold one
\* and the same parsed file, for any number of programs.
THEOREM Refinement == Spec => SharesOneValue
<1>1. Init => Abstract!Init
  BY DEF Init, Abstract!Init
<1> QED
  BY <1>1, CacheInductive, StepRefines, PTL DEF Spec, SharesOneValue, Abstract!Spec
=============================================================================
