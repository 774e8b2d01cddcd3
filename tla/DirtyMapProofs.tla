--------------------------- MODULE DirtyMapProofs ---------------------------
(***************************************************************************)
(* Proofs about DirtyMap, for any number of goroutines, keys, entries and  *)
(* changes: base values are never written, entries lead to what is         *)
(* published, and SyncMap implements OverlayMap.                           *)
(***************************************************************************)
EXTENDS DirtyMap, TLAPS

\* A goroutine in a call is at its entry or at the one its entry is a proxy of.
CallsWellFormed ==
    \A p \in Procs :
        /\ pc[p] = "idle" <=> call[p] = Nil
        /\ pc[p] # "idle" => /\ hnd[p] # Nil /\ at[p] # Nil
                             /\ at[p] \in {hnd[p], entry[hnd[p]].proxyFor}

\* An entry of the dirty map is no proxy.  It has a copy of its own once it is dirty; until
\* then it has the base value, and is in the hands of the goroutine that stored it, or is
\* deleted and in nobody's hands.
Stored ==
    \A k \in Keys : dirty[k] # Nil =>
        LET w == dirty[k] IN
        /\ entry[w].key = k /\ entry[w].proxyFor = Nil
        /\ entry[w].dirty => entry[w].value = w
        /\ ~entry[w].dirty =>
             /\ k \in Base /\ entry[w].value = k
             /\ \A p \in Procs : hnd[p] = w => pc[p] = "won"
             /\ entry[w].del \/ \E p \in Procs : hnd[p] = w

\* An entry in a goroutine's hands that the dirty map does not have.
Private(e) ==
    /\ entry[e].proxyFor = Nil /\ ~entry[e].dirty /\ ~entry[e].del
    /\ entry[e].value = entry[e].key /\ entry[e].key \in Base

\* The entry in a goroutine's hands is the dirty map's, a proxy of it, or private.
Held ==
    \A p \in Procs : hnd[p] # Nil =>
        LET w == dirty[Key(p)] IN
        /\ Key(p) \in Keys
        /\ \/ hnd[p] = w
           \/ w # Nil /\ entry[hnd[p]].proxyFor = w /\ entry[w].dirty
           \/ Private(hnd[p])

\* Only the entries of the dirty map are shared.
Unshared ==
    \A p, q \in Procs : p # q /\ hnd[p] # Nil /\ hnd[p] = hnd[q] => hnd[p] = dirty[Key(p)]

\* A goroutine whose entry was stored, or was not, has it locked until it has changed it.
Offered ==
    \A p \in Procs :
        /\ pc[p] \in {"won", "lost"} => at[p] = hnd[p] /\ mu[hnd[p]] = p /\ Private(hnd[p])
        /\ pc[p] = "won" => dirty[Key(p)] = hnd[p] /\ \A q \in Procs \ {p} : hnd[q] # hnd[p]
        /\ pc[p] = "lost" => dirty[Key(p)] # Nil /\ dirty[Key(p)] # hnd[p]

\* Every change that a value counts was called, and a call counts once.
Bounded ==
    \A o \in Keys \union Entries, p \in Procs :
        heap[o][p] + (IF pc[p] = "idle" THEN 0 ELSE 1) <= changes[p]

IInv ==
    /\ TypeOK /\ CallsWellFormed /\ Stored /\ Held /\ Unshared /\ Offered /\ Bounded
    /\ BaseUntouched

\* The builders' discipline: Delete is called in sequential phases only.
Disciplined == ~RacingDeletes

\* Who calls Delete is alone, and has the entry of the dirty map if there is one.
Alone == \A p \in Procs : call[p] = "delete" => Sequential(p)

-----------------------------------------------------------------------------
(* What the steps of an operation do *)

\* The entry at which an operation begins: a proxy of the dirty map's entry, that entry
\* itself, or a private one.
LEMMA AtEntry ==
    ASSUME IInv, NEW p \in Procs, pc[p] = "enter"
    PROVE  LET e == at[p] IN
           /\ hnd[p] \in Entries /\ e \in Entries /\ Key(p) \in Keys /\ entry[e].key = Key(p)
           /\ entry[e].proxyFor # Nil => e = hnd[p] /\ entry[e].proxyFor = dirty[Key(p)]
           /\ entry[e].proxyFor = Nil /\ entry[e].dirty =>
                e = dirty[Key(p)] /\ entry[e].value = e
           /\ entry[e].proxyFor = Nil /\ ~entry[e].dirty =>
                e = hnd[p] /\ Private(e) /\ dirty[Key(p)] # e
  <1> USE NamesAssumption DEF IInv
  <1>1. /\ hnd[p] \in Entries /\ at[p] \in Entries /\ at[p] \in {hnd[p], entry[hnd[p]].proxyFor}
    BY DEF TypeOK, CallsWellFormed
  <1>2. /\ Key(p) \in Keys
        /\ \/ hnd[p] = dirty[Key(p)]
           \/ /\ dirty[Key(p)] # Nil /\ entry[hnd[p]].proxyFor = dirty[Key(p)]
              /\ entry[dirty[Key(p)]].dirty
           \/ Private(hnd[p])
    BY <1>1 DEF Held
  <1>3. dirty[Key(p)] # Nil =>
          LET w == dirty[Key(p)] IN
          /\ entry[w].key = Key(p) /\ entry[w].proxyFor = Nil
          /\ entry[w].dirty => entry[w].value = w
          /\ ~entry[w].dirty => hnd[p] # w
    BY <1>2 DEF Stored
  <1> QED BY <1>1, <1>2, <1>3 DEF Private, Key

\* An operation that ends at the first entry: nothing happens, the copy of the dirty map's
\* entry changes, or that entry is marked.
LEMMA InPlaceEffect ==
    ASSUME IInv, NEW p \in Procs, InPlace(p)
    PROVE  LET e == at[p] IN
           /\ pc[p] = "enter" /\ e \in Entries /\ entry[e].key = Key(p) /\ Key(p) \in Keys
           /\ Return(p) /\ UNCHANGED <<dirty, changes, final>>
           /\ \/ /\ call[p] = "changeIf" /\ (entry[e].del \/ heap[entry[e].value] # Zero)
                 /\ UNCHANGED <<heap, entry>>
              \/ /\ ~Deletes(p) /\ e = dirty[Key(p)] /\ entry[e].dirty
                 /\ call[p] = "changeIf" => ~entry[e].del /\ heap[e] = Zero
                 /\ heap' = [heap EXCEPT ![e][p] = @ + 1] /\ UNCHANGED entry
              \/ /\ Deletes(p) /\ e = dirty[Key(p)] /\ entry[e].dirty /\ UNCHANGED heap
                 /\ entry' = [entry EXCEPT ![e] = [@ EXCEPT !.del = TRUE]]
  <1>1. /\ pc[p] = "enter" /\ entry[at[p]].proxyFor = Nil
        /\ Return(p) /\ UNCHANGED <<dirty, changes, final>>
    BY DEF InPlace, Return
  <1>2. /\ at[p] \in Entries /\ entry[at[p]].key = Key(p) /\ Key(p) \in Keys
        /\ entry[at[p]].dirty => at[p] = dirty[Key(p)] /\ entry[at[p]].value = at[p]
    BY <1>1, AtEntry
  <1>3. \/ Declined(p, at[p]) /\ UNCHANGED <<heap, entry>>
        \/ /\ ~Declined(p, at[p]) /\ entry[at[p]].dirty /\ ~Deletes(p)
           /\ heap' = [heap EXCEPT ![at[p]][p] = @ + 1] /\ UNCHANGED entry
        \/ entry[at[p]].dirty /\ Deletes(p) /\ entry' = [entry EXCEPT ![at[p]].del = TRUE] /\ UNCHANGED heap
    BY <1>2 DEF InPlace, Applied, Marked
  <1>4. CASE Declined(p, at[p]) /\ UNCHANGED <<heap, entry>>
    BY <1>1, <1>2, <1>4 DEF Declined
  <1>5. CASE /\ ~Declined(p, at[p]) /\ entry[at[p]].dirty /\ ~Deletes(p)
             /\ heap' = [heap EXCEPT ![at[p]][p] = @ + 1] /\ UNCHANGED entry
    <2>1. call[p] = "changeIf" => ~entry[at[p]].del /\ heap[at[p]] = Zero
      BY <1>2, <1>5 DEF Declined
    <2> QED BY <1>1, <1>2, <1>5, <2>1
  <1>6. CASE entry[at[p]].dirty /\ Deletes(p) /\ entry' = [entry EXCEPT ![at[p]].del = TRUE] /\ UNCHANGED heap
    BY <1>1, <1>2, <1>6
  <1> QED BY <1>3, <1>4, <1>5, <1>6

\* The goroutine whose entry is in the dirty map now marks it, or changes a copy.
LEMMA WonEffect ==
    ASSUME IInv, NEW p \in Procs, Won(p)
    PROVE  LET e == hnd[p] IN
           /\ pc[p] = "won" /\ e \in Entries /\ at[p] = e /\ Key(p) \in Keys /\ dirty[Key(p)] = e /\ Private(e)
           /\ \A q \in Procs \ {p} : hnd[q] # e
           /\ Return(p) /\ UNCHANGED <<dirty, changes, final>>
           /\ \/ /\ Deletes(p) /\ UNCHANGED heap
                 /\ entry' = [entry EXCEPT ![e] = [@ EXCEPT !.del = TRUE]]
              \/ /\ ~Deletes(p)
                 /\ entry' = [entry EXCEPT ![e] = [@ EXCEPT !.value = e, !.dirty = TRUE]]
                 /\ heap' = [heap EXCEPT ![e] = [heap[Key(p)] EXCEPT ![p] = @ + 1]]
  <1> USE NamesAssumption DEF IInv
  <1>1. /\ hnd[p] \in Entries /\ at[p] = hnd[p] /\ dirty[Key(p)] = hnd[p] /\ Private(hnd[p])
        /\ \A q \in Procs \ {p} : hnd[q] # hnd[p]
    BY DEF Won, TypeOK, CallsWellFormed, Offered
  <1>2. Key(p) \in Keys
    BY <1>1 DEF Held
  <1>8. pc[p] = "won"
    BY DEF Won
  <1>3. Deletes(p) => UNCHANGED heap /\ entry' = [entry EXCEPT ![hnd[p]] = [@ EXCEPT !.del = TRUE]]
    BY <1>1 DEF Won, Marked
  <1>4. entry[hnd[p]].value = Key(p) /\ ~entry[hnd[p]].dirty
    BY <1>1 DEF Private, Key
  <1>5. CopyOf(hnd[p]) = hnd[p] /\ Copied(hnd[p]) = [heap EXCEPT ![hnd[p]] = heap[Key(p)]]
    BY <1>4 DEF CopyOf, Copied
  <1>6. ASSUME ~Deletes(p)
        PROVE  /\ entry' = [entry EXCEPT ![hnd[p]] = [@ EXCEPT !.value = hnd[p], !.dirty = TRUE]]
               /\ heap' = [heap EXCEPT ![hnd[p]] = [heap[Key(p)] EXCEPT ![p] = @ + 1]]
    <2>1. /\ entry' = [entry EXCEPT ![hnd[p]].value = hnd[p], ![hnd[p]].dirty = TRUE]
          /\ heap' = [[heap EXCEPT ![hnd[p]] = heap[Key(p)]] EXCEPT ![hnd[p]][p] = @ + 1]
      BY <1>1, <1>5, <1>6 DEF Won
    <2> QED BY <1>1, <2>1 DEF TypeOK
  <1>7. Return(p) /\ UNCHANGED <<dirty, changes, final>>
    BY DEF Won, Return
  <1> QED BY <1>1, <1>2, <1>3, <1>6, <1>7, <1>8

\* The goroutine whose entry lost marks its own or the dirty map's entry, or changes the
\* copy of that one and becomes a proxy of it.
LEMMA LostEffect ==
    ASSUME IInv, NEW p \in Procs, Lost(p)
    PROVE  LET e == hnd[p]
               w == dirty[Key(p)]
           IN
           /\ pc[p] = "lost" /\ e \in Entries /\ w \in Entries /\ e # w /\ at[p] = e /\ mu[w] = Nil /\ Private(e)
           /\ Key(p) \in Keys /\ entry[w].key = Key(p)
           /\ \A q \in Procs \ {p} : hnd[q] # e
           /\ Return(p) /\ UNCHANGED <<dirty, changes, final>>
           /\ \/ /\ call[p] = "delete" /\ UNCHANGED heap
                 /\ entry' = [entry EXCEPT ![e] = [@ EXCEPT !.del = TRUE]]
              \/ /\ call[p] = "deleteLocked" /\ UNCHANGED heap
                 /\ entry' = [entry EXCEPT ![w] = [@ EXCEPT !.del = TRUE],
                                ![e] = [@ EXCEPT !.value = entry[w].value, !.dirty = entry[w].dirty,
                                                !.proxyFor = w, !.del = TRUE]]
              \/ /\ ~Deletes(p)
                 /\ entry' = [entry EXCEPT ![w] = [@ EXCEPT !.value = w, !.dirty = TRUE],
                                ![e] = [@ EXCEPT !.value = w, !.dirty = TRUE,
                                                !.proxyFor = w, !.del = entry[w].del]]
                 /\ heap' = [heap EXCEPT ![w] = [heap[entry[w].value] EXCEPT ![p] = @ + 1]]
  <1> USE NamesAssumption DEF IInv
  <1>1. /\ hnd[p] \in Entries /\ at[p] = hnd[p] /\ Private(hnd[p])
        /\ dirty[Key(p)] # Nil /\ dirty[Key(p)] # hnd[p]
    BY DEF Lost, TypeOK, CallsWellFormed, Offered
  <1>2. Key(p) \in Keys /\ dirty[Key(p)] \in Entries
    BY <1>1 DEF Held, TypeOK
  <1>3. \A q \in Procs \ {p} : hnd[q] # hnd[p]
    BY <1>1 DEF Unshared, Key
  <1> DEFINE e == hnd[p]
             w == dirty[Key(p)]
  <1>4. /\ entry[w].key = Key(p) /\ entry[w].proxyFor = Nil
        /\ entry[w].dirty => entry[w].value = w
        /\ entry[w].value \in Keys \union Entries
    BY <1>1, <1>2, BaseAssumption DEF Stored
  <1>5. CopyOf(w) = w /\ [Copied(w) EXCEPT ![w][p] = @ + 1]
                            = [heap EXCEPT ![w] = [heap[entry[w].value] EXCEPT ![p] = @ + 1]]
    BY <1>2, <1>4 DEF CopyOf, Copied, TypeOK
  <1>6. ASSUME call[p] = "delete"
        PROVE  UNCHANGED heap /\ entry' = [entry EXCEPT ![e] = [@ EXCEPT !.del = TRUE]]
    BY <1>1, <1>6 DEF Lost, DeleteSelf, Marked
  <1>7. ASSUME call[p] = "deleteLocked"
        PROVE  /\ UNCHANGED heap
               /\ entry' = [entry EXCEPT ![w] = [@ EXCEPT !.del = TRUE],
                              ![e] = [@ EXCEPT !.value = entry[w].value, !.dirty = entry[w].dirty,
                                                !.proxyFor = w, !.del = TRUE]]
    <2>1. DeleteThrough(p, e, w)
      BY <1>1, <1>7 DEF Lost, Key
    <2> QED BY <1>1, <1>2, <2>1 DEF DeleteThrough, TypeOK
  <1>8. ASSUME ~Deletes(p)
        PROVE  /\ entry' = [entry EXCEPT ![w] = [@ EXCEPT !.value = w, !.dirty = TRUE],
                              ![e] = [@ EXCEPT !.value = w, !.dirty = TRUE,
                                                !.proxyFor = w, !.del = entry[w].del]]
               /\ heap' = [heap EXCEPT ![w] = [heap[entry[w].value] EXCEPT ![p] = @ + 1]]
    <2>1. ChangeThrough(p, e, w)
      BY <1>1, <1>8 DEF Lost, Key, Deletes
    <2>2. heap' = [heap EXCEPT ![w] = [heap[entry[w].value] EXCEPT ![p] = @ + 1]]
      BY <1>5, <2>1 DEF ChangeThrough
    <2>3. entry' = [entry EXCEPT ![w].value = w, ![w].dirty = TRUE, ![e].value = w, ![e].dirty = TRUE,
                                 ![e].proxyFor = w, ![e].del = entry[w].del]
      BY <1>5, <2>1 DEF ChangeThrough
    <2> QED BY <1>1, <1>2, <2>2, <2>3 DEF TypeOK
  <1>9. mu[w] = Nil /\ Return(p) /\ UNCHANGED <<dirty, changes, final>>
    BY <1>1 DEF Lost, Return, Key
  <1> QED BY <1>1, <1>2, <1>3, <1>4, <1>6, <1>7, <1>8, <1>9 DEF Deletes, Lost

\* What a return does to the goroutines and to the mutexes.
LEMMA ReturnEffect ==
    ASSUME IInv, NEW p \in Procs, Return(p)
    PROVE  /\ pc'[p] = "idle" /\ call'[p] = Nil /\ at'[p] = Nil
           /\ hnd'[p] = IF Deletes(p) THEN Nil ELSE hnd[p]
           /\ \A q \in Procs : q # p =>
                pc'[q] = pc[q] /\ call'[q] = call[q] /\ at'[q] = at[q] /\ hnd'[q] = hnd[q]
           /\ \A f \in Entries, q \in Procs : q # p => (mu'[f] = q <=> mu[f] = q)
           /\ mu' \in [Entries -> Procs \union {Nil}]
           /\ hnd' \in [Procs -> Entries \union {Nil}]
           /\ at' \in [Procs -> Entries \union {Nil}]
           /\ call' \in [Procs -> Ops \union {Nil}]
           /\ pc' \in [Procs -> {"idle", "enter", "won", "lost"}]
           /\ changes' = changes
  <1> USE NamesAssumption DEF IInv
  <1>1. /\ pc'[p] = "idle" /\ call'[p] = Nil /\ at'[p] = Nil
        /\ hnd'[p] = IF Deletes(p) THEN Nil ELSE hnd[p]
        /\ \A q \in Procs : q # p =>
                pc'[q] = pc[q] /\ call'[q] = call[q] /\ at'[q] = at[q] /\ hnd'[q] = hnd[q]
    BY DEF Return, TypeOK
  <1>2. \A f \in Entries, q \in Procs : q # p => (mu'[f] = q <=> mu[f] = q)
    BY DEF Return, Released, TypeOK
  <1>3. mu' \in [Entries -> Procs \union {Nil}]
    BY DEF Return, Released, TypeOK
  <1>4. /\ hnd' \in [Procs -> Entries \union {Nil}]
        /\ at' \in [Procs -> Entries \union {Nil}]
        /\ call' \in [Procs -> Ops \union {Nil}]
        /\ pc' \in [Procs -> {"idle", "enter", "won", "lost"}]
        /\ changes' = changes
    BY DEF Return, TypeOK
  <1> QED BY <1>1, <1>2, <1>3, <1>4

-----------------------------------------------------------------------------
(* The steps that change entries and values *)

\* The type of an entry.
EntryType ==
    [key : Keys \union {Nil}, value : Keys \union Entries \union {Nil},
     dirty : BOOLEAN, del : BOOLEAN, proxyFor : Entries \union {Nil}]

\* The winner's entry stays the dirty map's; it is deleted and let go, or has a copy now.
LEMMA WonStep ==
    ASSUME IInv, NEW p \in Procs, Won(p)
    PROVE  IInv'
  <1> USE NamesAssumption, BaseAssumption, BoundsAssumption
  <1>1. PICK e \in Entries : e = hnd[p]
    BY WonEffect
  <1>2. PICK k \in Keys : k = Key(p)
    BY WonEffect
  <1>3. /\ pc[p] = "won" /\ at[p] = e /\ dirty[k] = e /\ Private(e) /\ entry[e].key = k /\ k \in Base
        /\ \A q \in Procs \ {p} : hnd[q] # e
        /\ dirty' = dirty
    BY <1>1, <1>2, WonEffect DEF Private, Key
  <1>4. \/ /\ Deletes(p) /\ heap' = heap
           /\ entry' = [entry EXCEPT ![e] = [@ EXCEPT !.del = TRUE]]
        \/ /\ ~Deletes(p)
           /\ entry' = [entry EXCEPT ![e] = [@ EXCEPT !.value = e, !.dirty = TRUE]]
           /\ heap' = [heap EXCEPT ![e] = [heap[k] EXCEPT ![p] = @ + 1]]
    BY <1>1, <1>2, WonEffect
  <1>5. /\ entry \in [Entries -> EntryType] /\ heap \in [Keys \union Entries -> [Procs -> 0..MaxChanges]]
        /\ changes \in [Procs -> 0..MaxChanges]
    BY DEF IInv, TypeOK, EntryType
  <1>6. /\ \A f \in Entries : f # e => entry'[f] = entry[f]
        /\ entry'[e].key = k /\ entry'[e].proxyFor = Nil
        /\ IF Deletes(p)
             THEN entry'[e].del /\ ~entry'[e].dirty /\ entry'[e].value = k
             ELSE ~entry'[e].del /\ entry'[e].dirty /\ entry'[e].value = e
        /\ entry' \in [Entries -> EntryType]
    <2>1. entry[e] \in EntryType /\ ~entry[e].dirty /\ ~entry[e].del /\ entry[e].key = k
          /\ entry[e].value = k /\ entry[e].proxyFor = Nil
      BY <1>3, <1>5 DEF Private
    <2>2. CASE Deletes(p)
      <3>1. entry' = [entry EXCEPT ![e] = [@ EXCEPT !.del = TRUE]]
        BY <1>4, <2>2
      <3>2. [entry[e] EXCEPT !.del = TRUE] \in EntryType
        BY <2>1 DEF EntryType
      <3>3. entry' \in [Entries -> EntryType]
        BY <1>5, <3>1, <3>2
      <3>4. entry'[e] = [entry[e] EXCEPT !.del = TRUE] /\ \A f \in Entries : f # e => entry'[f] = entry[f]
        BY <1>5, <3>1
      <3> QED BY <2>1, <2>2, <3>3, <3>4 DEF EntryType
    <2>3. CASE ~Deletes(p)
      <3>1. entry' = [entry EXCEPT ![e] = [@ EXCEPT !.value = e, !.dirty = TRUE]]
        BY <1>4, <2>3
      <3>2. [entry[e] EXCEPT !.value = e, !.dirty = TRUE] \in EntryType
        BY <2>1 DEF EntryType
      <3>3. entry' \in [Entries -> EntryType]
        BY <1>5, <3>1, <3>2
      <3>4. /\ entry'[e] = [entry[e] EXCEPT !.value = e, !.dirty = TRUE]
            /\ \A f \in Entries : f # e => entry'[f] = entry[f]
        BY <1>5, <3>1
      <3> QED BY <2>1, <2>3, <3>3, <3>4 DEF EntryType
    <2> QED BY <2>2, <2>3
  <1>7. /\ \A o \in Keys \union Entries : o # e => heap'[o] = heap[o]
        /\ \A q \in Procs : q # p => heap'[e][q] \in {heap[e][q], heap[k][q]}
        /\ heap'[e][p] \in {heap[e][p], heap[k][p] + 1}
    BY <1>4, <1>5
  <1>8. /\ pc'[p] = "idle" /\ call'[p] = Nil /\ at'[p] = Nil
        /\ hnd'[p] = IF Deletes(p) THEN Nil ELSE e
        /\ \A q \in Procs : q # p =>
             pc'[q] = pc[q] /\ call'[q] = call[q] /\ at'[q] = at[q] /\ hnd'[q] = hnd[q]
        /\ \A f \in Entries, q \in Procs : q # p => (mu'[f] = q <=> mu[f] = q)
        /\ changes' = changes
    BY <1>1, WonEffect, ReturnEffect
  <1>9. ASSUME NEW o \in Keys \union Entries, NEW q \in Procs
        PROVE  heap'[o][q] + (IF pc'[q] = "idle" THEN 0 ELSE 1) <= changes'[q]
    <2>1. /\ heap[o][q] \in Nat /\ heap[k][q] \in Nat /\ changes[q] \in Nat
          /\ heap[o][q] + (IF pc[q] = "idle" THEN 0 ELSE 1) <= changes[q]
          /\ heap[k][q] + (IF pc[q] = "idle" THEN 0 ELSE 1) <= changes[q]
      BY <1>5 DEF IInv, Bounded
    <2>2. heap'[o][q] \in {heap[o][q], heap[k][q] + (IF q = p THEN 1 ELSE 0)}
      BY <1>7, <2>1
    <2> QED BY <1>3, <1>7, <1>8, <2>1, <2>2
  <1>10. heap' \in [Keys \union Entries -> [Procs -> 0..MaxChanges]]
    <2>1. heap[k][p] + 1 \in 0..MaxChanges
      BY <1>3, <1>5 DEF IInv, Bounded
    <2>2. [heap[k] EXCEPT ![p] = @ + 1] \in [Procs -> 0..MaxChanges]
      BY <1>5, <2>1
    <2> QED BY <1>4, <1>5, <2>2
  <1>11. TypeOK'
    BY <1>3, <1>6, <1>8, <1>10, WonEffect, ReturnEffect DEF IInv, TypeOK, EntryType
  <1>12. BaseUntouched'
    BY <1>7 DEF IInv, BaseUntouched
  <1>13. CallsWellFormed'
    BY <1>3, <1>6, <1>8 DEF IInv, TypeOK, CallsWellFormed
  <1>14. Stored'
    <2> SUFFICES ASSUME NEW j \in Keys, dirty[j] # Nil
                 PROVE  LET w == dirty[j] IN
                        /\ entry'[w].key = j /\ entry'[w].proxyFor = Nil
                        /\ entry'[w].dirty => entry'[w].value = w
                        /\ ~entry'[w].dirty =>
                             /\ j \in Base /\ entry'[w].value = j
                             /\ \A q \in Procs : hnd'[q] = w => pc'[q] = "won"
                             /\ entry'[w].del \/ \E q \in Procs : hnd'[q] = w
      BY <1>3 DEF Stored
    <2>1. CASE j = k
      BY <1>3, <1>6, <1>8, <2>1
    <2>2. CASE j # k
      <3>1. dirty[j] \in Entries \ {e} /\ entry'[dirty[j]] = entry[dirty[j]]
        BY <1>3, <1>6, <2>2 DEF IInv, TypeOK, Stored
      <3>2. \A q \in Procs : hnd'[q] = dirty[j] <=> hnd[q] = dirty[j]
        BY <1>1, <1>8, <3>1
      <3>3. \A q \in Procs : hnd[q] = dirty[j] => pc'[q] = pc[q]
        BY <1>1, <1>8, <3>1
      <3> QED BY <3>1, <3>2, <3>3 DEF IInv, Stored
    <2> QED BY <2>1, <2>2
  <1>15. Held'
    <2> SUFFICES ASSUME NEW q \in Procs, hnd'[q] # Nil
                 PROVE  LET w == dirty[entry'[hnd'[q]].key] IN
                        /\ entry'[hnd'[q]].key \in Keys
                        /\ \/ hnd'[q] = w
                           \/ w # Nil /\ entry'[hnd'[q]].proxyFor = w /\ entry'[w].dirty
                           \/ Private(hnd[q])'
      BY <1>3 DEF Held, Key
    <2>1. CASE q = p
      BY <1>3, <1>6, <1>8, <2>1
    <2>2. CASE q # p
      <3>1. hnd'[q] = hnd[q] /\ hnd[q] \in Entries \ {e} /\ entry'[hnd[q]] = entry[hnd[q]]
        BY <1>3, <1>6, <1>8, <2>2 DEF IInv, TypeOK
      <3>2. LET w == dirty[Key(q)] IN
            /\ Key(q) \in Keys
            /\ \/ hnd[q] = w
               \/ w # Nil /\ entry[hnd[q]].proxyFor = w /\ entry[w].dirty
               \/ Private(hnd[q])
        BY <3>1 DEF IInv, Held
      <3>3. Private(hnd[q])' <=> Private(hnd[q])
        BY <3>1 DEF Private
      <3>4. \A w \in Entries : entry[w].dirty => entry'[w].dirty
        BY <1>3, <1>6 DEF Private
      <3>5. dirty[Key(q)] \in Entries \union {Nil}
        BY <3>2 DEF IInv, TypeOK
      <3> QED BY <3>1, <3>2, <3>3, <3>4, <3>5 DEF Key
    <2> QED BY <2>1, <2>2
  <1>16. Unshared'
    BY <1>3, <1>6, <1>8 DEF IInv, TypeOK, Unshared, Key
  <1>17. Offered'
    <2>1. ASSUME NEW q \in Procs, pc'[q] \in {"won", "lost"}
          PROVE  /\ q # p /\ hnd'[q] = hnd[q] /\ hnd[q] \in Entries \ {e}
                 /\ entry'[hnd[q]] = entry[hnd[q]]
      BY <1>3, <1>6, <1>8, <2>1 DEF IInv, TypeOK, CallsWellFormed
    <2> QED BY <1>3, <1>8, <2>1 DEF IInv, TypeOK, Offered, Key, Private
  <1> QED BY <1>9, <1>11, <1>12, <1>13, <1>14, <1>15, <1>16, <1>17 DEF IInv, Bounded

\* The loser's entry is let go, or becomes a proxy of the winner's, which has a copy now.
LEMMA LostStep ==
    ASSUME IInv, NEW p \in Procs, Lost(p)
    PROVE  IInv'
  <1> USE NamesAssumption, BaseAssumption, BoundsAssumption
  <1>1. PICK e \in Entries : e = hnd[p]
    BY LostEffect
  <1>2. PICK k \in Keys : k = Key(p)
    BY LostEffect
  <1>3. PICK w \in Entries : w = dirty[k]
    BY <1>2, LostEffect
  <1>4. /\ pc[p] = "lost" /\ at[p] = e /\ e # w /\ mu[w] = Nil /\ Private(e) /\ entry[e].key = k
        /\ k \in Base /\ \A q \in Procs \ {p} : hnd[q] # e
        /\ dirty' = dirty
    BY <1>1, <1>2, <1>3, LostEffect DEF Private, Key
  <1>5. /\ entry[w].key = k /\ entry[w].proxyFor = Nil
        /\ entry[w].dirty => entry[w].value = w
        /\ ~entry[w].dirty => entry[w].value = k
        /\ ~entry[w].dirty => \A q \in Procs : hnd[q] # w
    BY <1>3, <1>4, SMTT(30) DEF IInv, Stored, Offered
  <1>6. PICK v \in {k, w} : v = entry[w].value
    BY <1>5, SMTT(30) DEF IInv, TypeOK
  <1>7. \/ /\ call[p] = "delete" /\ heap' = heap
           /\ entry' = [entry EXCEPT ![e] = [@ EXCEPT !.del = TRUE]]
        \/ /\ call[p] = "deleteLocked" /\ heap' = heap
           /\ entry' = [entry EXCEPT ![w] = [@ EXCEPT !.del = TRUE],
                          ![e] = [@ EXCEPT !.value = v, !.dirty = entry[w].dirty,
                                           !.proxyFor = w, !.del = TRUE]]
        \/ /\ ~Deletes(p)
           /\ entry' = [entry EXCEPT ![w] = [@ EXCEPT !.value = w, !.dirty = TRUE],
                          ![e] = [@ EXCEPT !.value = w, !.dirty = TRUE,
                                           !.proxyFor = w, !.del = entry[w].del]]
           /\ heap' = [heap EXCEPT ![w] = [heap[v] EXCEPT ![p] = @ + 1]]
    BY <1>1, <1>2, <1>3, <1>6, LostEffect
  <1>8. /\ entry \in [Entries -> EntryType] /\ entry[e] \in EntryType /\ entry[w] \in EntryType
        /\ heap \in [Keys \union Entries -> [Procs -> 0..MaxChanges]]
        /\ changes \in [Procs -> 0..MaxChanges]
    BY DEF IInv, TypeOK, EntryType
  <1>9. /\ entry' \in [Entries -> EntryType]
        /\ \A f \in Entries : f \notin {e, w} => entry'[f] = entry[f]
        /\ entry'[e].key = k /\ entry'[w].key = k /\ entry'[w].proxyFor = Nil
        /\ entry[w].dirty => entry'[w].dirty /\ entry'[w].value = w
        /\ ~entry'[w].dirty => entry'[w].value = k /\ (entry[w].del => entry'[w].del)
        /\ ~Deletes(p) => entry'[w].dirty /\ entry'[w].value = w /\ entry'[e].proxyFor = w
    <2> DEFINE EntryMarked ==
                 /\ call[p] = "delete"
                 /\ entry' = [entry EXCEPT ![e] = [@ EXCEPT !.del = TRUE]]
               BothMarked ==
                 /\ call[p] = "deleteLocked"
                 /\ entry' = [entry EXCEPT ![w] = [@ EXCEPT !.del = TRUE],
                                ![e] = [@ EXCEPT !.value = v, !.dirty = entry[w].dirty,
                                                 !.proxyFor = w, !.del = TRUE]]
               CopiedBoth ==
                 /\ ~Deletes(p)
                 /\ entry' = [entry EXCEPT ![w] = [@ EXCEPT !.value = w, !.dirty = TRUE],
                                ![e] = [@ EXCEPT !.value = w, !.dirty = TRUE,
                                                 !.proxyFor = w, !.del = entry[w].del]]
    <2>1. CASE EntryMarked
      <3>1. [entry[e] EXCEPT !.del = TRUE] \in EntryType
        BY <1>8 DEF EntryType
      <3>2. entry' \in [Entries -> EntryType]
        BY <1>8, <2>1, <3>1
      <3>3. /\ \A f \in Entries : f # e => entry'[f] = entry[f]
            /\ entry'[e] = [entry[e] EXCEPT !.del = TRUE]
        BY <1>8, <2>1
      <3> QED BY <1>4, <1>5, <1>8, <2>1, <3>2, <3>3 DEF EntryType, Deletes
    <2>2. CASE BothMarked
      <3>1. /\ [entry[w] EXCEPT !.del = TRUE] \in EntryType
            /\ [entry[e] EXCEPT !.value = v, !.dirty = entry[w].dirty,
                                !.proxyFor = w, !.del = TRUE] \in EntryType
        BY <1>8 DEF EntryType
      <3>2. entry' \in [Entries -> EntryType]
        BY <1>4, <1>8, <2>2, <3>1
      <3>3. /\ \A f \in Entries : f \notin {e, w} => entry'[f] = entry[f]
            /\ entry'[w] = [entry[w] EXCEPT !.del = TRUE]
            /\ entry'[e].key = entry[e].key
        BY <1>4, <1>8, <2>2 DEF EntryType
      <3> QED BY <1>4, <1>5, <1>8, <2>2, <3>2, <3>3 DEF EntryType, Deletes
    <2>3. CASE CopiedBoth
      <3>1. /\ [entry[w] EXCEPT !.value = w, !.dirty = TRUE] \in EntryType
            /\ [entry[e] EXCEPT !.value = w, !.dirty = TRUE,
                                !.proxyFor = w, !.del = entry[w].del] \in EntryType
        BY <1>8 DEF EntryType
      <3>2. entry' \in [Entries -> EntryType]
        BY <1>4, <1>8, <2>3, <3>1
      <3>3. /\ \A f \in Entries : f \notin {e, w} => entry'[f] = entry[f]
            /\ entry'[w] = [entry[w] EXCEPT !.value = w, !.dirty = TRUE]
            /\ entry'[e].key = entry[e].key /\ entry'[e].proxyFor = w
        BY <1>4, <1>8, <2>3 DEF EntryType
      <3> QED BY <1>4, <1>5, <1>8, <2>3, <3>2, <3>3 DEF EntryType
    <2>4. EntryMarked \/ BothMarked \/ CopiedBoth
      BY <1>7
    <2> HIDE DEF EntryMarked, BothMarked, CopiedBoth
    <2> QED BY <2>1, <2>2, <2>3, <2>4
  <1>10. /\ \A o \in Keys \union Entries : o # w => heap'[o] = heap[o]
         /\ \A q \in Procs : q # p => heap'[w][q] \in {heap[w][q], heap[v][q]}
         /\ heap'[w][p] \in {heap[w][p], heap[v][p] + 1}
    BY <1>7, <1>8
  <1>11. /\ pc'[p] = "idle" /\ call'[p] = Nil /\ at'[p] = Nil
         /\ hnd'[p] = IF Deletes(p) THEN Nil ELSE e
         /\ \A q \in Procs : q # p =>
              pc'[q] = pc[q] /\ call'[q] = call[q] /\ at'[q] = at[q] /\ hnd'[q] = hnd[q]
         /\ \A f \in Entries, q \in Procs : q # p => (mu'[f] = q <=> mu[f] = q)
         /\ changes' = changes
    BY <1>1, LostEffect, ReturnEffect, ZenonT(60)
  <1>12. ASSUME NEW o \in Keys \union Entries, NEW q \in Procs
         PROVE  heap'[o][q] + (IF pc'[q] = "idle" THEN 0 ELSE 1) <= changes'[q]
    <2>1. /\ heap[o][q] \in Nat /\ heap[v][q] \in Nat /\ changes[q] \in Nat
          /\ heap[o][q] + (IF pc[q] = "idle" THEN 0 ELSE 1) <= changes[q]
          /\ heap[v][q] + (IF pc[q] = "idle" THEN 0 ELSE 1) <= changes[q]
      BY <1>8 DEF IInv, Bounded
    <2>2. heap'[o][q] \in {heap[o][q], heap[v][q] + (IF q = p THEN 1 ELSE 0)}
      BY <1>10, <2>1
    <2> QED BY <1>4, <1>10, <1>11, <2>1, <2>2
  <1>13. heap' \in [Keys \union Entries -> [Procs -> 0..MaxChanges]]
    <2>1. heap[v][p] + 1 \in 0..MaxChanges
      BY <1>4, <1>8 DEF IInv, Bounded
    <2>2. [heap[v] EXCEPT ![p] = @ + 1] \in [Procs -> 0..MaxChanges]
      BY <1>8, <2>1
    <2> QED BY <1>7, <1>8, <2>2, SMTT(30)
  <1>14. TypeOK'
    BY <1>4, <1>9, <1>11, <1>13, LostEffect, ReturnEffect DEF IInv, TypeOK, EntryType
  <1>15. BaseUntouched'
    BY <1>10 DEF IInv, BaseUntouched
  <1>16. CallsWellFormed'
    <2>1. ASSUME NEW q \in Procs, q # p, pc[q] # "idle"
          PROVE  entry'[hnd[q]].proxyFor = entry[hnd[q]].proxyFor
      BY <1>4, <1>5, <1>9, <2>1 DEF IInv, TypeOK, CallsWellFormed
    <2> QED BY <1>4, <1>11, <2>1 DEF IInv, CallsWellFormed
  <1>17. Stored'
    <2> SUFFICES ASSUME NEW j \in Keys, dirty[j] # Nil
                 PROVE  LET x == dirty[j] IN
                        /\ entry'[x].key = j /\ entry'[x].proxyFor = Nil
                        /\ entry'[x].dirty => entry'[x].value = x
                        /\ ~entry'[x].dirty =>
                             /\ j \in Base /\ entry'[x].value = j
                             /\ \A q \in Procs : hnd'[q] = x => pc'[q] = "won"
                             /\ entry'[x].del \/ \E q \in Procs : hnd'[q] = x
      BY <1>4 DEF Stored
    <2>1. CASE j = k
      <3>1. ~entry'[w].dirty => ~entry[w].dirty
        BY <1>9
      <3>2. ~entry[w].dirty => entry[w].del
        BY <1>3, <1>5 DEF IInv, Stored
      <3>3. ~entry'[w].dirty => \A q \in Procs : hnd'[q] # w
        BY <1>1, <1>4, <1>5, <1>11, <3>1
      <3>4. entry'[w].dirty => entry'[w].value = w
        BY <1>5, <1>7, <1>8, <1>9 DEF EntryType, Deletes
      <3> QED BY <1>3, <1>4, <1>9, <2>1, <3>1, <3>2, <3>3, <3>4
    <2>2. CASE j # k
      <3>1. dirty[j] \in Entries \ {e, w} /\ entry'[dirty[j]] = entry[dirty[j]]
        BY <1>4, <1>5, <1>9, <2>2 DEF IInv, TypeOK, Stored
      <3>2. \A q \in Procs : hnd'[q] = dirty[j] <=> hnd[q] = dirty[j]
        BY <1>1, <1>11, <3>1
      <3>3. \A q \in Procs : hnd[q] = dirty[j] => pc'[q] = pc[q]
        BY <1>1, <1>11, <3>1
      <3> QED BY <3>1, <3>2, <3>3 DEF IInv, Stored
    <2> QED BY <2>1, <2>2
  <1>18. Held'
    <2> SUFFICES ASSUME NEW q \in Procs, hnd'[q] # Nil
                 PROVE  LET x == dirty[entry'[hnd'[q]].key] IN
                        /\ entry'[hnd'[q]].key \in Keys
                        /\ \/ hnd'[q] = x
                           \/ x # Nil /\ entry'[hnd'[q]].proxyFor = x /\ entry'[x].dirty
                           \/ Private(hnd[q])'
      BY <1>4 DEF Held, Key
    <2>1. CASE q = p
      BY <1>3, <1>9, <1>11, <2>1
    <2>2. CASE q # p /\ hnd[q] = w
      BY <1>3, <1>9, <1>11, <2>2
    <2>3. CASE q # p /\ hnd[q] # w
      <3>1. hnd'[q] = hnd[q] /\ hnd[q] \in Entries \ {e, w} /\ entry'[hnd[q]] = entry[hnd[q]]
        BY <1>4, <1>9, <1>11, <2>3 DEF IInv, TypeOK
      <3>2. LET x == dirty[Key(q)] IN
            /\ Key(q) \in Keys
            /\ \/ hnd[q] = x
               \/ x # Nil /\ entry[hnd[q]].proxyFor = x /\ entry[x].dirty
               \/ Private(hnd[q])
        BY <3>1 DEF IInv, Held
      <3>3. Private(hnd[q])' <=> Private(hnd[q])
        BY <3>1 DEF Private
      <3>4. \A x \in Entries : entry[x].dirty => entry'[x].dirty
        BY <1>4, <1>9 DEF Private
      <3>5. dirty[Key(q)] \in Entries \union {Nil}
        BY <3>2 DEF IInv, TypeOK
      <3> QED BY <3>1, <3>2, <3>3, <3>4, <3>5 DEF Key
    <2> QED BY <2>1, <2>2, <2>3
  <1>19. Unshared'
    <2>1. \A f \in Entries : entry'[f].key = entry[f].key
      BY <1>4, <1>5, <1>9
    <2> QED BY <1>1, <1>4, <1>11, <2>1 DEF IInv, TypeOK, Unshared, Key
  <1>20. Offered'
    <2>1. ASSUME NEW q \in Procs, pc'[q] \in {"won", "lost"}
          PROVE  /\ q # p /\ hnd'[q] = hnd[q] /\ hnd[q] \in Entries \ {e, w}
                 /\ entry'[hnd[q]] = entry[hnd[q]]
      <3>1. q # p /\ pc[q] \in {"won", "lost"} /\ hnd'[q] = hnd[q]
        BY <1>11, <2>1
      <3>2. hnd[q] \in Entries /\ mu[hnd[q]] = q
        BY <3>1 DEF IInv, TypeOK, CallsWellFormed, Offered
      <3> QED BY <1>4, <1>9, <3>1, <3>2
    <2>2. \A q \in Procs : pc'[q] = "won" => \A r \in Procs \ {q} : hnd'[r] # hnd[q]
      BY <1>1, <1>11, <2>1 DEF IInv, Offered
    <2> QED BY <1>4, <1>11, <2>1, <2>2 DEF IInv, TypeOK, Offered, Key, Private
  <1> QED BY <1>12, <1>14, <1>15, <1>16, <1>17, <1>18, <1>19, <1>20 DEF IInv, Bounded

\* An operation at an entry that is dirty changes its copy or marks it.
LEMMA InPlaceStep ==
    ASSUME IInv, NEW p \in Procs, InPlace(p)
    PROVE  IInv'
  <1> USE NamesAssumption, BaseAssumption, BoundsAssumption
  <1>1. PICK e \in Entries : e = at[p]
    BY InPlaceEffect
  <1>2. PICK k \in Keys : k = Key(p)
    BY InPlaceEffect
  <1>3. pc[p] = "enter" /\ entry[e].key = k /\ dirty' = dirty
    BY <1>1, <1>2, InPlaceEffect
  <1>4. \/ heap' = heap /\ entry' = entry
        \/ heap' = [heap EXCEPT ![e][p] = @ + 1] /\ entry' = entry
        \/ /\ Deletes(p) /\ entry[e].dirty /\ heap' = heap
           /\ entry' = [entry EXCEPT ![e] = [@ EXCEPT !.del = TRUE]]
    BY <1>1, <1>2, InPlaceEffect
  <1>5. /\ entry \in [Entries -> EntryType] /\ entry[e] \in EntryType
        /\ heap \in [Keys \union Entries -> [Procs -> 0..MaxChanges]]
        /\ changes \in [Procs -> 0..MaxChanges]
    BY DEF IInv, TypeOK, EntryType
  <1>6. /\ entry' \in [Entries -> EntryType]
        /\ \A f \in Entries :
             /\ entry'[f].key = entry[f].key /\ entry'[f].value = entry[f].value
             /\ entry'[f].proxyFor = entry[f].proxyFor
             /\ entry'[f].dirty <=> entry[f].dirty
             /\ entry[f].del => entry'[f].del
             /\ ~entry[f].dirty => entry'[f] = entry[f]
    <2>1. CASE entry' = entry
      BY <1>5, <2>1
    <2>2. CASE entry[e].dirty /\ entry' = [entry EXCEPT ![e] = [@ EXCEPT !.del = TRUE]]
      <3>1. [entry[e] EXCEPT !.del = TRUE] \in EntryType
        BY <1>5 DEF EntryType
      <3>2. /\ \A f \in Entries : f # e => entry'[f] = entry[f]
            /\ entry'[e] = [entry[e] EXCEPT !.del = TRUE]
            /\ entry' \in [Entries -> EntryType]
        BY <1>5, <2>2, <3>1
      <3> QED BY <1>5, <2>2, <3>2 DEF EntryType
    <2> QED BY <1>4, <2>1, <2>2
  <1>7. /\ pc'[p] = "idle" /\ call'[p] = Nil /\ at'[p] = Nil
        /\ hnd'[p] = IF Deletes(p) THEN Nil ELSE hnd[p]
        /\ \A q \in Procs : q # p =>
             pc'[q] = pc[q] /\ call'[q] = call[q] /\ at'[q] = at[q] /\ hnd'[q] = hnd[q]
        /\ \A f \in Entries, q \in Procs : q # p => (mu'[f] = q <=> mu[f] = q)
        /\ changes' = changes
    BY InPlaceEffect, ReturnEffect
  <1>8. ASSUME NEW o \in Keys \union Entries, NEW q \in Procs
        PROVE  heap'[o][q] + (IF pc'[q] = "idle" THEN 0 ELSE 1) <= changes'[q]
    <2>1. /\ heap[o][q] \in Nat /\ changes[q] \in Nat
          /\ heap[o][q] + (IF pc[q] = "idle" THEN 0 ELSE 1) <= changes[q]
      BY <1>5 DEF IInv, Bounded
    <2>2. heap'[o][q] \in {heap[o][q], heap[o][q] + (IF q = p THEN 1 ELSE 0)}
      BY <1>4, <1>5, <2>1
    <2> QED BY <1>3, <1>7, <2>1, <2>2
  <1>9. heap' \in [Keys \union Entries -> [Procs -> 0..MaxChanges]]
    <2>1. heap[e][p] + 1 \in 0..MaxChanges
      BY <1>3, <1>5 DEF IInv, Bounded
    <2>2. [heap[e] EXCEPT ![p] = @ + 1] \in [Procs -> 0..MaxChanges]
      BY <1>5, <2>1
    <2> QED BY <1>4, <1>5, <2>2
  <1>10. TypeOK'
    BY <1>3, <1>6, <1>7, <1>9, InPlaceEffect, ReturnEffect DEF IInv, TypeOK, EntryType
  <1>11. BaseUntouched'
    <2>1. \A o \in Keys : heap'[o] = heap[o]
      BY <1>4, <1>5
    <2> QED BY <2>1 DEF IInv, BaseUntouched
  <1>12. CallsWellFormed'
    <2>1. \A q \in Procs : q # p /\ pc[q] # "idle" =>
            entry'[hnd[q]].proxyFor = entry[hnd[q]].proxyFor
      BY <1>6 DEF IInv, TypeOK, CallsWellFormed
    <2> QED BY <1>7, <2>1 DEF IInv, CallsWellFormed
  <1>13. Stored'
    <2>1. ASSUME NEW j \in Keys, dirty[j] # Nil, ~entry[dirty[j]].dirty
          PROVE  \A q \in Procs : (hnd'[q] = dirty[j] <=> hnd[q] = dirty[j]) /\
                                  (hnd[q] = dirty[j] => pc'[q] = pc[q])
      BY <1>3, <1>7, <2>1 DEF IInv, Stored
    <2> QED BY <1>3, <1>6, <1>7, <2>1 DEF IInv, TypeOK, Stored
  <1>14. Held'
    <2>1. \A q \in Procs : hnd'[q] # Nil => hnd'[q] = hnd[q] /\ hnd[q] \in Entries
      BY <1>7 DEF IInv, TypeOK
    <2>2. ASSUME NEW q \in Procs, hnd'[q] # Nil PROVE Private(hnd[q]) => Private(hnd[q])'
      BY <1>6, <2>1, <2>2 DEF Private
    <2> QED BY <1>3, <1>6, <2>1, <2>2 DEF IInv, TypeOK, Held, Key
  <1>15. Unshared'
    <2>1. \A q \in Procs : hnd'[q] # Nil =>
            hnd'[q] = hnd[q] /\ hnd[q] \in Entries /\ entry'[hnd[q]].key = entry[hnd[q]].key
      BY <1>6, <1>7 DEF IInv, TypeOK
    <2> QED BY <1>3, <2>1 DEF IInv, Unshared, Key
  <1>16. Offered'
    <2>1. ASSUME NEW q \in Procs, pc'[q] \in {"won", "lost"}
          PROVE  /\ q # p /\ pc[q] = pc'[q] /\ hnd'[q] = hnd[q] /\ hnd[q] \in Entries
                 /\ entry'[hnd[q]] = entry[hnd[q]]
      BY <1>6, <1>7, <2>1 DEF IInv, TypeOK, CallsWellFormed, Offered, Private
    <2>2. \A q \in Procs : pc'[q] = "won" => \A r \in Procs \ {q} : hnd'[r] # hnd[q]
      BY <1>7, <2>1 DEF IInv, Offered
    <2> QED BY <1>3, <1>7, <2>1, <2>2 DEF IInv, TypeOK, Offered, Key, Private
  <1> QED BY <1>8, <1>10, <1>11, <1>12, <1>13, <1>14, <1>15, <1>16 DEF IInv, Bounded

-----------------------------------------------------------------------------
(* Every other step *)

\* The variables keep their types.
LEMMA TypeOKStep ==
    ASSUME IInv, [Next]_vars
    PROVE  TypeOK'
  <1> USE NamesAssumption, BaseAssumption, BoundsAssumption, OpsAssumption DEF IInv
  <1>1. CASE UNCHANGED vars
    BY <1>1 DEF TypeOK, Zero, Bounded, vars
  <1>2. CASE Finalize
    BY <1>2 DEF TypeOK, Zero, Bounded, Finalize
  <1>3. ASSUME NEW p \in Procs, NEW k \in Keys, LoadDirty(p, k) PROVE TypeOK'
    BY <1>3 DEF TypeOK, Zero, Bounded, LoadDirty, Idle
  <1>4. ASSUME NEW p \in Procs, NEW k \in Keys, LoadBase(p, k) PROVE TypeOK'
    <2>1. PICK e \in Entries :
            /\ entry' = [entry EXCEPT ![e] = [NoEntry EXCEPT !.key = k, !.value = k]]
            /\ hnd' = [hnd EXCEPT ![p] = e]
      BY <1>4 DEF LoadBase, Free
    <2>2. [NoEntry EXCEPT !.key = k, !.value = k] \in EntryType
      BY DEF NoEntry, EntryType
    <2>3. entry' \in [Entries -> EntryType] /\ hnd' \in [Procs -> Entries \union {Nil}]
      BY <2>1, <2>2 DEF TypeOK, EntryType
    <2> QED BY <1>4, <2>3 DEF TypeOK, EntryType, LoadBase
  <1>5. ASSUME NEW p \in Procs, NEW k \in Keys, StoreNew(p, k) PROVE TypeOK'
    <2>1. PICK e \in Entries :
            /\ entry' = [entry EXCEPT ![e] = [NoEntry EXCEPT !.key = k, !.value = e, !.dirty = TRUE]]
            /\ heap' = [heap EXCEPT ![e] = Zero]
            /\ dirty' = [dirty EXCEPT ![k] = e]
            /\ hnd' = [hnd EXCEPT ![p] = e]
      BY <1>5 DEF StoreNew, Free
    <2>2. [NoEntry EXCEPT !.key = k, !.value = e, !.dirty = TRUE] \in EntryType
      BY DEF NoEntry, EntryType
    <2>3. Zero \in [Procs -> 0..MaxChanges]
      BY DEF Zero
    <2>4. /\ entry' \in [Entries -> EntryType] /\ hnd' \in [Procs -> Entries \union {Nil}]
          /\ heap' \in [Keys \union Entries -> [Procs -> 0..MaxChanges]]
          /\ dirty' \in [Keys -> Entries \union {Nil}]
      BY <2>1, <2>2, <2>3 DEF TypeOK, EntryType
    <2> QED BY <1>5, <2>4 DEF TypeOK, EntryType, StoreNew
  <1>6. ASSUME NEW p \in Procs, NEW op \in Ops, Call(p, op) PROVE TypeOK'
    BY <1>6 DEF TypeOK, Zero, Bounded, Call, Idle
  <1>7. ASSUME NEW p \in Procs, Forget(p) PROVE TypeOK'
    BY <1>7 DEF TypeOK, Zero, Bounded, Forget, Idle
  <1>8. ASSUME NEW p \in Procs, Forward(p) PROVE TypeOK'
    BY <1>8, AtEntry DEF TypeOK, Zero, Bounded, Forward
  <1>9. ASSUME NEW p \in Procs, InPlace(p) PROVE TypeOK'
    BY <1>9, InPlaceStep DEF IInv
  <1>10. ASSUME NEW p \in Procs, Offer(p) PROVE TypeOK'
    <2>1. at[p] \in Entries /\ entry[at[p]].key \in Keys
      BY <1>10, AtEntry DEF Offer
    <2>2. /\ mu' \in [Entries -> Procs \union {Nil}] /\ dirty' \in [Keys -> Entries \union {Nil}]
          /\ pc' \in [Procs -> {"idle", "enter", "won", "lost"}]
      BY <1>10, <2>1, ZenonT(60) DEF TypeOK, Offer
    <2> QED BY <1>10, <2>2 DEF TypeOK, Offer
  <1>11. ASSUME NEW p \in Procs, Won(p) PROVE TypeOK'
    BY <1>11, WonStep DEF IInv
  <1>12. ASSUME NEW p \in Procs, Lost(p) PROVE TypeOK'
    BY <1>12, LostStep DEF IInv
  <1> QED BY <1>1, <1>2, <1>3, <1>4, <1>5, <1>6, <1>7, <1>8, <1>9, <1>10, <1>11, <1>12
          DEF Next, Finished

\* A goroutine in a call stays at its entry, or is sent on by it.
LEMMA CallsWellFormedStep ==
    ASSUME IInv, [Next]_vars
    PROVE  CallsWellFormed'
  <1> USE NamesAssumption, BaseAssumption, BoundsAssumption, OpsAssumption DEF IInv
  <1>1. CASE UNCHANGED vars
    BY <1>1 DEF TypeOK, CallsWellFormed, Held, Key, Private, Stored, Unshared, Offered, vars
  <1>2. CASE Finalize
    BY <1>2 DEF TypeOK, CallsWellFormed, Held, Key, Private, Stored, Unshared, Offered, Finalize
  <1>3. ASSUME NEW p \in Procs, NEW k \in Keys, LoadDirty(p, k) PROVE CallsWellFormed'
    BY <1>3 DEF TypeOK, CallsWellFormed, Held, Key, Private, Stored, Unshared, Offered, LoadDirty,
       Idle
  <1>4. ASSUME NEW p \in Procs, NEW k \in Keys, LoadBase(p, k) PROVE CallsWellFormed'
    BY <1>4 DEF TypeOK, CallsWellFormed, Held, Key, Private, Stored, Unshared, Offered, LoadBase,
       Idle, Free, NoEntry
  <1>5. ASSUME NEW p \in Procs, NEW k \in Keys, StoreNew(p, k) PROVE CallsWellFormed'
    BY <1>5 DEF TypeOK, CallsWellFormed, Held, Key, Private, Stored, Unshared, Offered, StoreNew,
       Idle, Free, NoEntry
  <1>6. ASSUME NEW p \in Procs, NEW op \in Ops, Call(p, op) PROVE CallsWellFormed'
    BY <1>6 DEF TypeOK, CallsWellFormed, Held, Key, Private, Stored, Unshared, Offered, Call, Idle
  <1>7. ASSUME NEW p \in Procs, Forget(p) PROVE CallsWellFormed'
    BY <1>7 DEF TypeOK, CallsWellFormed, Held, Key, Private, Stored, Unshared, Offered, Forget, Idle
  <1>8. ASSUME NEW p \in Procs, Forward(p) PROVE CallsWellFormed'
    BY <1>8, AtEntry
    DEF TypeOK, CallsWellFormed, Held, Key, Private, Stored, Unshared, Offered, Forward
  <1>9. ASSUME NEW p \in Procs, InPlace(p) PROVE CallsWellFormed'
    BY <1>9, InPlaceStep DEF IInv
  <1>10. ASSUME NEW p \in Procs, Offer(p) PROVE CallsWellFormed'
    BY <1>10, AtEntry
    DEF TypeOK, CallsWellFormed, Held, Key, Private, Stored, Unshared, Offered, Offer
  <1>11. ASSUME NEW p \in Procs, Won(p) PROVE CallsWellFormed'
    BY <1>11, WonStep DEF IInv
  <1>12. ASSUME NEW p \in Procs, Lost(p) PROVE CallsWellFormed'
    BY <1>12, LostStep DEF IInv
  <1> QED BY <1>1, <1>2, <1>3, <1>4, <1>5, <1>6, <1>7, <1>8, <1>9, <1>10, <1>11, <1>12
          DEF Next, Finished

\* The entries of the dirty map stay there, and get copies before they are shared.
LEMMA StoredStep ==
    ASSUME IInv, [Next]_vars
    PROVE  Stored'
  <1> USE NamesAssumption, BaseAssumption, BoundsAssumption, OpsAssumption DEF IInv
  <1>1. CASE UNCHANGED vars
    BY <1>1 DEF TypeOK, CallsWellFormed, Held, Key, Private, Stored, Unshared, Offered, vars
  <1>2. CASE Finalize
    BY <1>2 DEF TypeOK, CallsWellFormed, Held, Key, Private, Stored, Unshared, Offered, Finalize
  <1>3. ASSUME NEW p \in Procs, NEW k \in Keys, LoadDirty(p, k) PROVE Stored'
    BY <1>3 DEF TypeOK, CallsWellFormed, Held, Key, Private, Stored, Unshared, Offered, LoadDirty,
       Idle
  <1>4. ASSUME NEW p \in Procs, NEW k \in Keys, LoadBase(p, k) PROVE Stored'
    BY <1>4 DEF TypeOK, CallsWellFormed, Held, Key, Private, Stored, Unshared, Offered, LoadBase,
       Idle, Free, NoEntry
  <1>5. ASSUME NEW p \in Procs, NEW k \in Keys, StoreNew(p, k) PROVE Stored'
    BY <1>5 DEF TypeOK, CallsWellFormed, Held, Key, Private, Stored, Unshared, Offered, StoreNew,
       Idle, Free, NoEntry
  <1>6. ASSUME NEW p \in Procs, NEW op \in Ops, Call(p, op) PROVE Stored'
    BY <1>6 DEF TypeOK, CallsWellFormed, Held, Key, Private, Stored, Unshared, Offered, Call, Idle
  <1>7. ASSUME NEW p \in Procs, Forget(p) PROVE Stored'
    BY <1>7 DEF TypeOK, CallsWellFormed, Held, Key, Private, Stored, Unshared, Offered, Forget, Idle
  <1>8. ASSUME NEW p \in Procs, Forward(p) PROVE Stored'
    BY <1>8, AtEntry
    DEF TypeOK, CallsWellFormed, Held, Key, Private, Stored, Unshared, Offered, Forward
  <1>9. ASSUME NEW p \in Procs, InPlace(p) PROVE Stored'
    BY <1>9, InPlaceStep DEF IInv
  <1>10. ASSUME NEW p \in Procs, Offer(p) PROVE Stored'
    BY <1>10, AtEntry
    DEF TypeOK, CallsWellFormed, Held, Key, Private, Stored, Unshared, Offered, Offer
  <1>11. ASSUME NEW p \in Procs, Won(p) PROVE Stored'
    BY <1>11, WonStep DEF IInv
  <1>12. ASSUME NEW p \in Procs, Lost(p) PROVE Stored'
    BY <1>12, LostStep DEF IInv
  <1> QED BY <1>1, <1>2, <1>3, <1>4, <1>5, <1>6, <1>7, <1>8, <1>9, <1>10, <1>11, <1>12
          DEF Next, Finished

\* What goroutines have is the dirty map's, a proxy of it, or private.
LEMMA HeldStep ==
    ASSUME IInv, [Next]_vars
    PROVE  Held'
  <1> USE NamesAssumption, BaseAssumption, BoundsAssumption, OpsAssumption DEF IInv
  <1>1. CASE UNCHANGED vars
    BY <1>1 DEF TypeOK, CallsWellFormed, Held, Key, Private, Stored, Unshared, Offered, vars
  <1>2. CASE Finalize
    BY <1>2 DEF TypeOK, CallsWellFormed, Held, Key, Private, Stored, Unshared, Offered, Finalize
  <1>3. ASSUME NEW p \in Procs, NEW k \in Keys, LoadDirty(p, k) PROVE Held'
    BY <1>3 DEF TypeOK, CallsWellFormed, Held, Key, Private, Stored, Unshared, Offered, LoadDirty,
       Idle
  <1>4. ASSUME NEW p \in Procs, NEW k \in Keys, LoadBase(p, k) PROVE Held'
    BY <1>4, SMTT(30)
    DEF TypeOK, CallsWellFormed, Held, Key, Private, Stored, Unshared, Offered, LoadBase,
       Idle, Free, NoEntry
  <1>5. ASSUME NEW p \in Procs, NEW k \in Keys, StoreNew(p, k) PROVE Held'
    BY <1>5, SMTT(30)
    DEF TypeOK, CallsWellFormed, Held, Key, Private, Stored, Unshared, Offered, StoreNew,
       Idle, Free, NoEntry
  <1>6. ASSUME NEW p \in Procs, NEW op \in Ops, Call(p, op) PROVE Held'
    BY <1>6 DEF TypeOK, CallsWellFormed, Held, Key, Private, Stored, Unshared, Offered, Call, Idle
  <1>7. ASSUME NEW p \in Procs, Forget(p) PROVE Held'
    BY <1>7 DEF TypeOK, CallsWellFormed, Held, Key, Private, Stored, Unshared, Offered, Forget, Idle
  <1>8. ASSUME NEW p \in Procs, Forward(p) PROVE Held'
    BY <1>8, AtEntry
    DEF TypeOK, CallsWellFormed, Held, Key, Private, Stored, Unshared, Offered, Forward
  <1>9. ASSUME NEW p \in Procs, InPlace(p) PROVE Held'
    BY <1>9, InPlaceStep DEF IInv
  <1>10. ASSUME NEW p \in Procs, Offer(p) PROVE Held'
    BY <1>10, AtEntry
    DEF TypeOK, CallsWellFormed, Held, Key, Private, Stored, Unshared, Offered, Offer
  <1>11. ASSUME NEW p \in Procs, Won(p) PROVE Held'
    BY <1>11, WonStep DEF IInv
  <1>12. ASSUME NEW p \in Procs, Lost(p) PROVE Held'
    BY <1>12, LostStep DEF IInv
  <1> QED BY <1>1, <1>2, <1>3, <1>4, <1>5, <1>6, <1>7, <1>8, <1>9, <1>10, <1>11, <1>12
          DEF Next, Finished

\* A private entry has one owner.
LEMMA UnsharedStep ==
    ASSUME IInv, [Next]_vars
    PROVE  Unshared'
  <1> USE NamesAssumption, BaseAssumption, BoundsAssumption, OpsAssumption DEF IInv
  <1>1. CASE UNCHANGED vars
    BY <1>1 DEF TypeOK, CallsWellFormed, Held, Key, Private, Stored, Unshared, Offered, vars
  <1>2. CASE Finalize
    BY <1>2 DEF TypeOK, CallsWellFormed, Held, Key, Private, Stored, Unshared, Offered, Finalize
  <1>3. ASSUME NEW p \in Procs, NEW k \in Keys, LoadDirty(p, k) PROVE Unshared'
    BY <1>3 DEF TypeOK, CallsWellFormed, Held, Key, Private, Stored, Unshared, Offered, LoadDirty,
       Idle
  <1>4. ASSUME NEW p \in Procs, NEW k \in Keys, LoadBase(p, k) PROVE Unshared'
    BY <1>4 DEF TypeOK, CallsWellFormed, Held, Key, Private, Stored, Unshared, Offered, LoadBase,
       Idle, Free, NoEntry
  <1>5. ASSUME NEW p \in Procs, NEW k \in Keys, StoreNew(p, k) PROVE Unshared'
    BY <1>5 DEF TypeOK, CallsWellFormed, Held, Key, Private, Stored, Unshared, Offered, StoreNew,
       Idle, Free, NoEntry
  <1>6. ASSUME NEW p \in Procs, NEW op \in Ops, Call(p, op) PROVE Unshared'
    BY <1>6 DEF TypeOK, CallsWellFormed, Held, Key, Private, Stored, Unshared, Offered, Call, Idle
  <1>7. ASSUME NEW p \in Procs, Forget(p) PROVE Unshared'
    BY <1>7 DEF TypeOK, CallsWellFormed, Held, Key, Private, Stored, Unshared, Offered, Forget, Idle
  <1>8. ASSUME NEW p \in Procs, Forward(p) PROVE Unshared'
    BY <1>8, AtEntry
    DEF TypeOK, CallsWellFormed, Held, Key, Private, Stored, Unshared, Offered, Forward
  <1>9. ASSUME NEW p \in Procs, InPlace(p) PROVE Unshared'
    BY <1>9, InPlaceStep DEF IInv
  <1>10. ASSUME NEW p \in Procs, Offer(p) PROVE Unshared'
    BY <1>10, AtEntry
    DEF TypeOK, CallsWellFormed, Held, Key, Private, Stored, Unshared, Offered, Offer
  <1>11. ASSUME NEW p \in Procs, Won(p) PROVE Unshared'
    BY <1>11, WonStep DEF IInv
  <1>12. ASSUME NEW p \in Procs, Lost(p) PROVE Unshared'
    BY <1>12, LostStep DEF IInv
  <1> QED BY <1>1, <1>2, <1>3, <1>4, <1>5, <1>6, <1>7, <1>8, <1>9, <1>10, <1>11, <1>12
          DEF Next, Finished

\* An entry that is offered to the dirty map stays locked.
LEMMA OfferedStep ==
    ASSUME IInv, [Next]_vars
    PROVE  Offered'
  <1> USE NamesAssumption, BaseAssumption, BoundsAssumption, OpsAssumption DEF IInv
  <1>1. CASE UNCHANGED vars
    BY <1>1 DEF TypeOK, CallsWellFormed, Held, Key, Private, Stored, Unshared, Offered, vars
  <1>2. CASE Finalize
    BY <1>2 DEF TypeOK, CallsWellFormed, Held, Key, Private, Stored, Unshared, Offered, Finalize
  <1>3. ASSUME NEW p \in Procs, NEW k \in Keys, LoadDirty(p, k) PROVE Offered'
    BY <1>3 DEF TypeOK, CallsWellFormed, Held, Key, Private, Stored, Unshared, Offered, LoadDirty,
       Idle
  <1>4. ASSUME NEW p \in Procs, NEW k \in Keys, LoadBase(p, k) PROVE Offered'
    BY <1>4 DEF TypeOK, CallsWellFormed, Held, Key, Private, Stored, Unshared, Offered, LoadBase,
       Idle, Free, NoEntry
  <1>5. ASSUME NEW p \in Procs, NEW k \in Keys, StoreNew(p, k) PROVE Offered'
    BY <1>5 DEF TypeOK, CallsWellFormed, Held, Key, Private, Stored, Unshared, Offered, StoreNew,
       Idle, Free, NoEntry
  <1>6. ASSUME NEW p \in Procs, NEW op \in Ops, Call(p, op) PROVE Offered'
    BY <1>6 DEF TypeOK, CallsWellFormed, Held, Key, Private, Stored, Unshared, Offered, Call, Idle
  <1>7. ASSUME NEW p \in Procs, Forget(p) PROVE Offered'
    BY <1>7 DEF TypeOK, CallsWellFormed, Held, Key, Private, Stored, Unshared, Offered, Forget, Idle
  <1>8. ASSUME NEW p \in Procs, Forward(p) PROVE Offered'
    BY <1>8, AtEntry
    DEF TypeOK, CallsWellFormed, Held, Key, Private, Stored, Unshared, Offered, Forward
  <1>9. ASSUME NEW p \in Procs, InPlace(p) PROVE Offered'
    BY <1>9, InPlaceStep DEF IInv
  <1>10. ASSUME NEW p \in Procs, Offer(p) PROVE Offered'
    BY <1>10, AtEntry
    DEF TypeOK, CallsWellFormed, Held, Key, Private, Stored, Unshared, Offered, Offer
  <1>11. ASSUME NEW p \in Procs, Won(p) PROVE Offered'
    BY <1>11, WonStep DEF IInv
  <1>12. ASSUME NEW p \in Procs, Lost(p) PROVE Offered'
    BY <1>12, LostStep DEF IInv
  <1> QED BY <1>1, <1>2, <1>3, <1>4, <1>5, <1>6, <1>7, <1>8, <1>9, <1>10, <1>11, <1>12
          DEF Next, Finished

\* Every call makes one change at most.
LEMMA BoundedStep ==
    ASSUME IInv, [Next]_vars
    PROVE  Bounded'
  <1> USE NamesAssumption, BaseAssumption, BoundsAssumption, OpsAssumption DEF IInv
  <1>1. CASE UNCHANGED vars
    BY <1>1 DEF TypeOK, Bounded, Zero, CallsWellFormed, Stored, vars
  <1>2. CASE Finalize
    BY <1>2 DEF TypeOK, Bounded, Zero, CallsWellFormed, Stored, Finalize
  <1>3. ASSUME NEW p \in Procs, NEW k \in Keys, LoadDirty(p, k) PROVE Bounded'
    BY <1>3 DEF TypeOK, Bounded, Zero, CallsWellFormed, Stored, LoadDirty, Idle
  <1>4. ASSUME NEW p \in Procs, NEW k \in Keys, LoadBase(p, k) PROVE Bounded'
    BY <1>4 DEF TypeOK, Bounded, Zero, CallsWellFormed, Stored, LoadBase, Idle, Free, NoEntry
  <1>5. ASSUME NEW p \in Procs, NEW k \in Keys, StoreNew(p, k) PROVE Bounded'
    BY <1>5 DEF TypeOK, Bounded, Zero, CallsWellFormed, Stored, StoreNew, Idle, Free, NoEntry
  <1>6. ASSUME NEW p \in Procs, NEW op \in Ops, Call(p, op) PROVE Bounded'
    BY <1>6 DEF TypeOK, Bounded, Zero, CallsWellFormed, Stored, Call, Idle
  <1>7. ASSUME NEW p \in Procs, Forget(p) PROVE Bounded'
    BY <1>7 DEF TypeOK, Bounded, Zero, CallsWellFormed, Stored, Forget, Idle
  <1>8. ASSUME NEW p \in Procs, Forward(p) PROVE Bounded'
    BY <1>8, AtEntry DEF TypeOK, Bounded, Zero, CallsWellFormed, Stored, Forward
  <1>9. ASSUME NEW p \in Procs, InPlace(p) PROVE Bounded'
    BY <1>9, InPlaceStep DEF IInv
  <1>10. ASSUME NEW p \in Procs, Offer(p) PROVE Bounded'
    BY <1>10, AtEntry DEF TypeOK, Bounded, Zero, CallsWellFormed, Stored, Offer
  <1>11. ASSUME NEW p \in Procs, Won(p) PROVE Bounded'
    BY <1>11, WonStep DEF IInv
  <1>12. ASSUME NEW p \in Procs, Lost(p) PROVE Bounded'
    BY <1>12, LostStep DEF IInv
  <1> QED BY <1>1, <1>2, <1>3, <1>4, <1>5, <1>6, <1>7, <1>8, <1>9, <1>10, <1>11, <1>12
          DEF Next, Finished

\* Copies are changed, never base values.
LEMMA BaseUntouchedStep ==
    ASSUME IInv, [Next]_vars
    PROVE  BaseUntouched'
  <1> USE NamesAssumption, BaseAssumption, BoundsAssumption, OpsAssumption DEF IInv
  <1>1. CASE UNCHANGED vars
    BY <1>1 DEF TypeOK, BaseUntouched, Zero, CallsWellFormed, vars
  <1>2. CASE Finalize
    BY <1>2 DEF TypeOK, BaseUntouched, Zero, CallsWellFormed, Finalize
  <1>3. ASSUME NEW p \in Procs, NEW k \in Keys, LoadDirty(p, k) PROVE BaseUntouched'
    BY <1>3 DEF TypeOK, BaseUntouched, Zero, CallsWellFormed, LoadDirty, Idle
  <1>4. ASSUME NEW p \in Procs, NEW k \in Keys, LoadBase(p, k) PROVE BaseUntouched'
    BY <1>4 DEF TypeOK, BaseUntouched, Zero, CallsWellFormed, LoadBase, Idle, Free, NoEntry
  <1>5. ASSUME NEW p \in Procs, NEW k \in Keys, StoreNew(p, k) PROVE BaseUntouched'
    BY <1>5 DEF TypeOK, BaseUntouched, Zero, CallsWellFormed, StoreNew, Idle, Free, NoEntry
  <1>6. ASSUME NEW p \in Procs, NEW op \in Ops, Call(p, op) PROVE BaseUntouched'
    BY <1>6 DEF TypeOK, BaseUntouched, Zero, CallsWellFormed, Call, Idle
  <1>7. ASSUME NEW p \in Procs, Forget(p) PROVE BaseUntouched'
    BY <1>7 DEF TypeOK, BaseUntouched, Zero, CallsWellFormed, Forget, Idle
  <1>8. ASSUME NEW p \in Procs, Forward(p) PROVE BaseUntouched'
    BY <1>8, AtEntry DEF TypeOK, BaseUntouched, Zero, CallsWellFormed, Forward
  <1>9. ASSUME NEW p \in Procs, InPlace(p) PROVE BaseUntouched'
    BY <1>9, InPlaceStep DEF IInv
  <1>10. ASSUME NEW p \in Procs, Offer(p) PROVE BaseUntouched'
    BY <1>10, AtEntry DEF TypeOK, BaseUntouched, Zero, CallsWellFormed, Offer
  <1>11. ASSUME NEW p \in Procs, Won(p) PROVE BaseUntouched'
    BY <1>11, WonStep DEF IInv
  <1>12. ASSUME NEW p \in Procs, Lost(p) PROVE BaseUntouched'
    BY <1>12, LostStep DEF IInv
  <1> QED BY <1>1, <1>2, <1>3, <1>4, <1>5, <1>6, <1>7, <1>8, <1>9, <1>10, <1>11, <1>12
          DEF Next, Finished

-----------------------------------------------------------------------------
(* Invariants *)

\* A new map has no entries.
LEMMA InitInv == Init => IInv
  <1> SUFFICES ASSUME Init PROVE IInv
    OBVIOUS
  <1> USE NamesAssumption, BaseAssumption, BoundsAssumption DEF Init
  <1>1. TypeOK
    BY DEF TypeOK, Zero, NoEntry
  <1>2. CallsWellFormed /\ Stored /\ Held /\ Unshared /\ Offered
    BY DEF CallsWellFormed, Stored, Held, Unshared, Offered
  <1>3. Bounded /\ BaseUntouched
    BY DEF Bounded, BaseUntouched, Zero
  <1> QED BY <1>1, <1>2, <1>3 DEF IInv

\* IInv is an invariant: every step keeps each of its parts.
THEOREM Inductive == Spec => []IInv
  <1>1. IInv /\ [Next]_vars => IInv'
    BY TypeOKStep, CallsWellFormedStep, StoredStep, HeldStep, UnsharedStep, OfferedStep,
       BoundedStep,
       BaseUntouchedStep
    DEF IInv
  <1> QED BY InitInv, <1>1, PTL DEF Spec

\* The values of the old snapshot are never written (SyncMapEntry.Change, ChangeIf, Delete),
\* by any number of goroutines and whether or not deletions race.
THEOREM BaseValuesUntouched == Spec => []BaseUntouched
  <1>1. IInv => BaseUntouched
    BY DEF IInv
  <1> QED BY Inductive, <1>1, PTL

\* Whoever has made a change has the entry of the dirty map or a proxy of it, in any
\* interleaving of the changes and deletions of a key.
THEOREM HandlesLead == Spec => []HandlesAgree
  <1>1. IInv => HandlesAgree
    <2> SUFFICES ASSUME IInv, NEW p \in Procs, hnd[p] # Nil,
                        entry[hnd[p]].dirty \/ entry[hnd[p]].proxyFor # Nil
                 PROVE  LET w == dirty[Key(p)] IN
                        /\ w # Nil
                        /\ hnd[p] = w \/ (entry[hnd[p]].proxyFor = w /\ entry[w].proxyFor = Nil)
      BY DEF HandlesAgree, IInv
    <2>1. LET w == dirty[Key(p)] IN
          /\ Key(p) \in Keys
          /\ hnd[p] = w \/ (w # Nil /\ entry[hnd[p]].proxyFor = w)
      BY DEF IInv, Held, Private
    <2> QED BY <2>1 DEF IInv, Stored
  <1> QED BY Inductive, <1>1, PTL

-----------------------------------------------------------------------------
(* Discipline *)

\* Whoever calls Delete stays alone: the others cannot get an entry until it returns.
LEMMA AloneStep ==
    ASSUME IInv, Alone, Disciplined, [Next]_vars
    PROVE  Alone'
  <1> SUFFICES ASSUME NEW p \in Procs, call'[p] = "delete" PROVE Sequential(p)'
    BY DEF Alone
  <1> USE NamesAssumption, OpsAssumption DEF Disciplined
  <1>1. CASE UNCHANGED vars
    BY <1>1 DEF Alone, Sequential, Key, vars
  <1>2. CASE Finalize
    BY <1>2, NilAssumption DEF Finalize, IInv, CallsWellFormed
  <1>3. ASSUME NEW q \in Procs, NEW k \in Keys, LoadDirty(q, k) \/ LoadBase(q, k) \/ StoreNew(q, k)
        PROVE  FALSE
    BY <1>3 DEF LoadDirty, LoadBase, StoreNew, Idle
  <1>4. ASSUME NEW q \in Procs, NEW op \in Ops, Call(q, op) PROVE Sequential(p)'
    <2>1. /\ \A r \in Procs : call[r] # "delete"
          /\ op = "delete" => Sequential(q)
          /\ call' = [call EXCEPT ![q] = op] /\ UNCHANGED <<hnd, entry, dirty>>
      BY <1>4 DEF Call, Idle
    <2>2. p = q /\ op = "delete"
      BY <2>1 DEF IInv, TypeOK
    <2> QED BY <2>1, <2>2 DEF Sequential, Key
  <1>5. ASSUME NEW q \in Procs, Forget(q) PROVE FALSE
    BY <1>5 DEF Forget, Idle
  <1>6. ASSUME NEW q \in Procs, Forward(q) PROVE Sequential(p)'
    BY <1>6 DEF Forward, Alone, Sequential, Key
  <1>7. ASSUME NEW q \in Procs, InPlace(q) \/ Won(q) \/ Lost(q) PROVE FALSE
    <2>1. pc[q] # "idle" /\ Return(q)
      BY <1>7 DEF InPlace, Won, Lost
    <2>2. call \in [Procs -> Ops \union {Nil}] /\ call' = [call EXCEPT ![q] = Nil]
      BY <2>1 DEF Return, IInv, TypeOK
    <2>3. Nil # "delete"
      BY <2>2, NilAssumption
    <2>4. q # p
      BY <2>2, <2>3
    <2>5. call[p] = "delete"
      BY <2>2, <2>4
    <2>6. hnd[q] # Nil
      BY <2>1 DEF IInv, CallsWellFormed
    <2> QED BY <2>4, <2>5, <2>6 DEF Alone, Sequential
  <1>8. ASSUME NEW q \in Procs, Offer(q) PROVE Sequential(p)'
    <2>1. call[p] = "delete" /\ pc[q] = "enter" /\ UNCHANGED <<entry, hnd>>
      BY <1>8 DEF Offer
    <2>2. hnd[q] # Nil
      BY <2>1 DEF IInv, CallsWellFormed
    <2>3. q = p /\ Sequential(p)
      BY <2>1, <2>2 DEF Alone, Sequential
    <2>4. at[p] = hnd[p] /\ entry[at[p]].key = Key(p) /\ Key(p) \in Keys
      BY <1>8, <2>1, <2>3, AtEntry DEF Offer
    <2>5. dirty'[Key(p)] \in {dirty[Key(p)], hnd[p]}
      BY <1>8, <2>3, <2>4 DEF Offer, IInv, TypeOK
    <2> QED BY <2>1, <2>3, <2>5 DEF Sequential, Key
  <1> QED BY <1>1, <1>2, <1>3, <1>4, <1>5, <1>6, <1>7, <1>8 DEF Next, Finished

-----------------------------------------------------------------------------
(* SyncMap implements OverlayMap *)

\* The state of OverlayMap.
M == [k \in Keys |-> Overlay(k)]
Pend == [p \in Procs |-> IF call[p] = Nil THEN Nil ELSE [op |-> call[p], key |-> Key(p)]]

\* What the dirty map has for a key, by the form of the key's entry.
Val(k) ==
    IF dirty[k] = Nil THEN IF k \in Base THEN Zero ELSE Absent
    ELSE IF entry[dirty[k]].del THEN Deleted
    ELSE IF entry[dirty[k]].dirty THEN heap[dirty[k]] ELSE Zero

\* The value of a key is that of its entry, or the base value.
LEMMA OverlayValue == IInv => M = [k \in Keys |-> Val(k)]
  <1> SUFFICES ASSUME IInv, NEW k \in Keys PROVE Overlay(k) = Val(k)
    BY DEF M
  <1> USE NamesAssumption DEF IInv
  <1>1. dirty[k] # Nil =>
          LET w == dirty[k] IN
          /\ entry[w].dirty \in BOOLEAN /\ entry[w].del \in BOOLEAN
          /\ entry[w].dirty => entry[w].value = w
          /\ ~entry[w].dirty => entry[w].value = k
    BY DEF Stored, TypeOK
  <1>2. heap[k] = Zero
    BY DEF BaseUntouched
  <1> QED BY <1>1, <1>2 DEF Overlay, Val

\* So is it in the next state.
LEMMA OverlayValueNext == IInv' => M' = [k \in Keys |-> Val(k)']
  <1>1. (IInv => M = [k \in Keys |-> Val(k)])'
    BY OverlayValue, PTL
  <1> QED BY <1>1

\* A value is neither of the two marks.
LEMMA Values ==
    ASSUME IInv, NEW k \in Keys
    PROVE  /\ Zero \notin {Absent, Deleted} /\ heap[k] = Zero
           /\ \A e \in Entries : heap[e] \notin {Absent, Deleted} /\ heap[e] \in [Procs -> Nat]
  <1>1. Zero \in [Procs -> Nat]
    BY DEF Zero
  <1>2. \A e \in Entries : heap[e] \in [Procs -> Nat]
    BY BoundsAssumption DEF IInv, TypeOK
  <1> QED BY <1>1, <1>2, ValuesAssumption DEF IInv, BaseUntouched

\* The first state.
LEMMA InitSimulated == Init => Abstract!Init
  <1> SUFFICES ASSUME Init PROVE Abstract!Init
    OBVIOUS
  <1>1. [k \in Keys |-> Overlay(k)] = [k \in Keys |-> IF k \in Base THEN Zero ELSE Absent]
    BY DEF Init, Overlay
  <1>2. [p \in Procs |-> IF call[p] = Nil THEN Nil ELSE [op |-> call[p], key |-> Key(p)]] = [p \in Procs |-> Nil]
    BY DEF Init
  <1> QED BY <1>1, <1>2 DEF Abstract!Init, Abstract!Zero, Zero, Init

\* The steps of OverlayMap, over the state M, Pend and final: a new key.
LEMMA AddStep ==
    ASSUME NEW k \in Keys, final = Nil, M[k] = Absent, M' = [M EXCEPT ![k] = Zero],
           Pend' = Pend, final' = final
    PROVE  Abstract!Next
  BY DEF Abstract!Next, Abstract!Add, Abstract!Zero, Zero, M, Pend

\* The call of an operation.
LEMMA InvokeStep ==
    ASSUME NEW p \in Procs, NEW op \in Ops, NEW k \in Keys, final = Nil, Pend[p] = Nil,
           Pend' = [Pend EXCEPT ![p] = [op |-> op, key |-> k]], M' = M, final' = final
    PROVE  Abstract!Next
  BY OpsAssumption DEF Abstract!Next, Abstract!Invoke, M, Pend

\* The operation itself.
LEMMA DoStep ==
    ASSUME NEW p \in Procs, NEW op, NEW k \in Keys,
           Pend[p] # Nil, Pend[p] = [op |-> op, key |-> k],
           Pend' = [Pend EXCEPT ![p] = Nil], final' = final,
           \/ /\ op \in {"change", "changeIf"}
              /\ M' = IF M[k] \in {Absent, Deleted} THEN M ELSE [M EXCEPT ![k][p] = @ + 1]
           \/ op = "changeIf" /\ M[k] # Zero /\ M' = M
           \/ op \in {"delete", "deleteLocked"} /\ M' = [M EXCEPT ![k] = Deleted]
    PROVE  Abstract!Next
  <1>1. Pend[p].op = op /\ Pend[p].key = k
    OBVIOUS
  <1>2. Abstract!Do(p)
    BY <1>1 DEF Abstract!Do, Abstract!Changed, Abstract!Zero, Zero, M, Pend
  <1> QED BY <1>2 DEF Abstract!Next

\* What a goroutine in a call has pending.
LEMMA PendingCall ==
    ASSUME IInv, NEW p \in Procs, pc[p] # "idle"
    PROVE  /\ call[p] \in Ops /\ Key(p) \in Keys
           /\ Pend[p] # Nil /\ Pend[p] = [op |-> call[p], key |-> Key(p)]
  <1>1. call[p] # Nil /\ call[p] \in Ops /\ hnd[p] # Nil
    BY DEF IInv, CallsWellFormed, TypeOK
  <1>2. Key(p) \in Keys
    BY <1>1 DEF IInv, Held
  <1>3. Pend[p] = [op |-> call[p], key |-> Key(p)] /\ Pend[p] \in [op : Ops, key : Keys]
    BY <1>1, <1>2 DEF Pend
  <1> QED BY <1>1, <1>2, <1>3, NilAssumption

\* A step that starts and ends no call, and leaves the keys of those in a call alone.
LEMMA PendingSame ==
    ASSUME call' = call, \A q \in Procs : call[q] # Nil => Key(q)' = Key(q)
    PROVE  Pend' = Pend
  BY DEF Pend

\* A return ends one call.
LEMMA PendingDone ==
    ASSUME NEW p \in Procs, call'[p] = Nil,
           \A q \in Procs : q # p => call'[q] = call[q] /\ (call[q] # Nil => Key(q)' = Key(q))
    PROVE  Pend' = [Pend EXCEPT ![p] = Nil]
  BY DEF Pend

\* The value of a key changes only with its entry.
LEMMA SameValue ==
    ASSUME NEW k \in Keys, dirty'[k] = dirty[k],
           dirty[k] # Nil => entry'[dirty[k]] = entry[dirty[k]] /\ heap'[dirty[k]] = heap[dirty[k]]
    PROVE  Val(k)' = Val(k)
  BY DEF Val

\* The map of the next state, when one key has a new value.
LEMMA OneValue ==
    ASSUME IInv, IInv', NEW k \in Keys, NEW v, Val(k)' = v,
           \A j \in Keys : j # k => Val(j)' = Val(j)
    PROVE  M' = [M EXCEPT ![k] = v] /\ M[k] = Val(k)
  <1>1. M = [j \in Keys |-> Val(j)]
    BY OverlayValue
  <1>2. M' = [j \in Keys |-> Val(j)']
    BY OverlayValueNext
  <1> QED BY <1>1, <1>2

\* The map of the next state, when no key has a new value.
LEMMA NoValue ==
    ASSUME IInv, IInv', \A j \in Keys : Val(j)' = Val(j)
    PROVE  M' = M
  <1>1. M = [j \in Keys |-> Val(j)]
    BY OverlayValue
  <1>2. M' = [j \in Keys |-> Val(j)']
    BY OverlayValueNext
  <1> QED BY <1>1, <1>2

\* A return ends the call of its goroutine, as keys of entries stay.
LEMMA PendingReturned ==
    ASSUME IInv, NEW p \in Procs, Return(p), \A f \in Entries : entry'[f].key = entry[f].key
    PROVE  Pend' = [Pend EXCEPT ![p] = Nil]
  <1>1. /\ call'[p] = Nil
        /\ \A q \in Procs : q # p => call'[q] = call[q] /\ hnd'[q] = hnd[q]
    BY ReturnEffect
  <1>2. \A q \in Procs : call[q] # Nil => hnd[q] \in Entries
    BY DEF IInv, CallsWellFormed, TypeOK
  <1>3. \A q \in Procs : q # p /\ call[q] # Nil => Key(q)' = Key(q)
    BY <1>1, <1>2 DEF Key
  <1> QED BY <1>1, <1>3, PendingDone

\* An operation at a dirty entry is the operation.
LEMMA InPlaceSimulated ==
    ASSUME IInv, IInv', NEW p \in Procs, InPlace(p)
    PROVE  Abstract!Next
  <1> USE NamesAssumption
  <1>1. PICK e \in Entries : e = at[p]
    BY InPlaceEffect
  <1>2. PICK k \in Keys : k = Key(p)
    BY InPlaceEffect
  <1>3. PICK op \in Ops : op = call[p]
    BY InPlaceEffect, PendingCall
  <1>4. /\ pc[p] = "enter" /\ entry[e].key = k /\ Return(p) /\ dirty' = dirty /\ final' = final
        /\ Pend[p] # Nil /\ Pend[p] = [op |-> op, key |-> k]
        /\ entry[e] \in EntryType /\ entry \in [Entries -> EntryType]
    BY <1>1, <1>2, <1>3, InPlaceEffect, PendingCall DEF IInv, TypeOK, EntryType
  <1>5. \/ /\ op = "changeIf" /\ (entry[e].del \/ heap[entry[e].value] # Zero)
           /\ heap' = heap /\ entry' = entry
        \/ /\ ~Deletes(p) /\ e = dirty[k] /\ entry[e].dirty
           /\ heap' = [heap EXCEPT ![e][p] = @ + 1] /\ entry' = entry
        \/ /\ Deletes(p) /\ e = dirty[k] /\ entry[e].dirty /\ heap' = heap
           /\ entry' = [entry EXCEPT ![e] = [@ EXCEPT !.del = TRUE]]
    BY <1>1, <1>2, <1>3, InPlaceEffect
  <1>6. \A f \in Entries : entry'[f].key = entry[f].key
    BY <1>4, <1>5 DEF EntryType
  <1>7. Pend' = [Pend EXCEPT ![p] = Nil]
    BY <1>4, <1>6, PendingReturned
  <1>8. \A j \in Keys : j # k /\ dirty[j] # Nil => dirty[j] # e /\ dirty[j] \in Entries
    BY <1>4 DEF IInv, Stored, TypeOK
  <1>9. heap \in [Keys \union Entries -> [Procs -> 0..MaxChanges]]
    BY DEF IInv, TypeOK
  <1>10. \A j \in Keys : j # k => Val(j)' = Val(j)
    <2> SUFFICES ASSUME NEW j \in Keys, j # k PROVE Val(j)' = Val(j)
      OBVIOUS
    <2>1. dirty[j] # Nil => entry'[dirty[j]] = entry[dirty[j]] /\ heap'[dirty[j]] = heap[dirty[j]]
      BY <1>4, <1>5, <1>8, <1>9
    <2> QED BY <1>4, <2>1, SameValue
  <1>11. M[k] = Val(k) /\ M' = [M EXCEPT ![k] = Val(k)'] /\ M = [j \in Keys |-> Val(j)]
    BY <1>10, OneValue, OverlayValue
  <1>12. CASE /\ op = "changeIf" /\ (entry[e].del \/ heap[entry[e].value] # Zero)
              /\ heap' = heap /\ entry' = entry
    <2>1. M' = M
      BY <1>4, <1>12, NoValue, SameValue
    <2>2. entry[e].dirty
      BY <1>1, <1>4, <1>12, AtEntry, InPlaceEffect, Values, BaseAssumption DEF Private, InPlace
    <2>3. e = dirty[k] /\ entry[e].value = e
      BY <1>1, <1>2, <1>4, <2>2, AtEntry DEF InPlace
    <2>4. M[k] # Zero
      BY <1>11, <1>12, <2>2, <2>3, Values DEF Val
    <2> QED BY <1>4, <1>7, <1>12, <2>1, <2>4, DoStep
  <1>13. CASE /\ ~Deletes(p) /\ e = dirty[k] /\ entry[e].dirty
              /\ heap' = [heap EXCEPT ![e][p] = @ + 1] /\ entry' = entry
    <2>1. op \in {"change", "changeIf"}
      BY <1>3, <1>13, OpsAssumption DEF Deletes
    <2>2. CASE entry[e].del
      <3>1. Val(k) = Deleted /\ Val(k)' = Val(k)
        BY <1>4, <1>13, <2>2 DEF Val
      <3>2. M' = M /\ M[k] = Deleted
        BY <1>11, <3>1
      <3> QED BY <1>4, <1>7, <2>1, <3>2, DoStep
    <2>3. CASE ~entry[e].del
      <3>1. Val(k) = heap[e] /\ Val(k)' = [heap[e] EXCEPT ![p] = @ + 1]
        BY <1>4, <1>9, <1>13, <2>3 DEF Val
      <3>2. M[k] \notin {Absent, Deleted} /\ M' = [M EXCEPT ![k][p] = @ + 1]
        BY <1>11, <3>1, Values
      <3> QED BY <1>4, <1>7, <2>1, <3>2, DoStep
    <2> QED BY <2>2, <2>3
  <1>14. CASE /\ Deletes(p) /\ e = dirty[k] /\ entry[e].dirty /\ heap' = heap
              /\ entry' = [entry EXCEPT ![e] = [@ EXCEPT !.del = TRUE]]
    <2>1. entry'[e].del
      BY <1>4, <1>14 DEF EntryType
    <2>2. Val(k)' = Deleted
      BY <1>4, <1>14, <2>1 DEF Val
    <2> QED BY <1>3, <1>4, <1>7, <1>11, <1>14, <2>2, DoStep DEF Deletes
  <1> QED BY <1>5, <1>12, <1>13, <1>14

\* The winner's operation is the operation, on a value nobody has changed yet.
LEMMA WonSimulated ==
    ASSUME IInv, IInv', NEW p \in Procs, Won(p)
    PROVE  Abstract!Next
  <1> USE NamesAssumption
  <1>1. PICK e \in Entries : e = hnd[p]
    BY WonEffect
  <1>2. PICK k \in Keys : k = Key(p)
    BY WonEffect
  <1>3. PICK op \in Ops : op = call[p]
    BY WonEffect, PendingCall
  <1>4. /\ pc[p] = "won" /\ dirty[k] = e /\ Private(e) /\ entry[e].key = k
        /\ Return(p) /\ dirty' = dirty /\ final' = final
        /\ Pend[p] # Nil /\ Pend[p] = [op |-> op, key |-> k]
        /\ entry[e] \in EntryType /\ entry \in [Entries -> EntryType]
    <2>1. /\ pc[p] = "won" /\ dirty[k] = e /\ Private(e) /\ entry[e].key = k
          /\ Return(p) /\ dirty' = dirty /\ final' = final
      BY <1>1, <1>2, WonEffect DEF Key
    <2>2. Pend[p] # Nil /\ Pend[p] = [op |-> op, key |-> k]
      BY <1>2, <1>3, <2>1, PendingCall
    <2>3. entry[e] \in EntryType /\ entry \in [Entries -> EntryType]
      BY DEF IInv, TypeOK, EntryType
    <2> QED BY <2>1, <2>2, <2>3
  <1>5. \/ /\ Deletes(p) /\ heap' = heap
           /\ entry' = [entry EXCEPT ![e] = [@ EXCEPT !.del = TRUE]]
        \/ /\ ~Deletes(p)
           /\ entry' = [entry EXCEPT ![e] = [@ EXCEPT !.value = e, !.dirty = TRUE]]
           /\ heap' = [heap EXCEPT ![e] = [heap[k] EXCEPT ![p] = @ + 1]]
    BY <1>1, <1>2, WonEffect
  <1>6. \A f \in Entries : entry'[f].key = entry[f].key
    <2>1. [entry[e] EXCEPT !.del = TRUE].key = entry[e].key
      BY <1>4 DEF EntryType
    <2>2. [entry[e] EXCEPT !.value = e, !.dirty = TRUE].key = entry[e].key
      BY <1>4 DEF EntryType
    <2> QED BY <1>4, <1>5, <2>1, <2>2
  <1>7. Pend' = [Pend EXCEPT ![p] = Nil]
    BY <1>4, <1>6, PendingReturned
  <1>8. \A j \in Keys : j # k /\ dirty[j] # Nil => dirty[j] # e /\ dirty[j] \in Entries
    BY <1>4 DEF IInv, Stored, TypeOK
  <1>9. heap \in [Keys \union Entries -> [Procs -> 0..MaxChanges]]
    BY DEF IInv, TypeOK
  <1>10. \A j \in Keys : j # k => Val(j)' = Val(j)
    <2> SUFFICES ASSUME NEW j \in Keys, j # k PROVE Val(j)' = Val(j)
      OBVIOUS
    <2>1. dirty[j] # Nil => entry'[dirty[j]] = entry[dirty[j]] /\ heap'[dirty[j]] = heap[dirty[j]]
      BY <1>4, <1>5, <1>8, <1>9
    <2> QED BY <1>4, <2>1, SameValue
  <1>11. M[k] = Val(k) /\ M' = [M EXCEPT ![k] = Val(k)'] /\ M = [j \in Keys |-> Val(j)]
    BY <1>10, OneValue, OverlayValue
  <1>12. CASE /\ Deletes(p) /\ heap' = heap
              /\ entry' = [entry EXCEPT ![e] = [@ EXCEPT !.del = TRUE]]
    <2>1. entry'[e].del
      BY <1>4, <1>12 DEF EntryType
    <2>2. Val(k)' = Deleted
      BY <1>4, <2>1 DEF Val
    <2> QED BY <1>3, <1>4, <1>7, <1>11, <1>12, <2>2, DoStep DEF Deletes
  <1>13. CASE /\ ~Deletes(p)
              /\ entry' = [entry EXCEPT ![e] = [@ EXCEPT !.value = e, !.dirty = TRUE]]
              /\ heap' = [heap EXCEPT ![e] = [heap[k] EXCEPT ![p] = @ + 1]]
    <2>1. op \in {"change", "changeIf"}
      BY <1>3, <1>13, OpsAssumption DEF Deletes
    <2>2. entry'[e].dirty /\ ~entry'[e].del
      BY <1>4, <1>13 DEF EntryType, Private
    <2>3. Val(k) = Zero /\ Val(k)' = [Zero EXCEPT ![p] = @ + 1]
      BY <1>4, <1>9, <1>13, <2>2, Values DEF Val, Private
    <2>4. M[k] \notin {Absent, Deleted} /\ M' = [M EXCEPT ![k][p] = @ + 1]
      BY <1>11, <2>3, Values
    <2> QED BY <1>4, <1>7, <2>1, <2>4, DoStep
  <1> QED BY <1>5, <1>12, <1>13

\* The loser's operation is the operation, on the value of the winner's entry.
LEMMA LostSimulated ==
    ASSUME IInv, IInv', Alone, NEW p \in Procs, Lost(p)
    PROVE  Abstract!Next
  <1> USE NamesAssumption
  <1>1. PICK e \in Entries : e = hnd[p]
    BY LostEffect
  <1>2. PICK k \in Keys : k = Key(p)
    BY LostEffect
  <1>3. PICK w \in Entries : w = dirty[k]
    BY <1>2, LostEffect
  <1>4. PICK op \in Ops : op = call[p]
    BY LostEffect, PendingCall
  <1>5. /\ pc[p] = "lost" /\ e # w /\ Private(e) /\ entry[e].key = k /\ entry[w].key = k
        /\ Return(p) /\ dirty' = dirty /\ final' = final
    BY <1>1, <1>2, <1>3, LostEffect DEF Key
  <1>6. Pend[p] # Nil /\ Pend[p] = [op |-> op, key |-> k]
    BY <1>2, <1>4, <1>5, PendingCall
  <1>7. /\ entry[e] \in EntryType /\ entry[w] \in EntryType /\ entry \in [Entries -> EntryType]
        /\ heap \in [Keys \union Entries -> [Procs -> 0..MaxChanges]]
    BY DEF IInv, TypeOK, EntryType
  <1>8. op # "delete"
    <2>1. op = "delete" => dirty[k] \in {Nil, e, entry[e].proxyFor}
      BY <1>1, <1>2, <1>4 DEF Alone, Sequential
    <2> QED BY <1>3, <1>5, <2>1 DEF Private
  <1>9. \/ /\ op = "deleteLocked" /\ heap' = heap
           /\ entry' = [entry EXCEPT ![w] = [@ EXCEPT !.del = TRUE],
                          ![e] = [@ EXCEPT !.value = entry[w].value, !.dirty = entry[w].dirty,
                                           !.proxyFor = w, !.del = TRUE]]
        \/ /\ ~Deletes(p)
           /\ entry' = [entry EXCEPT ![w] = [@ EXCEPT !.value = w, !.dirty = TRUE],
                          ![e] = [@ EXCEPT !.value = w, !.dirty = TRUE,
                                           !.proxyFor = w, !.del = entry[w].del]]
           /\ heap' = [heap EXCEPT ![w] = [heap[entry[w].value] EXCEPT ![p] = @ + 1]]
    BY <1>1, <1>2, <1>3, <1>4, <1>8, LostEffect
  <1>10. /\ \A f \in Entries : entry'[f].key = entry[f].key
         /\ \A f \in Entries : f \notin {e, w} => entry'[f] = entry[f] /\ heap'[f] = heap[f]
    <2>1. [entry[w] EXCEPT !.del = TRUE].key = entry[w].key
      BY <1>7 DEF EntryType
    <2>2. [entry[w] EXCEPT !.value = w, !.dirty = TRUE].key = entry[w].key
      BY <1>7 DEF EntryType
    <2>3. [entry[e] EXCEPT !.value = entry[w].value, !.dirty = entry[w].dirty,
                           !.proxyFor = w, !.del = TRUE].key = entry[e].key
      BY <1>7 DEF EntryType
    <2>4. [entry[e] EXCEPT !.value = w, !.dirty = TRUE,
                           !.proxyFor = w, !.del = entry[w].del].key = entry[e].key
      BY <1>7 DEF EntryType
    <2>5. \A f \in Entries : entry'[f].key = entry[f].key
      BY <1>5, <1>7, <1>9, <2>1, <2>2, <2>3, <2>4
    <2>6. \A f \in Entries : f \notin {e, w} => entry'[f] = entry[f] /\ heap'[f] = heap[f]
      BY <1>5, <1>7, <1>9
    <2> QED BY <2>5, <2>6
  <1>11. Pend' = [Pend EXCEPT ![p] = Nil]
    BY <1>5, <1>10, PendingReturned
  <1>12. \A j \in Keys : j # k /\ dirty[j] # Nil => dirty[j] \in Entries \ {e, w}
    BY <1>5 DEF IInv, Stored, TypeOK
  <1>13. \A j \in Keys : j # k => Val(j)' = Val(j)
    BY <1>5, <1>10, <1>12, SameValue
  <1>14. M[k] = Val(k) /\ M' = [M EXCEPT ![k] = Val(k)'] /\ M = [j \in Keys |-> Val(j)]
    BY <1>13, OneValue, OverlayValue
  <1>15. CASE /\ op = "deleteLocked" /\ heap' = heap
              /\ entry' = [entry EXCEPT ![w] = [@ EXCEPT !.del = TRUE],
                             ![e] = [@ EXCEPT !.value = entry[w].value, !.dirty = entry[w].dirty,
                                              !.proxyFor = w, !.del = TRUE]]
    <2>1. entry'[w].del
      BY <1>5, <1>7, <1>15 DEF EntryType
    <2>2. Val(k)' = Deleted
      BY <1>3, <1>5, <2>1 DEF Val
    <2> QED BY <1>5, <1>6, <1>11, <1>14, <1>15, <2>2, DoStep
  <1>16. CASE /\ ~Deletes(p)
              /\ entry' = [entry EXCEPT ![w] = [@ EXCEPT !.value = w, !.dirty = TRUE],
                             ![e] = [@ EXCEPT !.value = w, !.dirty = TRUE,
                                              !.proxyFor = w, !.del = entry[w].del]]
              /\ heap' = [heap EXCEPT ![w] = [heap[entry[w].value] EXCEPT ![p] = @ + 1]]
    <2>1. op \in {"change", "changeIf"}
      BY <1>4, <1>16, OpsAssumption DEF Deletes
    <2>2. entry'[w].dirty /\ entry'[w].del = entry[w].del
      BY <1>5, <1>7, <1>16 DEF EntryType
    <2>3. CASE entry[w].del
      <3>1. Val(k) = Deleted /\ Val(k)' = Val(k)
        BY <1>3, <1>5, <2>2, <2>3 DEF Val
      <3>2. M' = M /\ M[k] = Deleted
        BY <1>14, <3>1
      <3> QED BY <1>5, <1>6, <1>11, <2>1, <3>2, DoStep
    <2>4. CASE ~entry[w].del
      <3>1. entry[w].value = IF entry[w].dirty THEN w ELSE k
        BY <1>3 DEF IInv, Stored
      <3>2. heap[entry[w].value] = Val(k)
        BY <1>3, <2>4, <3>1, Values DEF Val
      <3>3. Val(k)' = [Val(k) EXCEPT ![p] = @ + 1]
        BY <1>3, <1>5, <1>7, <1>16, <2>2, <2>4, <3>2 DEF Val
      <3>4. Val(k) \notin {Absent, Deleted}
        BY <1>3, <2>4, Values DEF Val
      <3>5. M[k] \notin {Absent, Deleted} /\ M' = [M EXCEPT ![k][p] = @ + 1]
        BY <1>14, <3>3, <3>4
      <3> QED BY <1>5, <1>6, <1>11, <2>1, <3>5, DoStep
    <2> QED BY <2>3, <2>4
  <1> QED BY <1>9, <1>15, <1>16

\* An entry for a new key adds the key.
LEMMA StoreNewSimulated ==
    ASSUME IInv, IInv', NEW p \in Procs, NEW k \in Keys, StoreNew(p, k)
    PROVE  Abstract!Next
  <1> USE NamesAssumption
  <1>1. PICK e \in Free :
          /\ entry' = [entry EXCEPT ![e] = [NoEntry EXCEPT !.key = k, !.value = e, !.dirty = TRUE]]
          /\ heap' = [heap EXCEPT ![e] = Zero]
          /\ dirty' = [dirty EXCEPT ![k] = e]
          /\ hnd' = [hnd EXCEPT ![p] = e]
    BY DEF StoreNew
  <1>2. /\ pc[p] = "idle" /\ final = Nil /\ dirty[k] = Nil /\ k \notin Base
        /\ call' = call /\ final' = final
    BY DEF StoreNew, Idle
  <1>3. /\ e \in Entries /\ (\A q \in Procs : hnd[q] # e) /\ (\A j \in Keys : dirty[j] # e)
    BY DEF Free
  <1>4. /\ entry \in [Entries -> EntryType] /\ hnd \in [Procs -> Entries \union {Nil}]
        /\ heap \in [Keys \union Entries -> [Procs -> 0..MaxChanges]]
        /\ dirty \in [Keys -> Entries \union {Nil}]
    BY DEF IInv, TypeOK, EntryType
  <1>5. \A q \in Procs : call[q] # Nil => q # p /\ hnd[q] \in Entries
    BY <1>2 DEF IInv, CallsWellFormed, TypeOK
  <1>6. \A q \in Procs : call[q] # Nil => Key(q)' = Key(q)
    BY <1>1, <1>3, <1>4, <1>5 DEF Key
  <1>7. Pend' = Pend
    BY <1>2, <1>6, PendingSame
  <1>8. \A j \in Keys : j # k => Val(j)' = Val(j)
    BY <1>1, <1>3, <1>4, SameValue
  <1>9. entry'[e].dirty /\ ~entry'[e].del /\ heap'[e] = Zero /\ dirty'[k] = e
    BY <1>1, <1>3, <1>4 DEF NoEntry
  <1>10. Val(k) = Absent /\ Val(k)' = Zero
    BY <1>2, <1>3, <1>9 DEF Val
  <1>11. M[k] = Absent /\ M' = [M EXCEPT ![k] = Zero]
    BY <1>8, <1>10, OneValue
  <1> QED BY <1>2, <1>7, <1>11, AddStep

\* Getting a private entry changes nothing.
LEMMA LoadBaseSimulated ==
    ASSUME IInv, IInv', NEW p \in Procs, NEW k \in Keys, LoadBase(p, k)
    PROVE  UNCHANGED <<M, Pend, final>>
  <1> USE NamesAssumption
  <1>1. PICK e \in Free :
          /\ entry' = [entry EXCEPT ![e] = [NoEntry EXCEPT !.key = k, !.value = k]]
          /\ hnd' = [hnd EXCEPT ![p] = e]
    BY DEF LoadBase
  <1>2. pc[p] = "idle" /\ UNCHANGED <<heap, dirty, call, final>>
    BY DEF LoadBase, Idle
  <1>3. /\ e \in Entries /\ (\A q \in Procs : hnd[q] # e) /\ (\A j \in Keys : dirty[j] # e)
    BY DEF Free
  <1>4. /\ entry \in [Entries -> EntryType] /\ hnd \in [Procs -> Entries \union {Nil}]
        /\ dirty \in [Keys -> Entries \union {Nil}]
    BY DEF IInv, TypeOK, EntryType
  <1>5. \A q \in Procs : call[q] # Nil => q # p /\ hnd[q] \in Entries
    BY <1>2 DEF IInv, CallsWellFormed, TypeOK
  <1>6. \A q \in Procs : call[q] # Nil => Key(q)' = Key(q)
    BY <1>1, <1>3, <1>4, <1>5 DEF Key
  <1>7. Pend' = Pend
    BY <1>2, <1>6, PendingSame
  <1>8. \A j \in Keys : Val(j)' = Val(j)
    BY <1>1, <1>2, <1>3, <1>4, SameValue
  <1> QED BY <1>2, <1>7, <1>8, NoValue

\* Storing an entry of the base value changes nothing: it has that value still.
LEMMA OfferSimulated ==
    ASSUME IInv, IInv', NEW p \in Procs, Offer(p)
    PROVE  UNCHANGED <<M, Pend, final>>
  <1> USE NamesAssumption
  <1>1. PICK e \in Entries : e = at[p]
    BY AtEntry DEF Offer
  <1>2. PICK k \in Keys : k = Key(p)
    BY AtEntry DEF Offer
  <1>3. Private(e) /\ entry[e].key = k /\ UNCHANGED <<heap, entry, hnd, call, final>>
    BY <1>1, <1>2, AtEntry DEF Offer
  <1>4. dirty' = IF dirty[k] = Nil THEN [dirty EXCEPT ![k] = e] ELSE dirty
    BY <1>1, <1>3 DEF Offer
  <1>5. Pend' = Pend
    BY <1>3, PendingSame DEF Key
  <1>6. dirty \in [Keys -> Entries \union {Nil}]
    BY DEF IInv, TypeOK
  <1>7. \A j \in Keys : j # k => Val(j)' = Val(j)
    BY <1>3, <1>4, <1>6, SameValue
  <1>8. Val(k)' = Val(k)
    BY <1>3, <1>4, <1>6 DEF Val, Private
  <1> QED BY <1>3, <1>5, <1>7, <1>8, NoValue

\* When the goroutines are idle, an entry of the dirty map is dirty or deleted.
LEMMA FinalizeSimulated ==
    ASSUME IInv, IInv', Finalize
    PROVE  Abstract!Next
  <1> USE NamesAssumption
  <1>1. /\ final = Nil /\ final' = Result /\ \A p \in Procs : pc[p] = "idle"
        /\ UNCHANGED <<heap, entry, dirty, call>>
    BY DEF Finalize
  <1>2. \A p \in Procs : call[p] = Nil
    BY <1>1 DEF IInv, CallsWellFormed
  <1>3. Pend' = Pend /\ \A p \in Procs : Pend[p] = Nil
    BY <1>1, <1>2 DEF Pend
  <1>4. M' = M /\ M = [k \in Keys |-> Val(k)]
    BY <1>1, NoValue, SameValue, OverlayValue
  <1> DEFINE gone == {k \in Keys : dirty[k] # Nil /\ entry[dirty[k]].del}
             fresh == {k \in Keys \ gone : dirty[k] # Nil /\ entry[dirty[k]].dirty}
             kept == {k \in Keys : M[k] \notin {Absent, Deleted}}
             full == [k \in (Base \ gone) \union fresh |->
                        heap[IF k \in fresh THEN entry[dirty[k]].value ELSE k]]
             res == [k \in kept |-> M[k]]
  <1>5. \A k \in Keys : dirty[k] # Nil =>
          /\ dirty[k] \in Entries /\ (entry[dirty[k]].dirty \/ entry[dirty[k]].del)
          /\ entry[dirty[k]].dirty => entry[dirty[k]].value = dirty[k]
    BY <1>1 DEF IInv, Stored, TypeOK
  <1>6. ASSUME NEW k \in Keys
        PROVE  /\ k \in kept <=> k \in (Base \ gone) \union fresh
               /\ k \in kept => M[k] = heap[IF k \in fresh THEN entry[dirty[k]].value ELSE k]
    <2>1. M[k] = Val(k)
      BY <1>4
    <2>2. CASE dirty[k] = Nil
      BY <2>1, <2>2, Values, ValuesAssumption DEF Val
    <2>3. CASE dirty[k] # Nil /\ entry[dirty[k]].del
      BY <2>1, <2>3 DEF Val
    <2>4. CASE dirty[k] # Nil /\ ~entry[dirty[k]].del
      BY <1>5, <2>1, <2>4, Values DEF Val
    <2> QED BY <2>2, <2>3, <2>4
  <1>7. kept = (Base \ gone) \union fresh
    BY <1>6, BaseAssumption
  <1>8. res = full
    BY <1>6, <1>7
  <1>9. gone \union fresh = {} => res = [k \in Base |-> Zero]
    <2> SUFFICES ASSUME gone = {}, fresh = {} PROVE res = [k \in Base |-> Zero]
      OBVIOUS
    <2>1. \A k \in Base : full[k] = Zero
      BY BaseAssumption DEF IInv, BaseUntouched
    <2> QED BY <1>8, <2>1
  <1>10. final' = [result |-> res, changed |-> gone \union fresh # {}]
    BY <1>1, <1>8 DEF Result
  <1> HIDE DEF gone, fresh, full
  <1>11. \E new \in BOOLEAN : /\ new \/ res = [k \in Base |-> Zero]
                              /\ final' = [result |-> res, changed |-> new]
    BY <1>9, <1>10
  <1>12. Abstract!Publish
    BY <1>1, <1>3, <1>4, <1>11 DEF Abstract!Publish, Abstract!Zero, Zero, M, Pend
  <1> QED BY <1>12 DEF Abstract!Next

\* Every step is a step of OverlayMap or leaves its state as it is.
LEMMA Simulated ==
    ASSUME IInv, IInv', Alone, [Next]_vars
    PROVE  [Abstract!Next]_<<M, Pend, final>>
  <1> SUFFICES Abstract!Next \/ UNCHANGED <<M, Pend, final>>
    OBVIOUS
  <1> USE NamesAssumption
  <1>1. CASE UNCHANGED vars
    BY <1>1 DEF vars, M, Pend, Overlay, Key
  <1>2. CASE Finalize
    BY <1>2, FinalizeSimulated
  <1>3. ASSUME NEW p \in Procs, NEW k \in Keys, LoadDirty(p, k) PROVE UNCHANGED <<M, Pend, final>>
    <2>1. pc[p] = "idle" /\ hnd' = [hnd EXCEPT ![p] = dirty[k]]
          /\ UNCHANGED <<heap, entry, dirty, call, final>>
      BY <1>3 DEF LoadDirty, Idle
    <2>2. \A q \in Procs : call[q] # Nil => Key(q)' = Key(q)
      BY <2>1 DEF IInv, TypeOK, CallsWellFormed, Key
    <2> QED BY <2>1, <2>2, PendingSame, NoValue, SameValue
  <1>4. ASSUME NEW p \in Procs, NEW k \in Keys, LoadBase(p, k) PROVE UNCHANGED <<M, Pend, final>>
    BY <1>4, LoadBaseSimulated
  <1>5. ASSUME NEW p \in Procs, NEW k \in Keys, StoreNew(p, k) PROVE Abstract!Next
    BY <1>5, StoreNewSimulated
  <1>6. ASSUME NEW p \in Procs, NEW op \in Ops, Call(p, op) PROVE Abstract!Next
    <2>1. /\ pc[p] = "idle" /\ final = Nil /\ hnd[p] # Nil
          /\ call' = [call EXCEPT ![p] = op] /\ UNCHANGED <<heap, entry, dirty, hnd, final>>
      BY <1>6 DEF Call, Idle
    <2>2. Key(p) \in Keys /\ call[p] = Nil
      BY <2>1 DEF IInv, Held, CallsWellFormed
    <2>3. call \in [Procs -> Ops \union {Nil}]
      BY DEF IInv, TypeOK
    <2>4. Pend[p] = Nil /\ Pend' = [Pend EXCEPT ![p] = [op |-> op, key |-> Key(p)]]
      BY <2>1, <2>2, <2>3 DEF Pend, Key
    <2>5. M' = M
      BY <2>1, NoValue, SameValue
    <2> QED BY <2>1, <2>2, <2>4, <2>5, InvokeStep
  <1>7. ASSUME NEW p \in Procs, Forget(p) PROVE UNCHANGED <<M, Pend, final>>
    <2>1. pc[p] = "idle" /\ hnd' = [hnd EXCEPT ![p] = Nil]
          /\ UNCHANGED <<heap, entry, dirty, call, final>>
      BY <1>7 DEF Forget, Idle
    <2>2. \A q \in Procs : call[q] # Nil => Key(q)' = Key(q)
      BY <2>1 DEF IInv, TypeOK, CallsWellFormed, Key
    <2> QED BY <2>1, <2>2, PendingSame, NoValue, SameValue
  <1>8. ASSUME NEW p \in Procs, Forward(p) PROVE UNCHANGED <<M, Pend, final>>
    <2>1. UNCHANGED <<heap, entry, dirty, hnd, call, final>>
      BY <1>8 DEF Forward
    <2> QED BY <2>1, PendingSame, NoValue, SameValue DEF Key
  <1>9. ASSUME NEW p \in Procs, InPlace(p) PROVE Abstract!Next
    BY <1>9, InPlaceSimulated
  <1>10. ASSUME NEW p \in Procs, Offer(p) PROVE UNCHANGED <<M, Pend, final>>
    BY <1>10, OfferSimulated
  <1>11. ASSUME NEW p \in Procs, Won(p) PROVE Abstract!Next
    BY <1>11, WonSimulated
  <1>12. ASSUME NEW p \in Procs, Lost(p) PROVE Abstract!Next
    BY <1>12, LostSimulated
  <1> QED BY <1>1, <1>2, <1>3, <1>4, <1>5, <1>6, <1>7, <1>8, <1>9, <1>10, <1>11, <1>12
          DEF Next, Finished

\* SyncMap implements OverlayMap when Delete is called in sequential phases only: every
\* operation of every goroutine happens once, to the value that Finalize publishes.
THEOREM SyncMapImplements == Disciplined => (Spec => Implements)
  <1> SUFFICES ASSUME Disciplined PROVE Spec => Implements
    OBVIOUS
  <1>1. Init => Alone
    BY NilAssumption DEF Init, Alone
  <1>2. IInv /\ Alone /\ [Next]_vars => Alone'
    BY AloneStep
  <1>3. IInv /\ IInv' /\ Alone /\ [Next]_vars => [Abstract!Next]_<<M, Pend, final>>
    BY Simulated
  <1> QED BY Inductive, InitSimulated, <1>1, <1>2, <1>3, PTL
          DEF Spec, Implements, Abstract!Spec, M, Pend
=============================================================================
