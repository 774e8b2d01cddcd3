------------------------- MODULE CheckerPoolProofs -------------------------
(***************************************************************************)
(* Proofs about CheckerPool, for any number of calls, requests, files and  *)
(* slots.                                                                  *)
(***************************************************************************)
EXTENDS CheckerPool, FiniteSetTheorems, TLAPS

\* The calls that have put an element into their category's channel and not
\* taken one out yet.
Tokens(l) == {c \in Calls : Lifetime[c] = l /\ pc[c] \in {"tok", "held", "freed"}}

\* Each channel holds exactly one element for each of these calls.
TokensCounted ==
    /\ diagSem = Cardinality(Tokens("diagnostics"))
    /\ querySem = Cardinality(Tokens("temporary"))
    /\ persistentSem = Cardinality(Tokens("api"))

Holds(c) == pc[c] = "held" /\ ~ApiCall(c)

\* A call that holds a slot is what heldBy and checkers say of the slot.
HolderOwns ==
    \A c \in Calls : Holds(c) =>
        /\ CategoryMatches(c, slot[c])
        /\ checkers[slot[c]] = chk[c]
        /\ chk[c] # NoChecker
        /\ heldBy[slot[c]] = ReqOf[c]

OneHolder == \A c, d \in Calls : Holds(c) /\ Holds(d) /\ slot[c] = slot[d] => c = d

\* No slot is marked held without a call that will release it.
HeldHasHolder ==
    \A i \in Slots : heldBy[i] # Nobody => \E c \in Calls : Holds(c) /\ slot[c] = i

\* What a call that waits means to reclaim, and what it gives back when it is done.
TargetsFit ==
    \A c \in Calls :
        /\ (pc[c] \in {"sem", "tok"} /\ chk[c] # NoChecker) =>
              ~ApiCall(c) /\ CategoryMatches(c, slot[c]) /\ ReqOf[c] \in Requests
        /\ (pc[c] = "freed" /\ ~ApiCall(c)) => CategoryMatches(c, slot[c])
        /\ pc[c] = "borrowed" => chk[c] # NoChecker

\* No two places of the pool refer to one checker.
DistinctCheckers ==
    /\ \A i, j \in Slots : checkers[i] = checkers[j] /\ checkers[i] # NoChecker => i = j
    /\ \A i \in Slots : checkers[i] # NoChecker => checkers[i] # persistentChecker
    /\ \A c \in Calls : pc[c] = "held" /\ ApiCall(c) =>
         chk[c] = persistentChecker /\ persistentChecker # NoChecker /\ persistentHeld

Ownership == HolderOwns /\ OneHolder /\ HeldHasHolder /\ TargetsFit /\ DistinctCheckers

IInv == TypeOK /\ TokensCounted /\ Ownership

USE DEF NoSlot, Slots, QuerySlots

------------------------------------------------------------------------------
(* Facts about the channels *)

\* Token sets are finite.
LEMMA TokensFinite ==
    ASSUME NEW l
    PROVE  IsFiniteSet(Tokens(l)) /\ Cardinality(Tokens(l)) \in Nat
<1>1. Tokens(l) \subseteq Calls
  BY DEF Tokens
<1> QED
  BY <1>1, FinitenessAssumption, FS_Subset, FS_CardinalityType

\* A channel of capacity one has at most one call past its send.
LEMMA TokenUnique ==
    ASSUME NEW l, Cardinality(Tokens(l)) <= 1,
           NEW c \in Tokens(l), NEW d \in Tokens(l)
    PROVE  c = d
<1> SUFFICES ASSUME c # d PROVE FALSE
  OBVIOUS
<1>1. {c, d} \subseteq Tokens(l)
  OBVIOUS
<1>2. Cardinality({c, d}) <= Cardinality(Tokens(l))
  BY <1>1, TokensFinite, FS_Subset
<1>3. Cardinality({c, d}) = 2
  <2>1. IsFiniteSet({c}) /\ Cardinality({c}) = 1
    BY FS_Singleton
  <2>2. Cardinality({c} \union {d}) = 2
    BY <2>1, FS_AddElement
  <2>3. {c} \union {d} = {c, d}
    OBVIOUS
  <2> QED
    BY <2>2, <2>3
<1> QED
  BY <1>2, <1>3, TokensFinite

\* With an element in querySem, one slot is not held: the holders of the slots
\* are among the other calls with an element.
LEMMA SlotAvailable ==
    ASSUME TypeOK, TokensCounted, HolderOwns, HeldHasHolder,
           NEW c \in Calls, pc[c] = "tok", QueryCall(c)
    PROVE  \E i \in QuerySlots : heldBy[i] = Nobody
<1> SUFFICES ASSUME \A i \in QuerySlots : heldBy[i] # Nobody PROVE FALSE
  OBVIOUS
<1> DEFINE T == Tokens("temporary")
           Holder(i) == CHOOSE d \in Calls : Holds(d) /\ slot[d] = i
           f == [i \in QuerySlots |-> Holder(i)]
<1>1. \A i \in QuerySlots : Holder(i) \in Calls /\ Holds(Holder(i)) /\ slot[Holder(i)] = i
  BY SlotsAssumption DEF HeldHasHolder
<1>2. \A i \in QuerySlots : Holder(i) \in T \ {c}
  <2> TAKE i \in QuerySlots
  <2>1. Holder(i) \in Calls /\ Holds(Holder(i)) /\ slot[Holder(i)] = i
    BY <1>1
  <2>2. ~DiagCall(Holder(i))
    BY <2>1, SlotsAssumption DEF HolderOwns, CategoryMatches
  <2>3. Lifetime[Holder(i)] = "temporary"
    BY <2>1, <2>2, CallsAssumption DEF Holds, DiagCall, ApiCall
  <2> HIDE DEF Holder
  <2> QED
    BY <2>1, <2>3 DEF Tokens, Holds
<1>3. c \in T
  BY DEF Tokens, QueryCall
<1>4. IsFiniteSet(T) /\ Cardinality(T) <= MaxCheckers - 1 /\ Cardinality(T) \in Nat
  BY TokensFinite, SlotsAssumption DEF TokensCounted, TypeOK
<1>5. IsFiniteSet(T \ {c}) /\ Cardinality(T \ {c}) = Cardinality(T) - 1
  BY <1>3, <1>4, FS_RemoveElement
<1>6. f \in Injection(QuerySlots, T \ {c})
  <2> HIDE DEF Holder
  <2>1. f \in [QuerySlots -> T \ {c}]
    BY <1>2
  <2>2. \A i, j \in QuerySlots : f[i] = f[j] => i = j
    BY <1>1
  <2> QED
    BY <2>1, <2>2 DEF Injection, IsInjective
<1>7. IsFiniteSet(QuerySlots) /\ Cardinality(QuerySlots) = MaxCheckers - 1
  BY SlotsAssumption, FS_Interval
<1>8. Cardinality(QuerySlots) <= Cardinality(T \ {c})
  BY <1>5, <1>6, <1>7, FS_Injection
<1> QED
  BY <1>4, <1>5, <1>7, <1>8, SlotsAssumption

\* A call past its send keeps its channel non-empty.
LEMMA TokenCounts ==
    ASSUME NEW c \in Calls, pc[c] \in {"tok", "held", "freed"}
    PROVE  Cardinality(Tokens(Lifetime[c])) >= 1
<1>1. c \in Tokens(Lifetime[c])
  BY DEF Tokens
<1>2. IsFiniteSet({c}) /\ Cardinality({c}) = 1
  BY FS_Singleton
<1>3. Cardinality({c}) <= Cardinality(Tokens(Lifetime[c]))
  BY <1>1, TokensFinite, FS_Subset
<1> QED
  BY <1>2, <1>3, TokensFinite

\* A caller that uses a checker has one.
LEMMA UsingHasChecker ==
    ASSUME IInv, NEW c \in Calls, Using(c)
    PROVE  chk[c] \in Checkers
<1>1. CASE pc[c] = "borrowed"
  BY <1>1 DEF IInv, Ownership, TypeOK, TargetsFit
<1>2. CASE pc[c] = "held" /\ ApiCall(c)
  BY <1>2 DEF IInv, Ownership, TypeOK, DistinctCheckers
<1>3. CASE pc[c] = "held" /\ ~ApiCall(c)
  BY <1>3 DEF IInv, Ownership, TypeOK, HolderOwns, Holds
<1> QED
  BY <1>1, <1>2, <1>3 DEF Using

------------------------------------------------------------------------------
(* Type correctness, one step per action *)

\* What an acquisition assigns is of the right type.
LEMMA HoldType ==
    ASSUME TypeOK, NEW c \in Calls, NEW i \in Slots, NEW k \in Checkers, Hold(c, i, k)
    PROVE  /\ heldBy' \in [Slots -> Requests \union {Anonymous, Nobody}]
           /\ requestAssociations' \in [Requests -> Slots \union {NoSlot}]
           /\ afterFuncs' \subseteq Requests
           /\ pc' \in [Calls -> PCs]
           /\ slot' \in [Calls -> Slots \union {NoSlot}]
           /\ chk' \in [Calls -> Checkers \union {NoChecker}]
<1>1. CASE ReqOf[c] \in Requests /\ requestAssociations[ReqOf[c]] = NoSlot
  BY <1>1, CallsAssumption DEF TypeOK, Hold, Associate, Goto, PCs
<1>2. CASE ~(ReqOf[c] \in Requests /\ requestAssociations[ReqOf[c]] = NoSlot)
  BY <1>2, CallsAssumption DEF TypeOK, Hold, Associate, Goto, PCs
<1> QED
  BY <1>1, <1>2

\* A new checker's record is of the right type.
LEMMA NewCheckerType ==
    ASSUME TypeOK, NEW k \in Checkers, NewChecker(k)
    PROVE  globals' \in [Checkers -> SUBSET Diags] /\ canceled' \subseteq Checkers
BY DEF TypeOK, NewChecker

\* So is what disposal assigns.
LEMMA DisposeType ==
    ASSUME TypeOK, NEW S, Dispose(S)
    PROVE  /\ checkers' \in [Slots -> Checkers \union {NoChecker}]
           /\ heldBy' \in [Slots -> Requests \union {Anonymous, Nobody}]
           /\ globalDiagCheckerCount' \in [Slots -> Nat]
           /\ lastReleased' \in [Slots -> {"zero", "idle", "expired"}]
           /\ fileAssociations' \in [Files -> QuerySlots \union {NoSlot}]
           /\ requestAssociations' \in [Requests -> Slots \union {NoSlot}]
<1> USE DEF TypeOK, Dispose
<1>1. checkers' \in [Slots -> Checkers \union {NoChecker}]
  OBVIOUS
<1>2. heldBy' \in [Slots -> Requests \union {Anonymous, Nobody}]
  OBVIOUS
<1>3. globalDiagCheckerCount' \in [Slots -> Nat]
  OBVIOUS
<1>4. lastReleased' \in [Slots -> {"zero", "idle", "expired"}]
  OBVIOUS
<1>5. fileAssociations' \in [Files -> QuerySlots \union {NoSlot}]
  OBVIOUS
<1>6. requestAssociations' \in [Requests -> Slots \union {NoSlot}]
  OBVIOUS
<1> QED
  BY <1>1, <1>2, <1>3, <1>4, <1>5, <1>6

\* Every step keeps the types.
LEMMA TypeStep ==
    ASSUME IInv, [Next]_vars
    PROVE  TypeOK'
<1> USE CallsAssumption, SlotsAssumption
<1> USE DEF IInv, Ownership, Goto, MayCall, poolVars, apiVars, semVars, diagVars, objVars,
            envVars, callVars, PCs, Innermost
<1>u. CASE UNCHANGED vars
  BY <1>u DEF vars, TypeOK
<1>a. ASSUME NEW c \in Calls, Acquire(c) PROVE TypeOK'
  <2>1. CASE CallUnassociated(c)
    BY <2>1 DEF CallUnassociated, TypeOK
  <2>2. CASE CallBorrow(c)
    BY <2>2 DEF CallBorrow, TypeOK, Usable, CategoryMatches
  <2>3. CASE CallReclaim(c)
    BY <2>3 DEF CallReclaim, TypeOK, Usable, CategoryMatches
  <2>4. CASE CallContended(c)
    BY <2>4 DEF CallContended, TypeOK
  <2>5. CASE CallPersistent(c)
    BY <2>5 DEF CallPersistent, TypeOK
  <2> QED
    BY <1>a, <2>1, <2>2, <2>3, <2>4, <2>5 DEF Acquire
<1>p. ASSUME NEW c \in Calls, Proceed(c) PROVE TypeOK'
  <2>1. CASE ClaimSlot(c)
    <3>1. CASE DiagCall(c)
      BY <2>1, <3>1 DEF ClaimSlot, TypeOK, DiagCall, QueryCall, ApiCall
    <3>2. CASE QueryCall(c)
      BY <2>1, <3>2 DEF ClaimSlot, TypeOK, DiagCall, QueryCall, ApiCall
    <3>3. CASE ApiCall(c)
      BY <2>1, <3>3 DEF ClaimSlot, TypeOK, DiagCall, QueryCall, ApiCall
    <3> QED
      BY <3>1, <3>2, <3>3 DEF DiagCall, QueryCall, ApiCall
  <2>2. CASE Reclaim(c)
    BY <2>2 DEF Reclaim, TypeOK
  <2>3. CASE ReclaimLost(c)
    BY <2>3 DEF ReclaimLost, TypeOK
  <2>4. CASE getDiagnosticsChecker(c)
    <3>1. CASE checkers[0] # NoChecker
      <4>1. Hold(c, 0, checkers[0]) /\ checkers[0] \in Checkers /\ 0 \in Slots
        BY <2>4, <3>1 DEF getDiagnosticsChecker, TypeOK
      <4> QED
        BY <2>4, <3>1, <4>1, HoldType DEF getDiagnosticsChecker, TypeOK
    <3>2. CASE checkers[0] = NoChecker
      <4>1. PICK k \in Checkers :
              NewChecker(k) /\ checkers' = [checkers EXCEPT ![0] = k] /\ Hold(c, 0, k)
        BY <2>4, <3>2 DEF getDiagnosticsChecker
      <4>2. 0 \in Slots
        OBVIOUS
      <4> QED
        BY <2>4, <4>1, <4>2, HoldType, NewCheckerType DEF getDiagnosticsChecker, TypeOK
    <3> QED
      BY <3>1, <3>2
  <2>5. CASE getQueryChecker(c)
    <3>1. /\ \A i \in QuerySlots : i \in Slots
          /\ \A i \in Free : i \in QuerySlots /\ checkers[i] \in Checkers
      BY DEF Free, TypeOK
    <3>2. CASE FileAffinity(c) /\ UNCHANGED <<checkers, objVars, fileAssociations>>
                 /\ \E i \in Free : Hold(c, i, checkers[i])
      BY <2>5, <3>1, <3>2, HoldType DEF getQueryChecker, TypeOK
    <3>3. CASE UNCHANGED <<checkers, objVars>>
                 /\ \E i \in Free : Hold(c, i, checkers[i]) /\ RememberFile(c, i)
      <4>1. fileAssociations' \in [Files -> QuerySlots \union {NoSlot}]
        BY <3>1, <3>3 DEF RememberFile, TypeOK
      <4> QED
        BY <2>5, <3>1, <3>3, <4>1, HoldType DEF getQueryChecker, TypeOK
    <3>4. ASSUME NEW i \in QuerySlots, NEW k \in Checkers, NewChecker(k),
                 checkers' = [checkers EXCEPT ![i] = k], Hold(c, i, k), RememberFile(c, i)
          PROVE  TypeOK'
      <4>1. fileAssociations' \in [Files -> QuerySlots \union {NoSlot}]
        BY <3>4 DEF RememberFile, TypeOK
      <4> QED
        BY <2>5, <3>1, <3>4, <4>1, HoldType, NewCheckerType DEF getQueryChecker, TypeOK
    <3> QED
      BY <2>5, <3>2, <3>3, <3>4 DEF getQueryChecker, FileAffinity, First
  <2>6. CASE getPersistentChecker(c)
    <3>1. CASE persistentChecker # NoChecker
      <4>1. /\ Goto(c, "held", NoSlot, persistentChecker)
            /\ UNCHANGED <<persistentChecker, objVars>>
            /\ persistentHeld' = TRUE
            /\ UNCHANGED <<poolVars, semVars, diagVars, envVars>>
        BY <2>6, <3>1 DEF getPersistentChecker
      <4> QED
        BY <4>1 DEF TypeOK
    <3>2. CASE persistentChecker = NoChecker
      <4>1. PICK k \in Checkers :
              NewChecker(k) /\ persistentChecker' = k /\ Goto(c, "held", NoSlot, k)
        BY <2>6, <3>2 DEF getPersistentChecker
      <4> QED
        BY <2>6, <4>1, NewCheckerType DEF getPersistentChecker, TypeOK
    <3> QED
      BY <3>1, <3>2
  <2> QED
    BY <1>p, <2>1, <2>2, <2>3, <2>4, <2>5, <2>6 DEF Proceed
<1>c. ASSUME NEW c \in Calls, Check(c) PROVE TypeOK'
  <2>1. chk[c] \in Checkers
    BY <1>c, UsingHasChecker DEF Check
  <2> QED
    BY <1>c, <2>1 DEF Check, TypeOK
<1>d. ASSUME NEW c \in Calls, CheckCanceled(c) PROVE TypeOK'
  <2>1. chk[c] \in Checkers
    BY <1>d, UsingHasChecker DEF CheckCanceled
  <2> QED
    BY <1>d, <2>1 DEF CheckCanceled, TypeOK
<1>f. ASSUME NEW c \in Calls, Finish(c) PROVE TypeOK'
  <2>1. CASE Release(c)
    <3>1. chk[c] \in Checkers
      BY <2>1, UsingHasChecker DEF Release, Using
    <3>2. Cardinality(globals[chk[c]]) \in Nat
      BY <3>1, FinitenessAssumption, FS_Subset, FS_CardinalityType DEF TypeOK
    <3>3. /\ globalDiagCheckerCount' \in [Slots -> Nat]
          /\ globalDiagAccumulated' \subseteq Diags
          /\ globalDiagChanged' \in BOOLEAN
      BY <2>1, <3>1, <3>2 DEF Release, TypeOK, mergeGlobalDiagnostics
    <3>4. cleanupTimer' \in {"nil", "armed", "fired"}
      BY <2>1 DEF Release, TypeOK, scheduleCleanup
    <3> QED
      BY <2>1, <3>3, <3>4 DEF Release, TypeOK
  <2>2. CASE ReleaseCanceled(c)
    BY <2>2, DisposeType DEF ReleaseCanceled, TypeOK
  <2>3. CASE ReleasePersistent(c)
    BY <2>3 DEF ReleasePersistent, TypeOK
  <2>4. CASE ReleaseBorrowed(c)
    BY <2>4 DEF ReleaseBorrowed, TypeOK
  <2>5. CASE FreeSlot(c)
    <3>1. Cardinality(Tokens(Lifetime[c])) >= 1
      BY <2>5, TokenCounts DEF FreeSlot
    <3>2. ~ApiCall(c) => (slot[c] = 0 <=> DiagCall(c))
      BY <2>5 DEF FreeSlot, TargetsFit, CategoryMatches
    <3>3. diagSem' \in 0 .. 1 /\ querySem' \in 0 .. MaxCheckers - 1 /\ persistentSem' \in 0 .. 1
      BY <2>5, <3>1, <3>2, SMTT(30) DEF FreeSlot, TypeOK, TokensCounted, DiagCall, ApiCall
    <3> QED
      BY <2>5, <3>3 DEF FreeSlot, TypeOK
  <2> QED
    BY <1>f, <2>1, <2>2, <2>3, <2>4, <2>5 DEF Finish
<1>r. ASSUME NEW r \in Requests, CtxDone(r) \/ RequestCleanup(r) PROVE TypeOK'
  BY <1>r DEF CtxDone, RequestCleanup, TypeOK
<1>e. ASSUME NEW i \in Slots, Expire(i) PROVE TypeOK'
  BY <1>e DEF Expire, TypeOK
<1>t. CASE TimerFires \/ TakeNewGlobalDiagnostics \/ Discard
  BY <1>t DEF TimerFires, TakeNewGlobalDiagnostics, Discard, TypeOK
<1>i. CASE cleanupIdleCheckers
  <2>1. CASE discarded
    BY <1>i, <2>1 DEF cleanupIdleCheckers, TypeOK
  <2>2. CASE ~discarded
    <3>1. cleanupTimer' \in {"nil", "armed", "fired"}
      BY <1>i, <2>2 DEF cleanupIdleCheckers, scheduleCleanup
    <3> QED
      BY <1>i, <2>2, <3>1, DisposeType DEF cleanupIdleCheckers, TypeOK
  <2> QED
    BY <2>1, <2>2
<1> QED
  BY <1>u, <1>a, <1>p, <1>c, <1>d, <1>f, <1>r, <1>e, <1>t, <1>i DEF Next

------------------------------------------------------------------------------
(* The channels count the calls past their send *)

\* Every step keeps each channel equal to the number of calls past its send.
LEMMA TokensStep ==
    ASSUME IInv, TypeOK', [Next]_vars
    PROVE  TokensCounted'
<1> DEFINE Past(l) == l \in {"tok", "held", "freed"}
<1> USE DEF poolVars, apiVars, semVars, diagVars, objVars, envVars, callVars
\* No call gets past its send or past its receive: nothing to count.
<1>same. ASSUME UNCHANGED semVars, \A d \in Calls : Past(pc'[d]) <=> Past(pc[d])
         PROVE  TokensCounted'
  <2>1. \A l : Tokens(l)' = Tokens(l)
    BY <1>same DEF Tokens
  <2> QED
    BY <2>1, <1>same DEF IInv, TokensCounted
<1>goto. ASSUME NEW c \in Calls, UNCHANGED semVars, NEW l, pc' = [pc EXCEPT ![c] = l],
                Past(l) <=> Past(pc[c])
         PROVE  TokensCounted'
  <2>1. \A d \in Calls : Past(pc'[d]) <=> Past(pc[d])
    BY <1>goto DEF IInv, TypeOK
  <2> QED
    BY <2>1, <1>goto, <1>same
<1>u. CASE UNCHANGED <<semVars, pc>>
  BY <1>u, <1>same
<1>a. ASSUME NEW c \in Calls, Acquire(c) PROVE TokensCounted'
  BY <1>a, <1>goto DEF Acquire, CallUnassociated, CallBorrow, CallReclaim, CallContended,
                       CallPersistent, MayCall, Goto
<1>c. ASSUME NEW c \in Calls, ClaimSlot(c) PROVE TokensCounted'
  <2>1. /\ Tokens(Lifetime[c])' = Tokens(Lifetime[c]) \union {c}
        /\ c \notin Tokens(Lifetime[c])
        /\ \A l : l # Lifetime[c] => Tokens(l)' = Tokens(l)
    BY <1>c DEF ClaimSlot, Tokens, IInv, TypeOK
  <2>2. Cardinality(Tokens(Lifetime[c])') = Cardinality(Tokens(Lifetime[c])) + 1
    BY <2>1, TokensFinite, FS_AddElement
  <2> QED
    BY <1>c, <2>1, <2>2, CallsAssumption
       DEF ClaimSlot, DiagCall, QueryCall, ApiCall, IInv, TokensCounted
<1>p. ASSUME NEW c \in Calls, Proceed(c), ~ClaimSlot(c) PROVE TokensCounted'
  <2>1. UNCHANGED semVars /\ pc[c] = "tok"
    BY <1>p DEF Proceed, Reclaim, ReclaimLost, getDiagnosticsChecker, getQueryChecker,
                getPersistentChecker, Ready
  <2>2. pc' = [pc EXCEPT ![c] = "held"] \/ pc' = [pc EXCEPT ![c] = "tok"]
    BY <1>p DEF Proceed, Reclaim, ReclaimLost, getDiagnosticsChecker, getQueryChecker,
                getPersistentChecker, Hold, Goto
  <2> QED
    BY <2>1, <2>2, <1>goto
<1>f. ASSUME NEW c \in Calls, Finish(c), ~FreeSlot(c) PROVE TokensCounted'
  BY <1>f, <1>goto DEF Finish, Release, ReleaseCanceled, ReleasePersistent,
                       ReleaseBorrowed, Goto
<1>g. ASSUME NEW c \in Calls, FreeSlot(c) PROVE TokensCounted'
  <2>1. /\ Tokens(Lifetime[c])' = Tokens(Lifetime[c]) \ {c}
        /\ c \in Tokens(Lifetime[c])
        /\ \A l : l # Lifetime[c] => Tokens(l)' = Tokens(l)
    BY <1>g DEF FreeSlot, Goto, Tokens, IInv, TypeOK
  <2>2. Cardinality(Tokens(Lifetime[c])') = Cardinality(Tokens(Lifetime[c])) - 1
    BY <2>1, TokensFinite, FS_RemoveElement
  <2>3. ~ApiCall(c) => (slot[c] = 0 <=> DiagCall(c))
    BY <1>g, SlotsAssumption DEF FreeSlot, IInv, Ownership, TargetsFit, CategoryMatches
  <2> QED
    BY <1>g, <2>1, <2>2, <2>3, CallsAssumption
       DEF FreeSlot, DiagCall, QueryCall, ApiCall, IInv, TokensCounted
<1> QED
  BY <1>u, <1>a, <1>c, <1>p, <1>f, <1>g
     DEF Next, vars, Check, CheckCanceled, CtxDone, RequestCleanup, Expire, TimerFires,
         cleanupIdleCheckers, TakeNewGlobalDiagnostics, Discard

------------------------------------------------------------------------------
(* Ownership of slots, by the kind of step *)

\* A call that is not the holder of a slot changes only itself.
LEMMA OwnershipOther ==
    ASSUME IInv, NEW c \in Calls, ~Holds(c), pc[c] # "held",
           NEW l \in PCs \ {"held"}, NEW i, NEW k, Goto(c, l, i, k),
           UNCHANGED <<checkers, heldBy, apiVars>>,
           (l \in {"sem", "tok"} /\ k # NoChecker) =>
               ~ApiCall(c) /\ CategoryMatches(c, i) /\ ReqOf[c] \in Requests,
           (l = "freed" /\ ~ApiCall(c)) => CategoryMatches(c, i),
           l = "borrowed" => k # NoChecker
    PROVE  Ownership'
<1> USE DEF IInv, Ownership, TypeOK, Goto, Holds, apiVars, ApiCall
<1>1. HolderOwns' /\ OneHolder'
  BY DEF HolderOwns, OneHolder, CategoryMatches, DiagCall
<1>2. HeldHasHolder'
  BY DEF HeldHasHolder
<1>3. TargetsFit'
  BY DEF TargetsFit, CategoryMatches, DiagCall
<1>4. DistinctCheckers'
  BY DEF DistinctCheckers
<1> QED
  BY <1>1, <1>2, <1>3, <1>4

\* A call takes a slot nobody holds, with the checker in it or a new one.
LEMMA OwnershipHold ==
    ASSUME IInv, NEW c \in Calls, pc[c] = "tok", ~ApiCall(c),
           NEW i \in Slots, CategoryMatches(c, i), heldBy[i] = Nobody,
           NEW k \in Checkers,
           \/ checkers' = checkers /\ k = checkers[i]
           \/ checkers' = [checkers EXCEPT ![i] = k] /\ k \notin Referenced,
           heldBy' = [heldBy EXCEPT ![i] = ReqOf[c]], Goto(c, "held", i, k),
           UNCHANGED apiVars
    PROVE  Ownership'
<1> USE CallsAssumption, DistinctNils
<1> USE DEF IInv, Ownership, TypeOK, Goto, Holds, apiVars, ApiCall
<1>1. ReqOf[c] # Nobody
  OBVIOUS
<1>2. \A d \in Calls : Holds(d) => slot[d] # i
  BY DEF HolderOwns
<1>3. checkers'[i] = k /\ \A j \in Slots \ {i} : checkers'[j] = checkers[j]
  OBVIOUS
<1>4. HolderOwns'
  <2> SUFFICES ASSUME NEW d \in Calls, Holds(d)'
               PROVE  /\ CategoryMatches(d, slot'[d])
                      /\ checkers'[slot'[d]] = chk'[d]
                      /\ chk'[d] # NoChecker
                      /\ heldBy'[slot'[d]] = ReqOf[d]
    BY DEF HolderOwns, CategoryMatches, DiagCall
  <2>1. CASE d = c
    BY <2>1, <1>3 DEF CategoryMatches, DiagCall
  <2>2. CASE d # c
    <3>1. Holds(d) /\ slot'[d] = slot[d] /\ chk'[d] = chk[d] /\ slot[d] # i
      BY <2>2, <1>2
    <3>2. slot[d] \in Slots
      BY <3>1, SlotsAssumption DEF HolderOwns, CategoryMatches
    <3> QED
      BY <3>1, <3>2, <1>3 DEF HolderOwns, CategoryMatches, DiagCall
  <2> QED
    BY <2>1, <2>2
<1>5. OneHolder'
  BY <1>2 DEF OneHolder
<1>6. HeldHasHolder'
  BY DEF HeldHasHolder
<1>7. TargetsFit'
  BY DEF TargetsFit, CategoryMatches, DiagCall
<1>8. DistinctCheckers'
  BY <1>3 DEF DistinctCheckers, Referenced
<1> QED
  BY <1>4, <1>5, <1>6, <1>7, <1>8

\* The holder of a slot gives it back; the checker stays or is disposed of.
LEMMA OwnershipRelease ==
    ASSUME IInv, NEW c \in Calls, Holds(c),
           \/ checkers' = checkers
           \/ checkers' = [j \in Slots |-> IF j \in {slot[c]} THEN NoChecker ELSE checkers[j]],
           heldBy' = [j \in Slots |-> IF j \in {slot[c]} THEN Nobody ELSE heldBy[j]],
           Goto(c, "freed", slot[c], NoChecker),
           UNCHANGED apiVars
    PROVE  Ownership'
<1> USE DEF IInv, Ownership, TypeOK, Goto, Holds, apiVars, ApiCall
<1>1. \A d \in Calls : Holds(d) /\ d # c => slot[d] # slot[c]
  BY DEF OneHolder
<1>2. \A d \in Calls : Holds(d) => slot[d] \in Slots
  BY SlotsAssumption DEF HolderOwns, CategoryMatches
<1>3. HolderOwns'
  <2> SUFFICES ASSUME NEW d \in Calls, Holds(d)'
               PROVE  /\ CategoryMatches(d, slot'[d])
                      /\ checkers'[slot'[d]] = chk'[d]
                      /\ chk'[d] # NoChecker
                      /\ heldBy'[slot'[d]] = ReqOf[d]
    BY DEF HolderOwns, CategoryMatches, DiagCall
  <2>1. Holds(d) /\ d # c /\ slot'[d] = slot[d] /\ chk'[d] = chk[d]
    OBVIOUS
  <2>2. slot[d] \in Slots
    BY <1>2, <2>1
  <2>3. /\ CategoryMatches(d, slot[d]) /\ checkers[slot[d]] = chk[d] /\ chk[d] # NoChecker
        /\ heldBy[slot[d]] = ReqOf[d]
    BY <2>1 DEF HolderOwns
  <2> QED
    BY <1>1, <2>1, <2>2, <2>3
<1>4. OneHolder'
  BY DEF OneHolder
<1>5. HeldHasHolder'
  BY DEF HeldHasHolder
<1>6. TargetsFit'
  BY DEF TargetsFit, HolderOwns, CategoryMatches, DiagCall
<1>7. DistinctCheckers'
  BY DEF DistinctCheckers
<1> QED
  BY <1>3, <1>4, <1>5, <1>6, <1>7

\* Idle cleanup empties slots nobody holds.
LEMMA OwnershipDispose ==
    ASSUME IInv, NEW S, \A i \in S : i \in Slots /\ heldBy[i] = Nobody, Dispose(S),
           UNCHANGED <<apiVars, callVars>>
    PROVE  Ownership'
<1> USE DEF IInv, Ownership, TypeOK, Holds, apiVars, callVars, ApiCall, Dispose
<1>1. heldBy' = heldBy
  OBVIOUS
<1>2. \A d \in Calls : Holds(d) => slot[d] \in Slots /\ slot[d] \notin S
  BY CallsAssumption, DistinctNils, SlotsAssumption DEF HolderOwns, CategoryMatches
<1>3. HolderOwns' /\ OneHolder'
  BY <1>1, <1>2 DEF HolderOwns, OneHolder, CategoryMatches, DiagCall
<1>4. HeldHasHolder' /\ TargetsFit'
  BY <1>1 DEF HeldHasHolder, TargetsFit, CategoryMatches, DiagCall
<1>5. DistinctCheckers'
  BY DEF DistinctCheckers
<1> QED
  BY <1>3, <1>4, <1>5

\* The persistent checker has one user at a time.
LEMMA OwnershipApi ==
    ASSUME IInv, NEW c \in Calls, ApiCall(c), pc[c] \in {"tok", "held"},
           NEW l \in {"held", "freed"}, NEW k, Goto(c, l, NoSlot, k),
           UNCHANGED <<checkers, heldBy>>,
           l = "held" => k = persistentChecker' /\ k # NoChecker /\ persistentHeld',
           \/ persistentChecker' = persistentChecker
           \/ persistentChecker' \notin Referenced
           \/ persistentChecker' = NoChecker
    PROVE  Ownership'
<1> USE DEF IInv, Ownership, TypeOK, Goto, Holds, ApiCall
<1>1. \A d \in Calls : pc[d] = "held" /\ ApiCall(d) => d = c
  <2> SUFFICES ASSUME NEW d \in Calls, pc[d] = "held", ApiCall(d) PROVE d = c
    OBVIOUS
  <2>1. c \in Tokens("api") /\ d \in Tokens("api")
    BY DEF Tokens
  <2>2. Cardinality(Tokens("api")) <= 1
    BY DEF TokensCounted
  <2> QED
    BY <2>1, <2>2, TokenUnique
<1>2. HolderOwns' /\ OneHolder'
  BY DEF HolderOwns, OneHolder, CategoryMatches, DiagCall
<1>3. HeldHasHolder'
  BY DEF HeldHasHolder
<1>4. TargetsFit'
  BY DEF TargetsFit, CategoryMatches, DiagCall
<1>5. DistinctCheckers'
  BY <1>1 DEF DistinctCheckers, Referenced
<1> QED
  BY <1>2, <1>3, <1>4, <1>5

\* Every step keeps the ownership invariant.
LEMMA OwnershipStep ==
    ASSUME IInv, [Next]_vars
    PROVE  Ownership'
<1> USE DEF poolVars, apiVars, semVars, diagVars, objVars, envVars, callVars
<1>u. CASE UNCHANGED <<checkers, heldBy, apiVars, callVars>>
  BY <1>u DEF IInv, Ownership, HolderOwns, OneHolder, HeldHasHolder, TargetsFit,
              DistinctCheckers, Holds, ApiCall, CategoryMatches, DiagCall
<1>a. ASSUME NEW c \in Calls, Acquire(c) PROVE Ownership'
  <2> USE <1>a DEF MayCall, Holds, PCs
  <2>1. CASE CallUnassociated(c)
    BY <2>1, OwnershipOther DEF CallUnassociated
  <2>2. CASE CallBorrow(c)
    <3>1. checkers[Association(c)] # NoChecker
      BY <2>2 DEF CallBorrow, Usable
    <3> QED
      BY <2>2, <3>1, OwnershipOther DEF CallBorrow
  <2>3. CASE CallReclaim(c)
    <3>1. CategoryMatches(c, Association(c))
      BY <2>3 DEF CallReclaim, Usable
    <3>2. ReqOf[c] \in Requests
      BY <3>1, CallsAssumption, SlotsAssumption DEF Association, CategoryMatches
    <3>3. ~ApiCall(c) /\ pc[c] = "idle" /\ UNCHANGED <<checkers, heldBy, apiVars>>
            /\ Goto(c, "sem", Association(c), checkers[Association(c)])
      BY <2>3 DEF CallReclaim
    <3> QED
      BY <3>1, <3>2, <3>3, OwnershipOther
  <2>4. CASE CallContended(c)
    BY <2>4, OwnershipOther DEF CallContended
  <2>5. CASE CallPersistent(c)
    BY <2>5, OwnershipOther DEF CallPersistent
  <2> QED
    BY <2>1, <2>2, <2>3, <2>4, <2>5 DEF Acquire
<1>p. ASSUME NEW c \in Calls, Proceed(c) PROVE Ownership'
  <2>1. CASE ClaimSlot(c)
    <3>1. Goto(c, "tok", slot[c], chk[c])
      BY <2>1 DEF ClaimSlot, Goto, IInv, TypeOK
    <3>2. chk[c] # NoChecker =>
            ~ApiCall(c) /\ CategoryMatches(c, slot[c]) /\ ReqOf[c] \in Requests
      BY <2>1 DEF ClaimSlot, IInv, Ownership, TargetsFit
    <3> QED
      BY <2>1, <3>1, <3>2, OwnershipOther DEF ClaimSlot, Holds, PCs
  <2>2. CASE Reclaim(c)
    <3>1. /\ ~ApiCall(c) /\ CategoryMatches(c, slot[c])
          /\ chk[c] \in Checkers /\ checkers[slot[c]] = chk[c] /\ heldBy[slot[c]] = Nobody
      BY <2>2 DEF Reclaim, StillThere, IInv, Ownership, TargetsFit, TypeOK
    <3>2. slot[c] \in Slots
      BY <3>1, SlotsAssumption DEF CategoryMatches
    <3>3. Goto(c, "held", slot[c], chk[c])
      BY <2>2 DEF Reclaim, Goto, IInv, TypeOK
    <3> QED
      BY <2>2, <3>1, <3>2, <3>3, OwnershipHold DEF Reclaim
  <2>3. CASE ReclaimLost(c)
    BY <2>3, OwnershipOther DEF ReclaimLost, Holds, PCs
  <2>4. CASE getDiagnosticsChecker(c)
    <3>1. pc[c] = "tok" /\ ~ApiCall(c) /\ 0 \in Slots /\ CategoryMatches(c, 0)
      BY <2>4, SlotsAssumption
         DEF getDiagnosticsChecker, Ready, DiagCall, ApiCall, CategoryMatches
    <3>2. heldBy[0] = Nobody
      <4> SUFFICES ASSUME heldBy[0] # Nobody PROVE FALSE
        OBVIOUS
      <4>1. PICK d \in Calls : Holds(d) /\ slot[d] = 0
        BY <3>1 DEF IInv, Ownership, HeldHasHolder
      <4>2. Lifetime[d] = "diagnostics" /\ Lifetime[c] = "diagnostics"
        BY <2>4, <4>1 DEF getDiagnosticsChecker, IInv, Ownership, HolderOwns,
                          CategoryMatches, DiagCall
      <4>3. c \in Tokens("diagnostics") /\ d \in Tokens("diagnostics") /\ c # d
        BY <3>1, <4>1, <4>2 DEF Tokens, Holds
      <4>4. Cardinality(Tokens("diagnostics")) <= 1
        BY DEF IInv, TokensCounted, TypeOK
      <4> QED
        BY <4>3, <4>4, TokenUnique
    <3>3. CASE checkers[0] # NoChecker
      <4>1. checkers[0] \in Checkers
        BY <3>1, <3>3 DEF IInv, TypeOK
      <4> QED
        BY <2>4, <3>1, <3>2, <3>3, <4>1, OwnershipHold DEF getDiagnosticsChecker, Hold
    <3>4. CASE checkers[0] = NoChecker
      BY <2>4, <3>1, <3>2, <3>4, OwnershipHold DEF getDiagnosticsChecker, Hold, NewChecker
    <3> QED
      BY <3>3, <3>4
  <2>5. CASE getQueryChecker(c)
    <3>1. pc[c] = "tok" /\ ~ApiCall(c) /\ ~DiagCall(c) /\ UNCHANGED apiVars
      BY <2>5 DEF getQueryChecker, Ready, QueryCall, ApiCall, DiagCall
    <3>2. \A i \in QuerySlots : i \in Slots /\ CategoryMatches(c, i)
      BY <3>1, SlotsAssumption DEF CategoryMatches
    <3>3. ASSUME NEW i \in Free, Hold(c, i, checkers[i]), checkers' = checkers
          PROVE  Ownership'
      <4>1. i \in QuerySlots /\ checkers[i] \in Checkers /\ heldBy[i] = Nobody
        BY SlotsAssumption DEF Free, IInv, TypeOK
      <4> QED
        BY <3>1, <3>2, <3>3, <4>1, OwnershipHold DEF Hold
    <3>4. ASSUME NEW i \in Empty, NEW k \in Checkers, k \notin Referenced, Hold(c, i, k),
                 checkers' = [checkers EXCEPT ![i] = k]
          PROVE  Ownership'
      <4>1. i \in QuerySlots /\ checkers[i] = NoChecker
        BY DEF Empty
      <4>2. heldBy[i] = Nobody
        BY <4>1, <3>2 DEF IInv, Ownership, HeldHasHolder, HolderOwns
      <4> QED
        BY <3>1, <3>2, <3>4, <4>1, <4>2, OwnershipHold DEF Hold
    <3> QED
      BY <2>5, <3>3, <3>4 DEF getQueryChecker, FileAffinity, First, NewChecker
  <2>6. CASE getPersistentChecker(c)
    <3>1. ApiCall(c) /\ pc[c] = "tok" /\ UNCHANGED <<checkers, heldBy>> /\ persistentHeld'
      BY <2>6 DEF getPersistentChecker, Ready
    <3>2. PICK k : /\ Goto(c, "held", NoSlot, k) /\ k = persistentChecker' /\ k # NoChecker
                   /\ persistentChecker' = persistentChecker \/ persistentChecker' \notin Referenced
      BY <2>6, DistinctNils DEF getPersistentChecker, NewChecker
    <3> QED
      BY <3>1, <3>2, OwnershipApi
  <2> QED
    BY <1>p, <2>1, <2>2, <2>3, <2>4, <2>5, <2>6 DEF Proceed
<1>f. ASSUME NEW c \in Calls, Finish(c) PROVE Ownership'
  <2>1. CASE Release(c)
    <3>1. heldBy' = [j \in Slots |-> IF j \in {slot[c]} THEN Nobody ELSE heldBy[j]]
      BY <2>1 DEF Release, IInv, TypeOK
    <3> QED
      BY <2>1, <3>1, OwnershipRelease DEF Release, Holds
  <2>2. CASE ReleaseCanceled(c)
    BY <2>2, OwnershipRelease DEF ReleaseCanceled, Dispose, Holds
  <2>3. CASE ReleasePersistent(c)
    BY <2>3, OwnershipApi DEF ReleasePersistent
  <2>4. CASE ReleaseBorrowed(c)
    BY <2>4, OwnershipOther DEF ReleaseBorrowed, Holds, PCs
  <2>5. CASE FreeSlot(c)
    BY <2>5, OwnershipOther DEF FreeSlot, Holds, PCs
  <2> QED
    BY <1>f, <2>1, <2>2, <2>3, <2>4, <2>5 DEF Finish
<1>i. CASE cleanupIdleCheckers
  <2>1. CASE discarded
    BY <1>i, <2>1, <1>u DEF cleanupIdleCheckers
  <2>2. CASE ~discarded
    <3>1. \A i \in Expired : i \in Slots /\ heldBy[i] = Nobody
      BY DEF Expired
    <3> QED
      BY <1>i, <2>2, <3>1, OwnershipDispose DEF cleanupIdleCheckers
  <2> QED
    BY <2>1, <2>2
<1> QED
  BY <1>u, <1>a, <1>p, <1>f, <1>i
     DEF Next, vars, Check, CheckCanceled, CtxDone, RequestCleanup, Expire, TimerFires,
         TakeNewGlobalDiagnostics, Discard

------------------------------------------------------------------------------
(* The theorems *)

\* The inductive invariant holds of an empty pool.
LEMMA InitIInv == Init => IInv
<1> SUFFICES ASSUME Init PROVE IInv
  OBVIOUS
<1> USE SlotsAssumption DEF Init
<1>1. TypeOK
  <2>1. /\ checkers \in [Slots -> Checkers \union {NoChecker}]
        /\ heldBy \in [Slots -> Requests \union {Anonymous, Nobody}]
        /\ lastReleased \in [Slots -> {"zero", "idle", "expired"}]
        /\ globalDiagCheckerCount \in [Slots -> Nat]
    OBVIOUS
  <2>2. /\ pc \in [Calls -> PCs]
        /\ slot \in [Calls -> Slots \union {NoSlot}]
        /\ chk \in [Calls -> Checkers \union {NoChecker}]
    BY DEF PCs
  <2>3. /\ fileAssociations \in [Files -> QuerySlots \union {NoSlot}]
        /\ requestAssociations \in [Requests -> Slots \union {NoSlot}]
        /\ globals \in [Checkers -> SUBSET Diags]
    OBVIOUS
  <2>4. diagSem \in 0 .. 1 /\ querySem \in 0 .. MaxCheckers - 1 /\ persistentSem \in 0 .. 1
    OBVIOUS
  <2>5. /\ discarded \in BOOLEAN /\ persistentHeld \in BOOLEAN
        /\ globalDiagChanged \in BOOLEAN /\ cleanupRunning \in BOOLEAN
    OBVIOUS
  <2> QED
    BY <2>1, <2>2, <2>3, <2>4, <2>5 DEF TypeOK
<1>2. TokensCounted
  <2>1. \A l : Tokens(l) = {}
    BY DEF Tokens
  <2> QED
    BY <2>1, FS_EmptySet DEF TokensCounted
<1>3. Ownership
  BY DEF Ownership, HolderOwns, OneHolder, HeldHasHolder, TargetsFit, DistinctCheckers, Holds
<1> QED
  BY <1>1, <1>2, <1>3 DEF IInv

\* The inductive invariant holds of every behaviour of the pool.
THEOREM Inductive == Spec => []IInv
<1>1. IInv /\ [Next]_vars => IInv'
  BY TypeStep, TokensStep, OwnershipStep DEF IInv
<1> QED
  BY InitIInv, <1>1, PTL DEF Spec

\* Type correctness: in particular no channel holds more than its capacity or
\* less than nothing, so no receive of a release function blocks.
THEOREM TypeCorrect == Spec => []TypeOK
<1>1. IInv => TypeOK
  BY DEF IInv
<1> QED
  BY Inductive, <1>1, PTL

\* For any number of callers and slots, a call that got its token finds a slot,
\* and a release disposes of the checker it was given.
THEOREM NoPanic == Spec => []PanicFree
<1>1. IInv => PanicFree
  <2> SUFFICES ASSUME IInv, NEW c \in Calls
               PROVE  ~NoSlotPanic(c) /\ ~DisposeAssertFails(c)
    BY DEF PanicFree
  <2>1. ~NoSlotPanic(c)
    <3> SUFFICES ASSUME pc[c] = "tok", QueryCall(c), Free = {}, Empty = {} PROVE FALSE
      BY DEF NoSlotPanic, Ready
    <3>1. PICK i \in QuerySlots : heldBy[i] = Nobody
      BY SlotAvailable DEF IInv, Ownership
    <3> QED
      BY <3>1 DEF Free, Empty
  <2>2. ~DisposeAssertFails(c)
    BY DEF DisposeAssertFails, IInv, Ownership, HolderOwns, Holds
  <2> QED
    BY <2>1, <2>2
<1> QED
  BY Inductive, <1>1, PTL

------------------------------------------------------------------------------
(* Exclusive use, for requests that run on one goroutine *)

\* A call that borrows does so from the call it is nested in.
Borrows ==
    \A c \in Calls : pc[c] = "borrowed" =>
        Parent[c] \in Calls /\ Holds(Parent[c]) /\ chk[Parent[c]] = chk[c]

\* An outer call does not move while a call nested in it borrows.
LEMMA BorrowedBlocksParent ==
    ASSUME Borrows, NEW c \in Calls, NEW d \in Calls, pc[c] = "borrowed", Parent[c] = d
    PROVE  ~Innermost(d) /\ pc[d] = "held"
<1>1. ThreadOf[d] = ThreadOf[c] /\ Parent[d] = NoCall
  BY NestingAssumption
<1>2. c # d /\ c # Parent[d]
  BY <1>1, DistinctNils DEF Borrows, Holds
<1> QED
  BY <1>1, <1>2 DEF Innermost, Borrows, Holds

\* Every step of sequential requests keeps the borrowing invariant.
LEMMA BorrowsStep ==
    ASSUME Sequential, IInv, Borrows, [Next]_vars
    PROVE  Borrows'
<1> USE DEF Holds, ApiCall
<1> SUFFICES ASSUME NEW c \in Calls, pc'[c] = "borrowed"
             PROVE  Parent[c] \in Calls /\ Holds(Parent[c])' /\ chk'[Parent[c]] = chk'[c]
  BY DEF Borrows
<1>1. CASE pc[c] = "borrowed"
  <2>1. Parent[c] \in Calls /\ Holds(Parent[c]) /\ chk[Parent[c]] = chk[c]
    BY <1>1 DEF Borrows
  <2>2. ~Innermost(Parent[c]) /\ pc[Parent[c]] = "held"
    BY <1>1, <2>1, BorrowedBlocksParent
  <2>3. CASE UNCHANGED callVars
    BY <2>1, <2>3, <1>1 DEF callVars
  <2>4. ASSUME NEW d \in Calls, NEW l, NEW i, NEW k, Goto(d, l, i, k),
               d # c, d # Parent[c]
        PROVE  Holds(Parent[c])' /\ chk'[Parent[c]] = chk'[c]
    BY <2>1, <2>4 DEF Goto, IInv, TypeOK
  <2>5. ASSUME NEW d \in Calls, d = c \/ d = Parent[c],
               Acquire(d) \/ Proceed(d) \/ Finish(d)
        PROVE  FALSE
    <3>1. pc[d] \in {"borrowed", "held"}
      BY <1>1, <2>2, <2>5
    <3>2. ~Acquire(d)
      BY <3>1 DEF Acquire, CallUnassociated, CallBorrow, CallReclaim, CallContended,
                  CallPersistent, MayCall
    <3>3. ~Proceed(d)
      BY <3>1 DEF Proceed, ClaimSlot, Reclaim, ReclaimLost, getDiagnosticsChecker,
                  getQueryChecker, getPersistentChecker, Ready
    <3>4. d = Parent[c] => ~Finish(d)
      BY <2>2 DEF Finish, Release, ReleaseCanceled, ReleasePersistent, ReleaseBorrowed,
                  FreeSlot
    <3>5. d = c => ~Finish(d)
      BY <1>1 DEF Finish, Release, ReleaseCanceled, ReleasePersistent, ReleaseBorrowed,
                  FreeSlot, Goto, IInv, TypeOK
    <3> QED
      BY <2>5, <3>2, <3>3, <3>4, <3>5
  <2>6. ASSUME NEW d \in Calls, Acquire(d) \/ Proceed(d) \/ Finish(d)
        PROVE  \E l, i, k : Goto(d, l, i, k)
    <3>1. CASE Acquire(d)
      BY <3>1 DEF Acquire, CallUnassociated, CallBorrow, CallReclaim, CallContended,
                  CallPersistent
    <3>2. CASE ClaimSlot(d)
      <4>1. Goto(d, "tok", slot[d], chk[d])
        BY <3>2 DEF ClaimSlot, Goto, IInv, TypeOK
      <4> QED
        BY <4>1
    <3>3. CASE Reclaim(d)
      <4>1. Goto(d, "held", slot[d], chk[d])
        BY <3>3 DEF Reclaim, Goto, IInv, TypeOK
      <4> QED
        BY <4>1
    <3>4. CASE Proceed(d) /\ ~ClaimSlot(d) /\ ~Reclaim(d)
      BY <3>4 DEF Proceed, ReclaimLost, getDiagnosticsChecker, getQueryChecker,
                  getPersistentChecker, Hold
    <3>5. CASE Finish(d)
      BY <3>5 DEF Finish, Release, ReleaseCanceled, ReleasePersistent, ReleaseBorrowed,
                  FreeSlot
    <3> QED
      BY <2>6, <3>1, <3>2, <3>3, <3>4, <3>5
  <2>7. ASSUME NEW d \in Calls, Acquire(d) \/ Proceed(d) \/ Finish(d)
        PROVE  Holds(Parent[c])' /\ chk'[Parent[c]] = chk'[c]
    BY <2>4, <2>5, <2>6, <2>7
  <2>8. UNCHANGED callVars \/ \E d \in Calls : Acquire(d) \/ Proceed(d) \/ Finish(d)
    BY DEF Next, vars, Check, CheckCanceled, CtxDone, RequestCleanup, Expire, TimerFires,
           cleanupIdleCheckers, TakeNewGlobalDiagnostics, Discard
  <2> QED
    BY <2>1, <2>3, <2>7, <2>8
<1>2. CASE pc[c] # "borrowed"
  <2>1. CallBorrow(c)
    <3>1. PICK d \in Calls : Acquire(d) \/ Proceed(d) \/ Finish(d)
      BY <1>2 DEF Next, vars, callVars, Check, CheckCanceled, CtxDone, RequestCleanup,
                  Expire, TimerFires, cleanupIdleCheckers, TakeNewGlobalDiagnostics, Discard
    <3>2. ~Proceed(d)
      BY <1>2, <3>1 DEF Proceed, ClaimSlot, Reclaim, ReclaimLost, getDiagnosticsChecker,
                  getQueryChecker, getPersistentChecker, Hold, Goto, IInv, TypeOK
    <3>3. ~Finish(d)
      BY <1>2, <3>1 DEF Finish, Release, ReleaseCanceled, ReleasePersistent,
                  ReleaseBorrowed, FreeSlot, Goto, IInv, TypeOK
    <3> QED
      BY <1>2, <3>1, <3>2, <3>3 DEF Acquire, CallUnassociated, CallBorrow, CallReclaim,
                  CallContended, CallPersistent, Goto, IInv, TypeOK
  <2> DEFINE i == Association(c)
  <2>2. /\ CategoryMatches(c, i) /\ heldBy[i] = ReqOf[c] /\ Innermost(c)
        /\ Goto(c, "borrowed", i, checkers[i])
    BY <2>1 DEF CallBorrow, Usable, MayCall
  <2>3. ReqOf[c] \in Requests /\ i \in Slots
    BY <2>2, CallsAssumption, SlotsAssumption DEF Association, CategoryMatches
  <2>4. PICK d \in Calls : Holds(d) /\ slot[d] = i
    BY <2>2, <2>3, DistinctNils DEF IInv, Ownership, HeldHasHolder
  <2>5. ReqOf[d] = ReqOf[c] /\ chk[d] = checkers[i]
    BY <2>2, <2>4 DEF IInv, Ownership, HolderOwns
  <2>6. ThreadOf[d] = ThreadOf[c]
    BY <2>3, <2>5 DEF Sequential
  <2>7. d # c
    BY <2>1, <2>4 DEF CallBorrow, MayCall
  <2>8. d = Parent[c]
    BY <2>2, <2>4, <2>6, <2>7 DEF Innermost
  <2> QED
    BY <2>2, <2>4, <2>5, <2>7, <2>8 DEF Goto, IInv, TypeOK
<1> QED
  BY <1>1, <1>2

\* For requests that run on one goroutine each, two goroutines never use one
\* checker at a time, whatever the number of slots and however calls nest.
THEOREM ExclusiveUse == Sequential => (Spec => []Exclusive)
<1> SUFFICES ASSUME Sequential PROVE Spec => []Exclusive
  OBVIOUS
<1>1. Init => Borrows
  BY DEF Init, Borrows
<1>2. IInv /\ Borrows /\ [Next]_vars => Borrows'
  BY BorrowsStep
<1>3. IInv /\ Borrows => Exclusive
  <2> SUFFICES ASSUME IInv, Borrows, NEW c \in Calls, NEW d \in Calls,
                      Using(c), Using(d), chk[c] = chk[d]
               PROVE  ThreadOf[c] = ThreadOf[d]
    BY DEF Exclusive
  <2> DEFINE Root(b) == IF pc[b] = "borrowed" THEN Parent[b] ELSE b
  <2>1. \A b \in Calls : Using(b) =>
          Root(b) \in Calls /\ pc[Root(b)] = "held" /\ chk[Root(b)] = chk[b]
            /\ ThreadOf[Root(b)] = ThreadOf[b]
    BY NestingAssumption DEF Borrows, Holds, Using
  <2>2. ASSUME NEW a \in Calls, NEW b \in Calls, pc[a] = "held", pc[b] = "held",
               chk[a] = chk[b]
        PROVE  a = b
    <3>1. CASE ~ApiCall(a) /\ ~ApiCall(b)
      <4>1. slot[a] \in Slots /\ slot[b] \in Slots
        BY <2>2, <3>1, SlotsAssumption DEF IInv, Ownership, HolderOwns, Holds, CategoryMatches
      <4>2. slot[a] = slot[b]
        BY <2>2, <3>1, <4>1 DEF IInv, Ownership, HolderOwns, Holds, DistinctCheckers
      <4> QED
        BY <2>2, <3>1, <4>2 DEF IInv, Ownership, OneHolder, Holds
    <3>2. CASE ApiCall(a) /\ ApiCall(b)
      <4>1. a \in Tokens("api") /\ b \in Tokens("api")
        BY <2>2, <3>2 DEF Tokens, ApiCall
      <4>2. Cardinality(Tokens("api")) <= 1
        BY DEF IInv, TokensCounted, TypeOK
      <4> QED
        BY <4>1, <4>2, TokenUnique
    <3>3. ASSUME NEW x \in Calls, NEW y \in Calls, pc[x] = "held", pc[y] = "held",
                 ApiCall(x), ~ApiCall(y), chk[x] = chk[y]
          PROVE  FALSE
      <4>1. slot[y] \in Slots /\ checkers[slot[y]] = chk[y] /\ chk[y] # NoChecker
        BY <3>3, SlotsAssumption DEF IInv, Ownership, HolderOwns, Holds, CategoryMatches
      <4> QED
        BY <3>3, <4>1 DEF IInv, Ownership, DistinctCheckers
    <3> QED
      BY <2>2, <3>1, <3>2, <3>3
  <2>3. Root(c) = Root(d)
    BY <2>1, <2>2
  <2> QED
    BY <2>1, <2>3
<1> QED
  BY Inductive, <1>1, <1>2, <1>3, PTL DEF Spec

------------------------------------------------------------------------------
(* What is left in the pool, for requests that run on one goroutine *)

\* The calls with a checker use one that is held.
LEMMA UsedIsHeld ==
    ASSUME IInv, Borrows, NEW c \in Calls, Using(c)
    PROVE  /\ chk[c] \in Checkers
           /\ \A i \in Slots : checkers[i] = chk[c] => heldBy[i] # Nobody
           /\ persistentChecker = chk[c] => persistentHeld
<1>1. chk[c] \in Checkers
  BY UsingHasChecker
<1>2. PICK d \in Calls : pc[d] = "held" /\ chk[d] = chk[c]
  BY DEF Using, Borrows, Holds
<1>3. CASE ApiCall(d)
  <2>1. chk[d] = persistentChecker /\ persistentChecker # NoChecker /\ persistentHeld
    BY <1>2, <1>3 DEF IInv, Ownership, DistinctCheckers
  <2>2. \A i \in Slots : checkers[i] # chk[c]
    BY <1>1, <1>2, <2>1, DistinctNils DEF IInv, Ownership, DistinctCheckers
  <2> QED
    BY <1>1, <2>1, <2>2
<1>4. CASE ~ApiCall(d)
  <2>1. /\ slot[d] \in Slots /\ checkers[slot[d]] = chk[c] /\ heldBy[slot[d]] = ReqOf[d]
        /\ ReqOf[d] # Nobody
    BY <1>2, <1>4, SlotsAssumption, CallsAssumption, DistinctNils
    DEF IInv, Ownership, HolderOwns, Holds, CategoryMatches
  <2>2. \A i \in Slots : checkers[i] = chk[c] => i = slot[d]
    BY <1>1, <2>1, DistinctNils DEF IInv, Ownership, DistinctCheckers
  <2>3. persistentChecker # chk[c]
    BY <1>1, <2>1, DistinctNils DEF IInv, Ownership, DistinctCheckers
  <2> QED
    BY <1>1, <2>1, <2>2, <2>3
<1> QED
  BY <1>3, <1>4

\* What a step does to the slots, their checkers and the associations.
LEMMA PoolStep ==
    ASSUME IInv, [Next]_vars
    PROVE  \/ UNCHANGED <<checkers, heldBy, globals, canceled, globalDiagCheckerCount,
                          globalDiagAccumulated, apiVars>>
           \/ \E c \in Calls : Check(c) \/ CheckCanceled(c) \/ Release(c) \/ ReleaseCanceled(c)
           \/ \E c \in Calls : getPersistentChecker(c) \/ ReleasePersistent(c)
           \/ \E i \in Slots, c \in Calls :
                /\ checkers[i] # NoChecker
                /\ heldBy' = [heldBy EXCEPT ![i] = ReqOf[c]]
                /\ UNCHANGED <<checkers, globals, canceled, globalDiagCheckerCount,
                               globalDiagAccumulated, apiVars>>
           \/ \E i \in Slots, c \in Calls, k \in Checkers :
                /\ checkers[i] = NoChecker /\ NewChecker(k)
                /\ checkers' = [checkers EXCEPT ![i] = k]
                /\ heldBy' = [heldBy EXCEPT ![i] = ReqOf[c]]
                /\ UNCHANGED <<globalDiagCheckerCount, globalDiagAccumulated, apiVars>>
           \/ /\ Dispose(Expired)
              /\ UNCHANGED <<globals, canceled, globalDiagAccumulated, apiVars>>
<1> USE DEF apiVars, diagVars, objVars
<1>1. CASE UNCHANGED vars
  BY <1>1 DEF vars, poolVars
<1>2. ASSUME NEW c \in Calls, Acquire(c)
      PROVE  UNCHANGED <<checkers, heldBy, globals, canceled, globalDiagCheckerCount,
                         globalDiagAccumulated, apiVars>>
  BY <1>2 DEF Acquire, CallUnassociated, CallBorrow, CallReclaim, CallContended, CallPersistent,
              poolVars
<1>3. ASSUME NEW c \in Calls, ClaimSlot(c) \/ ReclaimLost(c) \/ ReleaseBorrowed(c) \/ FreeSlot(c)
      PROVE  UNCHANGED <<checkers, heldBy, globals, canceled, globalDiagCheckerCount,
                         globalDiagAccumulated, apiVars>>
  BY <1>3 DEF ClaimSlot, ReclaimLost, ReleaseBorrowed, FreeSlot, poolVars
<1>4. ASSUME NEW c \in Calls, Reclaim(c)
      PROVE  /\ slot[c] \in Slots /\ checkers[slot[c]] # NoChecker
             /\ heldBy' = [heldBy EXCEPT ![slot[c]] = ReqOf[c]]
             /\ UNCHANGED <<checkers, globals, canceled, globalDiagCheckerCount,
                            globalDiagAccumulated, apiVars>>
  <2>1. slot[c] \in Slots
    BY <1>4, SlotsAssumption DEF Reclaim, IInv, Ownership, TargetsFit, CategoryMatches
  <2> QED
    BY <1>4, <2>1 DEF Reclaim, StillThere
<1>5. ASSUME NEW c \in Calls, NEW i \in Slots, checkers[i] # NoChecker,
             Hold(c, i, checkers[i]), UNCHANGED <<checkers, objVars>>,
             UNCHANGED <<apiVars, diagVars>>
      PROVE  /\ heldBy' = [heldBy EXCEPT ![i] = ReqOf[c]]
             /\ UNCHANGED <<checkers, globals, canceled, globalDiagCheckerCount,
                            globalDiagAccumulated, apiVars>>
  BY <1>5 DEF Hold
<1>6. ASSUME NEW c \in Calls, NEW i \in Slots, NEW k \in Checkers, checkers[i] = NoChecker,
             NewChecker(k), checkers' = [checkers EXCEPT ![i] = k], Hold(c, i, k),
             UNCHANGED <<apiVars, diagVars>>
      PROVE  /\ heldBy' = [heldBy EXCEPT ![i] = ReqOf[c]]
             /\ UNCHANGED <<globalDiagCheckerCount, globalDiagAccumulated, apiVars>>
  BY <1>6 DEF Hold
<1>7. 0 \in Slots /\ \A i \in QuerySlots : i \in Slots
  BY SlotsAssumption
<1>8. ASSUME NEW c \in Calls, getDiagnosticsChecker(c)
      PROVE  \/ \E i \in Slots :
                  /\ checkers[i] # NoChecker /\ Hold(c, i, checkers[i])
                  /\ UNCHANGED <<checkers, objVars>> /\ UNCHANGED <<apiVars, diagVars>>
             \/ \E i \in Slots, k \in Checkers :
                  /\ checkers[i] = NoChecker /\ NewChecker(k)
                  /\ checkers' = [checkers EXCEPT ![i] = k] /\ Hold(c, i, k)
                  /\ UNCHANGED <<apiVars, diagVars>>
  <2> HIDE DEF apiVars, diagVars, objVars, Slots
  <2> QED
    BY <1>7, <1>8 DEF getDiagnosticsChecker
<1>9. ASSUME NEW c \in Calls, getQueryChecker(c)
      PROVE  \/ \E i \in Slots :
                  /\ checkers[i] # NoChecker /\ Hold(c, i, checkers[i])
                  /\ UNCHANGED <<checkers, objVars>> /\ UNCHANGED <<apiVars, diagVars>>
             \/ \E i \in Slots, k \in Checkers :
                  /\ checkers[i] = NoChecker /\ NewChecker(k)
                  /\ checkers' = [checkers EXCEPT ![i] = k] /\ Hold(c, i, k)
                  /\ UNCHANGED <<apiVars, diagVars>>
  <2> HIDE DEF apiVars, diagVars, objVars, Slots, QuerySlots
  <2> QED
    BY <1>7, <1>9 DEF getQueryChecker, FileAffinity, First, Free, Empty
<1>10. CASE cleanupIdleCheckers
  BY <1>10 DEF cleanupIdleCheckers, poolVars
<1>11. CASE \/ \E r \in Requests : CtxDone(r) \/ RequestCleanup(r)
            \/ \E i \in Slots : Expire(i)
            \/ TimerFires \/ TakeNewGlobalDiagnostics \/ Discard
  BY <1>11 DEF CtxDone, RequestCleanup, Expire, TimerFires, TakeNewGlobalDiagnostics, Discard,
               poolVars
<1> HIDE DEF apiVars, diagVars, objVars
<1>12. ASSUME NEW c \in Calls, getDiagnosticsChecker(c) \/ getQueryChecker(c)
       PROVE  \/ \E i \in Slots :
                   /\ checkers[i] # NoChecker
                   /\ heldBy' = [heldBy EXCEPT ![i] = ReqOf[c]]
                   /\ UNCHANGED <<checkers, globals, canceled, globalDiagCheckerCount,
                                  globalDiagAccumulated, apiVars>>
              \/ \E i \in Slots, k \in Checkers :
                   /\ checkers[i] = NoChecker /\ NewChecker(k)
                   /\ checkers' = [checkers EXCEPT ![i] = k]
                   /\ heldBy' = [heldBy EXCEPT ![i] = ReqOf[c]]
                   /\ UNCHANGED <<globalDiagCheckerCount, globalDiagAccumulated, apiVars>>
  <2> HIDE DEF Slots, QuerySlots
  <2> QED
    BY <1>5, <1>6, <1>8, <1>9, <1>12
<1> HIDE DEF Slots, QuerySlots
<1> QED
  BY <1>1, <1>2, <1>3, <1>4, <1>10, <1>11, <1>12 DEF Next, Proceed, Finish

\* Every step keeps canceled checkers with the requests that canceled them.
LEMMA CanceledStep ==
    ASSUME IInv, Borrows, CanceledNotOffered, [Next]_vars
    PROVE  CanceledNotOffered'
<1>t. /\ checkers \in [Slots -> Checkers \union {NoChecker}] /\ canceled \subseteq Checkers
      /\ heldBy \in [Slots -> Requests \union {Anonymous, Nobody}] /\ NoChecker \notin Checkers
      /\ persistentChecker \in Checkers \union {NoChecker}
      /\ \A c \in Calls : ReqOf[c] # Nobody
  BY CallsAssumption, DistinctNils DEF IInv, TypeOK
<1>r. \A i \in Slots : checkers[i] \in Referenced
  BY DEF Referenced
<1>p. persistentChecker \in Referenced
  BY DEF Referenced
<1> USE DEF CanceledNotOffered
<1> HIDE DEF Slots, QuerySlots
<1>1. CASE UNCHANGED <<checkers, heldBy, globals, canceled, globalDiagCheckerCount,
                       globalDiagAccumulated, apiVars>>
  BY <1>1 DEF apiVars
<1>2. ASSUME NEW c \in Calls, Check(c) PROVE CanceledNotOffered'
  BY <1>2 DEF Check, poolVars, apiVars
<1>3. ASSUME NEW c \in Calls, CheckCanceled(c) PROVE CanceledNotOffered'
  BY <1>3, UsedIsHeld DEF CheckCanceled, poolVars, apiVars
<1>4. ASSUME NEW c \in Calls, Release(c) PROVE CanceledNotOffered'
  <2>1. checkers[slot[c]] \notin canceled
    BY <1>4 DEF Release, IInv, Ownership, HolderOwns, Holds
  <2> QED
    BY <1>4, <1>t, <2>1 DEF Release, apiVars, objVars
<1>5. ASSUME NEW c \in Calls, ReleaseCanceled(c) PROVE CanceledNotOffered'
  BY <1>5, <1>t DEF ReleaseCanceled, Dispose, apiVars, objVars
<1>6. ASSUME NEW c \in Calls, getPersistentChecker(c) PROVE CanceledNotOffered'
  BY <1>6, <1>t, <1>r DEF getPersistentChecker, NewChecker, poolVars, objVars
<1>7. ASSUME NEW c \in Calls, ReleasePersistent(c) PROVE CanceledNotOffered'
  <2>1. chk[c] = persistentChecker
    BY <1>7 DEF ReleasePersistent, IInv, Ownership, DistinctCheckers
  <2> QED
    BY <1>7, <1>t, <2>1 DEF ReleasePersistent, poolVars, objVars
<1>8. ASSUME NEW i \in Slots, NEW c \in Calls, heldBy' = [heldBy EXCEPT ![i] = ReqOf[c]],
             UNCHANGED <<checkers, globals, canceled, globalDiagCheckerCount,
                         globalDiagAccumulated, apiVars>>
      PROVE  CanceledNotOffered'
  BY <1>8, <1>t DEF apiVars
<1>9. ASSUME NEW i \in Slots, NEW c \in Calls, NEW k \in Checkers, NewChecker(k),
             checkers' = [checkers EXCEPT ![i] = k], heldBy' = [heldBy EXCEPT ![i] = ReqOf[c]],
             UNCHANGED apiVars
      PROVE  CanceledNotOffered'
  BY <1>9, <1>t, <1>r, <1>p DEF NewChecker, apiVars
<1>10. CASE Dispose(Expired) /\ UNCHANGED <<globals, canceled, globalDiagAccumulated, apiVars>>
  BY <1>10, <1>t DEF Dispose, apiVars
<1> QED
  BY PoolStep, <1>1, <1>2, <1>3, <1>4, <1>5, <1>6, <1>7, <1>8, <1>9, <1>10

\* For requests that run on one goroutine, a canceled checker is never offered.
THEOREM CanceledKept == Sequential => (Spec => []CanceledNotOffered)
<1> SUFFICES ASSUME Sequential PROVE Spec => []CanceledNotOffered
  OBVIOUS
<1>1. Init => Borrows /\ CanceledNotOffered
  BY DEF Init, Borrows, CanceledNotOffered
<1>2. IInv /\ Borrows /\ [Next]_vars => Borrows'
  BY BorrowsStep
<1>3. IInv /\ Borrows /\ CanceledNotOffered /\ [Next]_vars => CanceledNotOffered'
  BY CanceledStep
<1> QED
  BY Inductive, <1>1, <1>2, <1>3, PTL DEF Spec

\* A skipped merge has nothing to merge: a part of as many diagnostics is the whole.
LEMMA CountIsWhole ==
    ASSUME IInv, NEW k \in Checkers, NEW G \in SUBSET globals[k],
           Cardinality(G) = Cardinality(globals[k])
    PROVE  G = globals[k]
<1>1. IsFiniteSet(globals[k])
  <2>1. globals[k] \subseteq Diags
    BY DEF IInv, TypeOK
  <2> QED
    BY <2>1, FinitenessAssumption, FS_Subset
<1> QED
  BY <1>1, FS_Subset

\* The diagnostics of a slot's checker are counted, and merged when it is free.
Counted(i) ==
    /\ checkers[i] = NoChecker => globalDiagCheckerCount[i] = 0
    /\ checkers[i] # NoChecker =>
         \E G \in SUBSET globals[checkers[i]] :
             G \subseteq globalDiagAccumulated /\ Cardinality(G) = globalDiagCheckerCount[i]
Merged(i) ==
    (checkers[i] # NoChecker /\ heldBy[i] = Nobody)
        => globals[checkers[i]] \subseteq globalDiagAccumulated

\* Every step keeps the counts and the merged diagnostics of the slots.
LEMMA MergedStep ==
    ASSUME IInv, Borrows, \A i \in Slots : Counted(i) /\ Merged(i), [Next]_vars,
           NEW i \in Slots
    PROVE  (Counted(i) /\ Merged(i))'
<1>t. /\ checkers \in [Slots -> Checkers \union {NoChecker}] /\ NoChecker \notin Checkers
      /\ heldBy \in [Slots -> Requests \union {Anonymous, Nobody}]
      /\ globalDiagCheckerCount \in [Slots -> Nat] /\ globals \in [Checkers -> SUBSET Diags]
      /\ \A c \in Calls : ReqOf[c] # Nobody
  BY CallsAssumption, DistinctNils DEF IInv, TypeOK
<1>r. checkers[i] \in Referenced
  BY DEF Referenced
<1>h. Counted(i) /\ Merged(i)
  OBVIOUS
<1> HIDE DEF Slots, QuerySlots
<1>1. ASSUME checkers'[i] = checkers[i],
             heldBy'[i] = Nobody => heldBy[i] = Nobody,
             checkers[i] # NoChecker => globals'[checkers[i]] = globals[checkers[i]],
             globalDiagCheckerCount'[i] = globalDiagCheckerCount[i],
             globalDiagAccumulated \subseteq globalDiagAccumulated'
      PROVE  (Counted(i) /\ Merged(i))'
  <2>1. Counted(i)'
    BY <1>1, <1>h DEF Counted
  <2>2. Merged(i)'
    BY <1>1, <1>h DEF Merged
  <2> QED
    BY <2>1, <2>2
<1>2. CASE UNCHANGED <<checkers, heldBy, globals, canceled, globalDiagCheckerCount,
                       globalDiagAccumulated, apiVars>>
  BY <1>1, <1>2
<1>3. ASSUME NEW c \in Calls, Check(c) PROVE (Counted(i) /\ Merged(i))'
  <2>1. /\ UNCHANGED <<checkers, heldBy, globalDiagCheckerCount, globalDiagAccumulated>>
        /\ Using(c)
    BY <1>3 DEF Check, poolVars, diagVars
  <2>2. PICK g \in Diags : globals' = [globals EXCEPT ![chk[c]] = @ \union {g}]
    BY <1>3 DEF Check
  <2>3. checkers[i] # NoChecker => globals[checkers[i]] \subseteq globals'[checkers[i]]
    BY <1>t, <2>2
  <2>4. Counted(i)'
    BY <1>h, <2>1, <2>3 DEF Counted
  <2>5. CASE checkers[i] = chk[c]
    <3>1. heldBy[i] # Nobody
      BY <2>1, <2>5, UsedIsHeld
    <3> QED
      BY <2>1, <2>4, <3>1 DEF Merged
  <2>6. CASE checkers[i] # chk[c]
    <3>1. checkers[i] # NoChecker => globals'[checkers[i]] = globals[checkers[i]]
      BY <1>t, <2>2, <2>6
    <3> QED
      BY <1>1, <2>1, <3>1
  <2> QED
    BY <2>5, <2>6
<1>4. ASSUME NEW c \in Calls, CheckCanceled(c) PROVE (Counted(i) /\ Merged(i))'
  <2>1. UNCHANGED <<checkers, heldBy, globals, globalDiagCheckerCount, globalDiagAccumulated>>
    BY <1>4 DEF CheckCanceled, poolVars, diagVars
  <2> QED
    BY <1>1, <2>1
<1>5. ASSUME NEW c \in Calls, Release(c) PROVE (Counted(i) /\ Merged(i))'
  <2>1. /\ mergeGlobalDiagnostics(slot[c], chk[c]) /\ UNCHANGED <<checkers, globals>>
        /\ heldBy' = [heldBy EXCEPT ![slot[c]] = Nobody]
    BY <1>5 DEF Release, objVars
  <2>2. checkers[slot[c]] = chk[c] /\ chk[c] # NoChecker
    BY <1>5 DEF Release, IInv, Ownership, HolderOwns, Holds
  <2>3. globalDiagAccumulated \subseteq globalDiagAccumulated'
    BY <2>1 DEF mergeGlobalDiagnostics
  <2>4. CASE i # slot[c]
    <3>1. heldBy'[i] = heldBy[i] /\ globalDiagCheckerCount'[i] = globalDiagCheckerCount[i]
      BY <1>t, <2>1, <2>4 DEF mergeGlobalDiagnostics
    <3> QED
      BY <1>1, <2>1, <2>3, <3>1
  <2>5. CASE i = slot[c]
    <3>1. checkers[i] = chk[c] /\ chk[c] \in Checkers
      BY <1>t, <2>2, <2>5
    <3>2. CASE Cardinality(globals[chk[c]]) = globalDiagCheckerCount[i]
      <4>1. UNCHANGED <<globalDiagCheckerCount, globalDiagAccumulated>>
        BY <2>1, <2>5, <3>2 DEF mergeGlobalDiagnostics
      <4>2. PICK G \in SUBSET globals[chk[c]] :
               G \subseteq globalDiagAccumulated /\ Cardinality(G) = globalDiagCheckerCount[i]
        BY <1>h, <2>2, <3>1 DEF Counted
      <4>3. G = globals[chk[c]]
        BY <3>1, <3>2, <4>2, CountIsWhole
      <4>4. Counted(i)'
        BY <1>h, <2>1, <4>1 DEF Counted
      <4>5. Merged(i)'
        BY <2>1, <3>1, <4>1, <4>2, <4>3 DEF Merged
      <4> QED
        BY <4>4, <4>5
    <3>3. CASE Cardinality(globals[chk[c]]) # globalDiagCheckerCount[i]
      <4>1. /\ globalDiagCheckerCount'[i] = Cardinality(globals[chk[c]])
            /\ globals[chk[c]] \subseteq globalDiagAccumulated'
        BY <1>t, <2>1, <2>5, <3>3 DEF mergeGlobalDiagnostics
      <4> QED
        BY <2>1, <2>2, <3>1, <4>1 DEF Counted, Merged
    <3> QED
      BY <3>2, <3>3
  <2> QED
    BY <2>4, <2>5
<1>6. ASSUME NEW S, Dispose(S), UNCHANGED <<globals, globalDiagAccumulated>>
      PROVE  (Counted(i) /\ Merged(i))'
  <2>1. CASE i \in S
    BY <1>6, <2>1 DEF Dispose, Counted, Merged
  <2>2. CASE i \notin S
    <3>1. /\ checkers'[i] = checkers[i] /\ heldBy'[i] = heldBy[i]
          /\ globalDiagCheckerCount'[i] = globalDiagCheckerCount[i]
      BY <1>6, <2>2 DEF Dispose
    <3> QED
      BY <1>1, <1>6, <3>1
  <2> QED
    BY <2>1, <2>2
<1>7. ASSUME NEW c \in Calls, ReleaseCanceled(c) PROVE (Counted(i) /\ Merged(i))'
  BY <1>6, <1>7 DEF ReleaseCanceled, objVars
<1>8. ASSUME NEW k \in Checkers, NewChecker(k)
      PROVE  checkers[i] # NoChecker => globals'[checkers[i]] = globals[checkers[i]]
  BY <1>8, <1>t, <1>r DEF NewChecker
<1>9. ASSUME NEW c \in Calls, getPersistentChecker(c) PROVE (Counted(i) /\ Merged(i))'
  <2>1. UNCHANGED <<checkers, heldBy, globalDiagCheckerCount, globalDiagAccumulated>>
    BY <1>9 DEF getPersistentChecker, poolVars, diagVars
  <2>2. checkers[i] # NoChecker => globals'[checkers[i]] = globals[checkers[i]]
    BY <1>8, <1>9 DEF getPersistentChecker, objVars
  <2> QED
    BY <1>1, <2>1, <2>2
<1>10. ASSUME NEW c \in Calls, ReleasePersistent(c) PROVE (Counted(i) /\ Merged(i))'
  <2>1. UNCHANGED <<checkers, heldBy, globals, globalDiagCheckerCount, globalDiagAccumulated>>
    BY <1>10 DEF ReleasePersistent, poolVars, diagVars, objVars
  <2> QED
    BY <1>1, <2>1
<1>11. ASSUME NEW j \in Slots, NEW c \in Calls, heldBy' = [heldBy EXCEPT ![j] = ReqOf[c]],
              UNCHANGED <<checkers, globals, canceled, globalDiagCheckerCount,
                          globalDiagAccumulated, apiVars>>
       PROVE  (Counted(i) /\ Merged(i))'
  <2>1. heldBy'[i] = Nobody => heldBy[i] = Nobody
    BY <1>11, <1>t
  <2> QED
    BY <1>1, <1>11, <2>1
<1>12. ASSUME NEW j \in Slots, NEW c \in Calls, NEW k \in Checkers, NewChecker(k),
              checkers[j] = NoChecker, checkers' = [checkers EXCEPT ![j] = k],
              heldBy' = [heldBy EXCEPT ![j] = ReqOf[c]],
              UNCHANGED <<globalDiagCheckerCount, globalDiagAccumulated, apiVars>>
       PROVE  (Counted(i) /\ Merged(i))'
  <2>1. CASE i # j
    <3>1. checkers'[i] = checkers[i] /\ heldBy'[i] = heldBy[i]
      BY <1>12, <1>t, <2>1
    <3>2. checkers[i] # NoChecker => globals'[checkers[i]] = globals[checkers[i]]
      BY <1>8, <1>12
    <3> QED
      BY <1>1, <1>12, <3>1, <3>2
  <2>2. CASE i = j
    <3>1. checkers'[i] = k /\ k # NoChecker /\ heldBy'[i] # Nobody
      BY <1>12, <1>t, <2>2
    <3>2. globalDiagCheckerCount'[i] = 0
      BY <1>12, <1>h, <2>2 DEF Counted
    <3>3. {} \in SUBSET globals'[k] /\ {} \subseteq globalDiagAccumulated' /\ Cardinality({}) = 0
      BY FS_EmptySet
    <3> QED
      BY <3>1, <3>2, <3>3 DEF Counted, Merged
  <2> QED
    BY <2>1, <2>2
<1>13. CASE Dispose(Expired) /\ UNCHANGED <<globals, canceled, globalDiagAccumulated, apiVars>>
  BY <1>6, <1>13
<1>14. CASE \E c \in Calls : Check(c) \/ CheckCanceled(c) \/ Release(c) \/ ReleaseCanceled(c)
  BY <1>3, <1>4, <1>5, <1>7, <1>14
<1>15. CASE \E c \in Calls : getPersistentChecker(c) \/ ReleasePersistent(c)
  BY <1>9, <1>10, <1>15
<1>16. CASE \E j \in Slots, c \in Calls :
              /\ checkers[j] # NoChecker
              /\ heldBy' = [heldBy EXCEPT ![j] = ReqOf[c]]
              /\ UNCHANGED <<checkers, globals, canceled, globalDiagCheckerCount,
                             globalDiagAccumulated, apiVars>>
  BY <1>11, <1>16
<1>17. CASE \E j \in Slots, c \in Calls, k \in Checkers :
              /\ checkers[j] = NoChecker /\ NewChecker(k)
              /\ checkers' = [checkers EXCEPT ![j] = k]
              /\ heldBy' = [heldBy EXCEPT ![j] = ReqOf[c]]
              /\ UNCHANGED <<globalDiagCheckerCount, globalDiagAccumulated, apiVars>>
  BY <1>12, <1>17
<1> QED
  BY PoolStep, <1>2, <1>13, <1>14, <1>15, <1>16, <1>17

\* A merge that adds something raises the flag, and the flag stays until it is taken.
LEMMA FlagStep ==
    ASSUME globalDiagAccumulated # taken => globalDiagChanged, [Next]_vars
    PROVE  (globalDiagAccumulated # taken => globalDiagChanged)'
<1>1. \/ UNCHANGED <<globalDiagAccumulated, taken, globalDiagChanged>>
      \/ TakeNewGlobalDiagnostics
      \/ \E c \in Calls : Release(c)
  BY ZenonT(60)
     DEF Next, vars, diagVars, Acquire, Proceed, Finish, CallUnassociated, CallBorrow, CallReclaim,
         CallContended, CallPersistent, ClaimSlot, Reclaim, ReclaimLost, getDiagnosticsChecker,
         getQueryChecker, getPersistentChecker, Check, CheckCanceled, ReleaseCanceled,
         ReleasePersistent, ReleaseBorrowed, FreeSlot, CtxDone, RequestCleanup, Expire, TimerFires,
         cleanupIdleCheckers, Discard
<1>2. ASSUME NEW c \in Calls, Release(c) PROVE (globalDiagAccumulated # taken => globalDiagChanged)'
  BY <1>2 DEF Release, mergeGlobalDiagnostics
<1> QED
  BY <1>1, <1>2 DEF TakeNewGlobalDiagnostics

\* For requests that run on one goroutine, no global diagnostic of a checker that is back in
\* the pool is missed, and what was not reported is flagged.
THEOREM NoneMissed == Sequential => (Spec => []ReleasedMerged)
<1> DEFINE Sound == /\ \A i \in Slots : Counted(i) /\ Merged(i)
                    /\ globalDiagAccumulated # taken => globalDiagChanged
<1> SUFFICES ASSUME Sequential PROVE Spec => []ReleasedMerged
  OBVIOUS
<1>1. Init => Borrows /\ Sound
  BY DEF Init, Borrows, Counted, Merged
<1>2. IInv /\ Borrows /\ [Next]_vars => Borrows'
  BY BorrowsStep
<1>3. IInv /\ Borrows /\ Sound /\ [Next]_vars => Sound'
  BY MergedStep, FlagStep
<1>4. Sound => ReleasedMerged
  BY DEF ReleasedMerged, Merged
<1> HIDE DEF Sound
<1> QED
  BY Inductive, <1>1, <1>2, <1>3, <1>4, PTL DEF Spec

------------------------------------------------------------------------------
(* Associations *)

\* Recording a slot that has a checker keeps the associations live.
LEMMA AssociationsHold ==
    ASSUME IInv, AssociationsLive, NEW c \in Calls, NEW i \in QuerySlots \union {0},
           checkers'[i] # NoChecker,
           \A j \in Slots : checkers[j] # NoChecker => checkers'[j] # NoChecker,
           RememberFile(c, i) \/ UNCHANGED fileAssociations, Associate(c, i)
    PROVE  AssociationsLive'
<1>t. /\ fileAssociations \in [Files -> QuerySlots \union {NoSlot}]
      /\ requestAssociations \in [Requests -> Slots \union {NoSlot}]
      /\ FileOf \in [Calls -> Files \union {NoFile}] /\ NoFile \notin Files
  BY CallsAssumption, DistinctNils DEF IInv, TypeOK
<1>1. \A f \in Files : fileAssociations'[f] # NoSlot => checkers'[fileAssociations'[f]] # NoChecker
  <2> SUFFICES ASSUME NEW f \in Files, fileAssociations'[f] # NoSlot
               PROVE  checkers'[fileAssociations'[f]] # NoChecker
    OBVIOUS
  <2>1. fileAssociations'[f] \in {i, fileAssociations[f]}
    BY <1>t DEF RememberFile
  <2>2. fileAssociations[f] \in Slots \union {NoSlot}
    BY <1>t, SlotsAssumption
  <2> QED
    BY <2>1, <2>2 DEF AssociationsLive
<1>2. \A r \in Requests :
        requestAssociations'[r] # NoSlot => checkers'[requestAssociations'[r]] # NoChecker
  <2> SUFFICES ASSUME NEW r \in Requests, requestAssociations'[r] # NoSlot
               PROVE  checkers'[requestAssociations'[r]] # NoChecker
    OBVIOUS
  <2>1. requestAssociations'[r] \in {i, requestAssociations[r]}
    BY <1>t DEF Associate
  <2> QED
    BY <2>1, <1>t DEF AssociationsLive
<1> QED
  BY <1>1, <1>2 DEF AssociationsLive

\* Disposing of checkers deletes the associations to their slots.
LEMMA AssociationsDispose ==
    ASSUME IInv, AssociationsLive, NEW S, Dispose(S)
    PROVE  AssociationsLive'
<1>t. /\ fileAssociations \in [Files -> QuerySlots \union {NoSlot}]
      /\ requestAssociations \in [Requests -> Slots \union {NoSlot}]
  BY DEF IInv, TypeOK
<1>1. \A f \in Files : fileAssociations[f] \in Slots \union {NoSlot}
  BY <1>t, SlotsAssumption
<1> QED
  BY <1>t, <1>1 DEF Dispose, AssociationsLive

\* Every step keeps the associations live.
LEMMA AssociationsStep ==
    ASSUME IInv, AssociationsLive, [Next]_vars
    PROVE  AssociationsLive'
<1>t. /\ checkers \in [Slots -> Checkers \union {NoChecker}] /\ NoChecker \notin Checkers
      /\ requestAssociations \in [Requests -> Slots \union {NoSlot}]
  BY DistinctNils DEF IInv, TypeOK
<1>u. CASE UNCHANGED <<checkers, fileAssociations, requestAssociations>>
  BY <1>u DEF AssociationsLive
<1>1. ASSUME NEW r, requestAssociations' = [requestAssociations EXCEPT ![r] = NoSlot],
             UNCHANGED <<checkers, fileAssociations>>
      PROVE  AssociationsLive'
  BY <1>1, <1>t DEF AssociationsLive
<1>2. ASSUME NEW c \in Calls, CallUnassociated(c) PROVE AssociationsLive'
  BY <1>1, <1>2, <1>u DEF CallUnassociated
<1>3. ASSUME NEW r \in Requests, RequestCleanup(r) PROVE AssociationsLive'
  BY <1>1, <1>3 DEF RequestCleanup
<1>4. ASSUME NEW c \in Calls, NEW i \in QuerySlots \union {0}, checkers[i] # NoChecker,
             Hold(c, i, checkers[i]), UNCHANGED checkers,
             RememberFile(c, i) \/ UNCHANGED fileAssociations
      PROVE  AssociationsLive'
  BY <1>4, AssociationsHold DEF Hold
<1>5. ASSUME NEW c \in Calls, NEW i \in QuerySlots \union {0}, NEW k \in Checkers,
             Hold(c, i, k), checkers' = [checkers EXCEPT ![i] = k],
             RememberFile(c, i) \/ UNCHANGED fileAssociations
      PROVE  AssociationsLive'
  <2>1. checkers'[i] # NoChecker /\ \A j \in Slots : checkers[j] # NoChecker => checkers'[j] # NoChecker
    BY <1>5, <1>t, SlotsAssumption
  <2> QED
    BY <1>5, <2>1, AssociationsHold DEF Hold
<1> HIDE DEF Slots, QuerySlots
<1>6. ASSUME NEW c \in Calls, getDiagnosticsChecker(c) PROVE AssociationsLive'
  BY <1>4, <1>5, <1>6 DEF getDiagnosticsChecker
<1>7. ASSUME NEW c \in Calls, getQueryChecker(c) PROVE AssociationsLive'
  BY <1>4, <1>5, <1>7 DEF getQueryChecker, FileAffinity, First, Free
<1>8. ASSUME NEW c \in Calls, ReleaseCanceled(c) PROVE AssociationsLive'
  BY <1>8, AssociationsDispose DEF ReleaseCanceled
<1>9. CASE cleanupIdleCheckers
  BY <1>9, <1>u, AssociationsDispose DEF cleanupIdleCheckers, poolVars
<1>10. \/ UNCHANGED <<checkers, fileAssociations, requestAssociations>>
       \/ \E c \in Calls : CallUnassociated(c) \/ getDiagnosticsChecker(c) \/ getQueryChecker(c)
                             \/ ReleaseCanceled(c)
       \/ \E r \in Requests : RequestCleanup(r)
       \/ cleanupIdleCheckers
  BY ZenonT(60)
     DEF Next, vars, poolVars, Acquire, Proceed, Finish, CallBorrow, CallReclaim, CallContended,
         CallPersistent, ClaimSlot, Reclaim, ReclaimLost, getPersistentChecker, Check,
         CheckCanceled, Release, ReleasePersistent, ReleaseBorrowed, FreeSlot, CtxDone, Expire,
         TimerFires, TakeNewGlobalDiagnostics, Discard
<1> QED
  BY <1>u, <1>2, <1>3, <1>6, <1>7, <1>8, <1>9, <1>10

\* Affinity never leads to a disposed checker, also when requests run on several goroutines.
THEOREM AssociationsStayLive == Spec => []AssociationsLive
<1>1. Init => AssociationsLive
  BY DEF Init, AssociationsLive
<1>2. IInv /\ AssociationsLive /\ [Next]_vars => AssociationsLive'
  BY AssociationsStep
<1> QED
  BY Inductive, <1>1, <1>2, PTL DEF Spec
=============================================================================
