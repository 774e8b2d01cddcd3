-------------------------- MODULE MCCheckerPool --------------------------
(* Instances of CheckerPool for TLC.  Checkers has one identity for every *)
(* reference there can be, so NewChecker never runs out.                  *)
EXTENDS CheckerPool, TLC

CONSTANTS a1, a2, b1, d1, x1, ra, rb, f1, g1, g2, k1, k2, k3, k4, k5

\* States that differ only in the names of the checkers, or in what the model
\* remembers of a checker nobody refers to (NewChecker resets it), are one state:
\* a checker is identified by the places that refer to it.
Places(k) == [slots |-> {i \in Slots : checkers[i] = k},
              api |-> persistentChecker = k,
              calls |-> {c \in Calls : chk[c] = k},
              canceled |-> k \in canceled,
              globals |-> globals[k]]
View == <<heldBy, fileAssociations, requestAssociations, lastReleased, cleanupTimer,
          discarded, persistentHeld, semVars, diagVars, envVars, pc, slot,
          {Places(k) : k \in Checkers \intersect Referenced}>>

\* Bounds: the second query checker, the API's checker and global diagnostics are
\* explored one at a time, each with all the rest; with diagnostics, a checker finds
\* one at most, the request is not canceled and the pool not discarded.
Found == globalDiagAccumulated # {}
            \/ \E k \in Checkers \intersect Referenced : globals[k] # {}
OneExtra ==
    LET extras == <<checkers[2] # NoChecker, persistentChecker # NoChecker, Found>>
    IN  Cardinality({i \in DOMAIN extras : extras[i]}) <= 1
OneEach ==
    Found => /\ ctxDone = {} /\ ~discarded
             /\ \A k \in Checkers \intersect Referenced : Cardinality(globals[k]) <= 1

NoFiles == [c \in Calls |-> NoFile]
Flat == [c \in Calls |-> NoCall]
Query == [c \in Calls |-> "temporary"]

\* Request ra makes the query a1 and, from inside it, a2; rb makes b1.
NestReq == (a1 :> ra) @@ (a2 :> ra) @@ (b1 :> rb)
NestParent == (a1 :> NoCall) @@ (a2 :> a1) @@ (b1 :> NoCall)
NestFile == (a1 :> f1) @@ (a2 :> NoFile) @@ (b1 :> f1)

\* Request ra makes a query and another from inside it, asks for diagnostics and for the
\* API checker, in any order; b1 is a query without request ID.
AllReq == (a1 :> ra) @@ (a2 :> ra) @@ (b1 :> Anonymous) @@ (d1 :> ra) @@ (x1 :> ra)
AllThread == (a1 :> ra) @@ (a2 :> ra) @@ (b1 :> b1) @@ (d1 :> ra) @@ (x1 :> ra)
AllLifetime == (a1 :> "temporary") @@ (a2 :> "temporary") @@ (b1 :> "temporary")
               @@ (d1 :> "diagnostics") @@ (x1 :> "api")
AllParent == [c \in Calls |-> IF c = a2 THEN a1 ELSE NoCall]
AllFile == [c \in Calls |-> IF c \in {a1, b1} THEN f1 ELSE NoFile]

\* Two calls of one request.
OneReq == (a1 :> ra) @@ (a2 :> ra)

\* A request of the API that makes a query and then asks for the API checker, or the
\* other way round, and a query without request ID.
FlatReq == (a1 :> ra) @@ (b1 :> Anonymous) @@ (x1 :> ra)
FlatThread == (a1 :> ra) @@ (b1 :> b1) @@ (x1 :> ra)
FlatLifetime == (a1 :> "temporary") @@ (b1 :> "temporary") @@ (x1 :> "api")

\* Program.Emit under a request's context: two goroutines of one request.
EmitThread == (a1 :> a1) @@ (a2 :> a2)
EmitLifetime == [c \in Calls |-> "diagnostics"]

=============================================================================
