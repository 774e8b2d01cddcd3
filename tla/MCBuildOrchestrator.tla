------------------------ MODULE MCBuildOrchestrator ------------------------
(***************************************************************************)
(* Instances of BuildOrchestrator for TLC, with the build order that       *)
(* BuildGraph computes.                                                    *)
(***************************************************************************)
EXTENDS BuildOrchestrator, BuildGraph

CONSTANTS core, logic, tests, b1, b2

Symmetry == Permutations({b1, b2})

RootTests == <<tests>>
RootsLogicTests == <<logic, tests>>
NoneCircular == {}
CircularLogicTests == {<<logic, tests>>}

AnyReferences(p) == {s \in SeqOf({core, logic, tests} \ {p}, 2) : IsInjective(s)}

\* logic refers to anything, tests among it, or has no config, and tests may drop it, so
\* that another project becomes the first.
Anything == core :> {<<>>} @@ logic :> AnyReferences(logic) \union {Nil}
            @@ tests :> {<<logic, core>>, <<core>>}
\* References come and go, and so do cycles and the config of logic; core stays the first.
Changing == core :> {<<>>, <<tests>>} @@ logic :> {<<core>>, <<>>, Nil}
            @@ tests :> {<<core, logic>>, <<core>>}
\* tests refers to logic and core, logic to core.
Triangle == core :> {<<>>} @@ logic :> {<<core>>} @@ tests :> {<<logic, core>>}
\* logic and tests refer to core.
Fork == core :> {<<>>} @@ logic :> {<<core>>} @@ tests :> {<<core>>}
\* tests drops logic from its references, or moves it.
Moving == core :> {<<>>} @@ logic :> {<<>>} @@ tests :> {<<logic, core>>, <<core>>, <<core, logic>>}
\* The config of logic is missing or written.
Missing == core :> {<<>>} @@ logic :> {Nil, <<core>>} @@ tests :> {<<core, logic>>}

Referenced(p) == IF resolved[p] = Nil THEN <<>> ELSE resolved[p]

\* The build order has the projects of the command line and what they refer to, each once
\* and nothing else; a project comes after its references except on a cycle; and there is
\* an error for a cycle and only for one that no reference on it expects, which references
\* that say "circular" may hide elsewhere (setupBuildTask and createBuildTasks).
OrderRight ==
    LET edges == [p \in InOrder |-> ToSet(Referenced(p))]
        plain == [p \in InOrder |-> {q \in edges[p] : <<p, q>> \notin Circular}]
        grown(e, s) == s \union UNION {e[p] : p \in s}
        Reach(e, s) == grown(e, grown(e, grown(e, s)))
        OnCycle(e, p) == p \in Reach(e, e[p])
    IN  /\ IsInjective(order)
        /\ InOrder = Reach(edges, ToSet(Roots))
        /\ \A p \in InOrder : \A q \in edges[p] :
             IndexOf(q) > IndexOf(p) => p \in Reach(edges, edges[q])
        /\ errors => \E p \in InOrder : OnCycle(plain, p)
        /\ edges = plain /\ (\E p \in InOrder : OnCycle(edges, p)) => errors
=============================================================================
