----------------------------- MODULE BuildGraph -----------------------------
(***************************************************************************)
(* The build order of tsc -b: createBuildTasks collects the projects that  *)
(* the projects of the command line refer to, and setupBuildTask orders    *)
(* them depth first (internal/execute/build/orchestrator.go).              *)
(*                                                                         *)
(* "refs" maps a project to the sequence of the projects that its config   *)
(* refers to.                                                              *)
(***************************************************************************)
EXTENDS SequencesExt, FiniteSets

CONSTANTS
    Roots,     \* the projects of the command line, in their order
    Circular   \* references (pairs) that say "circular": true

\* Mutant of setupBuildTask: a project is ordered before its references.
RECURSIVE setupBefore(_, _, _, _)
setupBefore(refs, p, inCircularContext, graph) ==
    IF p \in ToSet(graph.order) THEN graph
    ELSE FoldLeft(LAMBDA g, q : setupBefore(refs, q, inCircularContext, g),
                  [graph EXCEPT !.order = Append(@, p)], refs[p])

\* A project that is being analyzed closes a cycle: no task is made upstream, and an
\* error is reported unless a reference on the way says the cycle is expected.
RECURSIVE setupBuildTask(_, _, _, _)
setupBuildTask(refs, p, inCircularContext, graph) ==
    IF p \in ToSet(graph.order) THEN graph
    ELSE IF p \in graph.analyzing
      THEN [graph EXCEPT !.errors = @ \/ ~inCircularContext]
      ELSE LET sub(g, q) ==
                 setupBuildTask(refs, q, inCircularContext \/ <<p, q>> \in Circular, g)
               analyzed == FoldLeft(sub, [graph EXCEPT !.analyzing = @ \union {p}],
                                    refs[p])
           IN  [analyzed EXCEPT !.order = Append(@, p)]

SetupBuildTasksOf(refs) ==
    FoldLeft(LAMBDA g, p : setupBuildTask(refs, p, FALSE, g),
             [order |-> <<>>, analyzing |-> {}, errors |-> FALSE], Roots)
=============================================================================
