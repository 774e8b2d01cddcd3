------------------------ MODULE MCSessionSnapshots ------------------------
(* The kinds of the calls r1 (a request), api, open, timer, publish. *)
EXTENDS SessionSnapshots, TLC

CONSTANTS r1, api, open, timer, publish

KindOf ==
    [c \in Calls |-> IF c = api THEN "api" ELSE IF c = open THEN "open"
                     ELSE IF c = timer THEN "timer"
                     ELSE IF c = publish THEN "publish" ELSE "request"]

Symmetry ==
    Permutations(Snapshots \ {First}) \union Permutations(Programs \ {FirstProgram})
=============================================================================
