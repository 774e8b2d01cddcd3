---------------------------- MODULE MCOwnerCache ----------------------------
(* Small "extends" graphs.  The name of a file that is extended by another *)
(* one comes first in the alphabet, so that it is released first.          *)
EXTENDS OwnerCache, TLC

CONSTANTS a, b, c, x, y

\* A file that extends another one, and two configs that extend one file.
Graph == a :> <<x>> @@ b :> <<y>> @@ c :> <<y>> @@ x :> <<y>> @@ y :> <<>>

YX == y :> 1 @@ x :> 2

\* Contents change while three snapshots parse and release the nested files.
Nested == [configs |-> {a}, contents |-> [Files -> Versions], snapshots |-> 3]

\* Four snapshots, two of which may be disposed of while another one is built.
Shared == [configs |-> {b, c}, contents |-> [Files -> {1}], snapshots |-> 4]

NestedAndShared == {Nested, Shared}
OnlyNested == {[Nested EXCEPT !.contents = [Files -> {1}]]}

Symmetry == Permutations(Objs) \union Permutations(Snapshots \ {First})
=============================================================================
