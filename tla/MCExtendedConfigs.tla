------------------------- MODULE MCExtendedConfigs -------------------------
(* Instances of ExtendedConfigs for TLC.  Every graph is enumerated, so    *)
(* that the first parser may always start at c1 and the second one at c1   *)
(* or c2, or not at all: other roots differ in names only.                 *)
EXTENDS ExtendedConfigs, TLC

CONSTANTS p1, p2, c1, c2, c3, c4

Roots == {p1 :> c1 @@ p2 :> c : c \in {None, c1, c2}}

\* Graphs over three configs with at most two entries in a list.
ListsOf(S) == {<<>>} \union {<<c>> : c \in S} \union {<<c, d>> : c, d \in S}
Small == {g @@ c4 :> <<>> : g \in [{c1, c2, c3} -> ListsOf({c1, c2, c3})]}

\* Graphs over four configs in which no config extends more than one other.
Chains == [Configs -> {<<>>} \union {<<c>> : c \in Configs}]

SmallOrChains == [extends : Small \union Chains, root : Roots]
AnyChain == [extends : Chains, root : Roots]
=============================================================================
