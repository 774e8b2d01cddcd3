-------------------------- MODULE MCRefCountCache --------------------------
(* Four references to one key.  Every reference may pin an entry, and one *)
(* more may be in the map.                                                *)
EXTENDS RefCountCache, TLC

Symmetry == Permutations(Refs) \union Permutations(Objs)
=============================================================================
