------------------------ MODULE MCSnapshotEffects ------------------------
(* Instances of SnapshotEffects for TLC. *)
EXTENDS SnapshotEffects, TLC

Symmetry == Permutations(Slots) \union Permutations(Globs)
=============================================================================
