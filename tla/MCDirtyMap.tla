----------------------------- MODULE MCDirtyMap -----------------------------
EXTENDS DirtyMap, TLC

Symmetry == Permutations(Procs) \union Permutations(Entries)
=============================================================================
