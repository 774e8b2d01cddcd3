------------------------------ MODULE MCFsWatch ------------------------------
EXTENDS FsWatch, TLC

Symmetry == Permutations(Watches)
=============================================================================
