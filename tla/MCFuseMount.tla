---------------------------- MODULE MCFuseMount ----------------------------
EXTENDS FuseMount, TLC

Symmetry == Permutations(Name) \cup Permutations(Data)
=============================================================================
