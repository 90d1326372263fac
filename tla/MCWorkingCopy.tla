--------------------------- MODULE MCWorkingCopy ---------------------------
EXTENDS WorkingCopy, TLC

\* Sessions with FUSE and sessions without are told apart.
Symmetry ==
  Permutations(Fuse) \cup Permutations(Session \ Fuse)
    \cup Permutations(Content) \cup Permutations(Inode)
=============================================================================
