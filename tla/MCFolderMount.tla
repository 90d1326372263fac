--------------------------- MODULE MCFolderMount ---------------------------
EXTENDS FolderMount, TLC

Symmetry == Permutations(Name) \cup Permutations(Data \ {Cut})
=============================================================================
