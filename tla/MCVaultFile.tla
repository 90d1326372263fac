---------------------------- MODULE MCVaultFile ----------------------------
EXTENDS VaultFile, TLC

Symmetry == Permutations(Update)
=============================================================================
