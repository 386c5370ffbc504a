-------------------------- MODULE MCThreadEventStore --------------------------
EXTENDS ThreadEventStoreProofs, TLC

Symmetry == Permutations(Proc)
=============================================================================
