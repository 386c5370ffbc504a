--------------------------- MODULE MCSessionRegistry ---------------------------
EXTENDS SessionRegistryProofs, TLC

Symmetry == Permutations(Session)
=============================================================================
