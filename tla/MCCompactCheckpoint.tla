------------------------- MODULE MCCompactCheckpoint -------------------------
(* An instance of CompactCheckpoint for TLC. *)
EXTENDS CompactCheckpointProofs, TLC

Symmetry == Permutations(Proc)
=============================================================================
