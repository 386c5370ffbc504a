----------------------------- MODULE MCFileLock -----------------------------
EXTENDS FileLockProofs, TLC

CONSTANT Legacy   \* the paths where a file without an owner record may lie at the start

MCInit == Init /\ \A l \in Path : l \notin Legacy => file[l] = NoFile

MCSpec == MCInit /\ [][Next]_vars
MCFairSpec == MCSpec /\ Fairness

Symmetry == Permutations(Proc)
=============================================================================
