----------------------------- MODULE MCRotation -----------------------------
EXTENDS Rotation

\* The threads inside ccask_write_record_blocking are alike.
Symmetry == Permutations(Threads)
=============================================================================
