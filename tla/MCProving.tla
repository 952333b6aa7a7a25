------------------------------- MODULE MCProving -------------------------------
EXTENDS Proving

\* Job ids are only compared; sound for the invariants.
JobSymmetry == Permutations(Jobs)
=============================================================================
