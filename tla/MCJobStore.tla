----------------------------- MODULE MCJobStore -----------------------------
EXTENDS JobStore, TLC

CONSTANTS w1, w2, w3

MCWorker == {w1, w2, w3}
Symmetry == Permutations(MCWorker)

=============================================================================
