------------------------------ MODULE MCWorker ------------------------------
EXTENDS WorkerProcessor, TLC

CONSTANTS d1, d2, j1, r1

MCHolder == {d1, d2}
MCDeadline == j1 :> MaxTime

MCRunOf == j1 :> r1
MCNoRunOf == j1 :> NoRun
Symmetry == Permutations(MCHolder)

=============================================================================
