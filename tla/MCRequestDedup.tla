--------------------------- MODULE MCRequestDedup ---------------------------
EXTENDS RequestDedup, TLC

CONSTANTS w1, w2, a1, a2

MCCall == {w1, w2, a1, a2}
MCWebhook == {w1, w2}
Symmetry == Permutations({w1, w2}) \cup Permutations({a1, a2})

=============================================================================
