--------------------------- MODULE MCLockClients ---------------------------
EXTENDS LockClients, TLC

CONSTANTS h1, h2, h3, r1

MCHolder == {h1, h2, h3}
MCRunOf == [h \in MCHolder |-> r1]
MCTtl == {1, 2}
Symmetry == Permutations(MCHolder)

=============================================================================
