--------------------------- MODULE MCRunLifecycle ---------------------------
EXTENDS RunLifecycle

CONSTANTS i1, i2, r1, r2, q1

=============================================================================
