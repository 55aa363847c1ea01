SPECIFICATION Spec
CONSTANTS
    h1 = h1
    h2 = h2
    h3 = h3
    r1 = r1
    NoHolder = NoHolder
    MaxTime = 3
    Run = {r1}
    Holder <- MCHolder
    RunOf <- MCRunOf
    Ttl <- MCTtl
SYMMETRY Symmetry
INVARIANTS
    TypeOK
    LeaseExclusion
    LeaseRecorded
    FencingOrder
PROPERTY ImplementsLeaseService
CHECK_DEADLOCK FALSE
