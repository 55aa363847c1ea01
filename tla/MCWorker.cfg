SPECIFICATION FairSpec
CONSTANTS
    d1 = d1
    d2 = d2
    j1 = j1
    r1 = r1
    NoHolder = NoHolder
    NoJob = NoJob
    NoRun = NoRun
    Holder <- MCHolder
    Job = {j1}
    Run = {r1}
    RunOf <- MCRunOf
    Handled = {j1}
    Deadline <- MCDeadline
    PullMode = TRUE
    LockTtl = 1
    ExtendTtl = 1
    JobTimeout = 1
    MaxDeliveries = 3
    RecordTtl = 2
    MaxFaults = 1
    MaxTime = 3
INVARIANTS
    TypeOK
    OverlapExplained
    RedeliveryIsCached
    AckedAfterHandlerRan
PROPERTY EveryJobEnds
CHECK_DEADLOCK FALSE
