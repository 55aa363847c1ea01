SPECIFICATION Spec
CONSTANTS
    d1 = d1
    d2 = d2
    j1 = j1
    r1 = r1
    NoHolder = NoHolder
    NoJob = NoJob
    NoRun = NoRun
    Holder <- MCHolder
    Job = {j1}
    Run = {r1}
    RunOf <- MCNoRunOf
    Handled = {j1}
    Deadline <- MCDeadline
    PullMode = TRUE
    LockTtl = 1
    ExtendTtl = 1
    JobTimeout = 1
    MaxDeliveries = 3
    RecordTtl = 9
    MaxFaults = 0
    MaxTime = 2
PROPERTY NoDuplicateProcessing
CHECK_DEADLOCK FALSE
