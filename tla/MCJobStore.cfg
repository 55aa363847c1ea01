SPECIFICATION Spec
CONSTANTS
    w1 = w1
    w2 = w2
    w3 = w3
    NoWorker = NoWorker
    Job = {j1}
    Worker <- MCWorker
    MaxRetries = 2
    StaleTimeout = 1
    Retention = 1
    MaxAttempts = 3
    MaxCreates = 2
    MaxTime = 6
SYMMETRY Symmetry
INVARIANTS
    TypeOK
    OnlyLatestClaimAccepted
    NoTwoActiveExecutions
PROPERTY FinishedStaysFinished
CHECK_DEADLOCK FALSE
