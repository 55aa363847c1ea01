SPECIFICATION ExecutionSpec
CONSTANTS
    s1 = s1
    s2 = s2
    s3 = s3
    NoStep = NoStep
    Listed <- MCListed
    Workflow <- MCWorkflow
    Step = {s1, s2, s3}
    MaxParallel = 2
    MaxAttempts = 1
INVARIANT DeadlockMeansStuck
CHECK_DEADLOCK FALSE
