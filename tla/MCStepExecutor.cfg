SPECIFICATION FairExecution
CONSTANTS
    s1 = s1
    s2 = s2
    s3 = s3
    NoStep = NoStep
    Listed <- MCListed
    Workflow <- MCWorkflow
    Step = {s1, s2, s3}
    MaxParallel = 2
    MaxAttempts = 2
INVARIANTS
    TypeOK
    ScheduleIsLayered
    StartedAfterDependencies
    WithinLimit
    ResultAccountsForSteps
    DeadlockOnlyAfterSkip
    ResolverDecides
    LevelsAreDepths
    ValidatorDecides
    DepthWarningIsDue
    SchedulesAgree
    CriticalPathIsLongest
PROPERTIES
    ResultIsFinal
    KeepsStepOrder
    Returns
CHECK_DEADLOCK FALSE
