SPECIFICATION Spec
CONSTANTS
    w1 = w1
    w2 = w2
    a1 = a1
    a2 = a2
    Call <- MCCall
    Webhook <- MCWebhook
    NoCall = NoCall
    LockTimeout = 1
    MaxAttempts = 2
    CompletedTtl = 2
    FailedTtl = 1
    MaxTime = 5
SYMMETRY Symmetry
INVARIANTS
    TypeOK
    HandlersExclude
    AttemptsBound
PROPERTY CompletionOverwritten
CHECK_DEADLOCK FALSE
