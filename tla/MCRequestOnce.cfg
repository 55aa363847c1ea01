SPECIFICATION Spec
CONSTANTS
    w1 = w1
    w2 = w2
    a1 = a1
    a2 = a2
    Call = {a1, a2}
    Webhook = {}
    NoCall = NoCall
    LockTimeout = 1
    MaxAttempts = 2
    CompletedTtl = 9
    FailedTtl = 9
    MaxTime = 5
PROPERTY OncePerKey
CHECK_DEADLOCK FALSE
