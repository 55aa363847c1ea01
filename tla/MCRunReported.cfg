SPECIFICATION Spec
CONSTANTS
    i1 = i1
    i2 = i2
    r1 = r1
    r2 = r2
    q1 = q1
    Instance = {i1, i2}
    StoreId = {r1, r2}
    Request = {q1}
    NoInstance = NoInstance
    Resuming = {i1}
    Watched = r1
    Stale = 0
    MaxVersion = 2
    MaxTime = 3
PROPERTY WorkflowResultReported
