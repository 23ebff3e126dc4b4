SPECIFICATION CallFairSpec
CONSTANTS
    Workers = {w1, w2}
    NoWorker = NoWorker
    Last = 2
    MaxAttempts = 2
    Lease = 2
    Skew = 0
    MaxLag = 1
    MaxRepairs = 1
    MaxFaults = 1
INVARIANTS
    StrictOrder
    ExecutionAgrees
    LeaseIsExclusive
    AttemptsNeedRepairs
PROPERTIES
    SuccessIsFinal
    CallsEnd
