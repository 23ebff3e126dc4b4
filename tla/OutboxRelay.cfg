SPECIFICATION FairSpec
CONSTANTS
    Events = {e1, e2}
    Workers = {w1, w2}
    NoWorker = NoWorker
    NoEvent = NoEvent
    BatchSize = 2
    MaxAttempts = 2
    BaseBackoff = 1
    MaxBackoff = 1
    Stale = 1
    Skew = 1
    Overdue = 1
    MaxFaults = 1
INVARIANTS ExclusiveLease RetriesAccounted
    ReportedDeadAccounted
PROPERTIES FormerHolderIsFenced EventuallySettled
