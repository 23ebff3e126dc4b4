SPECIFICATION FairSpec
CONSTANTS
    Workers = {w1, w2}
    NoWorker = NoWorker
    Last = 1
    MaxAttempts = 2
    Lease = 2
    Skew = 0
    MaxLag = 1
    MaxRepairs = 0
    MaxFaults = 1
PROPERTIES
    ResumesOrFails
