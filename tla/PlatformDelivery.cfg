SPECIFICATION FairDeliverySpec
CONSTANTS
    Events = {e1}
    Workers = {w1, w2, w3}
    NoWorker = NoWorker
    NoEvent = NoEvent
    BatchSize = 1
    MaxAttempts = 2
    BaseBackoff = 1
    MaxBackoff = 1
    Stale = 1
    Skew = 0
    Overdue = 0
    MaxFaults = 3
PROPERTIES ImplementsExactlyOnce EffectOrDeadLetter
