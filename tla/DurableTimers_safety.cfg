SPECIFICATION Spec
CONSTANTS
    Txns = {t1, t2}
    NoTxn = NoTxn
    Calls = {"schedule", "cancel", "accept", "purge"}
    MaxTimers = 2
    MaxCalls = 2
SYMMETRY Symmetry
CONSTRAINT LittleEvidence
INVARIANTS
    TypeOK
    FiresMatchStatus
    CanceledNeverFires
    InsertsNeverClash
    LockedRowIsCurrent
    CancelsObservedUnlessPurged
