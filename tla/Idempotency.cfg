SPECIFICATION FairSpec
CONSTANTS
    Txns = {t1, t2, t3}
    k1 = k1
    k2 = k2
    f1 = f1
    f2 = f2
    Keys = {k1, k2}
    Fingerprints = {f1, f2}
    NoFingerprint = NoFingerprint
    Programs <- MCPrograms
    ExpiringKeys = {k1}
INVARIANTS EffectsMatchLedger AtMostOncePerKey ReplaysAreReal
    RaisedIsExplained
PROPERTY RequestsEnd
CHECK_DEADLOCK FALSE
