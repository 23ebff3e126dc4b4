SPECIFICATION Spec
CONSTANTS
    t1 = t1
    t2 = t2
    site = site
    None = None
    Scope <- MCScope
    Sessions = {x1, x2}
    max_keys = 1
    MaxVersions = 2
SYMMETRY Symmetry
INVARIANTS
    CacheKeepsScopes
    StaleOnlyByOverlap
CHECK_DEADLOCK FALSE
