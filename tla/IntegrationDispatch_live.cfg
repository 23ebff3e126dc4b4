SPECIFICATION FairSpec
CONSTANTS
    d1 = d1
    d2 = d2
    Deliveries = {d1}
    Workers = {w1, w2}
    Operators = {o1}
    Reconcilers = {r1}
    Codes = {"none"}
    MaxAttempts = 2
    Limit = 1
    MaxClaims <- MCThreeClaims
INVARIANTS
    DuplicatesAreAccounted
PROPERTIES
    EventuallySettled
CHECK_DEADLOCK FALSE
