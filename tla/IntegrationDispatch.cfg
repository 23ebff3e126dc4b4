SPECIFICATION Spec
CONSTANTS
    d1 = d1
    d2 = d2
    Deliveries = {d1, d2}
    Workers = {w1, w2}
    Operators = {o1}
    Reconcilers = {r1}
    Codes = {"none", "throttling"}
    MaxAttempts = 2
    Limit = 1
    MaxClaims <- MCMaxClaims
SYMMETRY Symmetry
INVARIANTS
    DeliveredReallyLanded
    OvershootIsBounded
    FencedUntilReset
CHECK_DEADLOCK FALSE
