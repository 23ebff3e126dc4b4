SPECIFICATION Spec
CONSTANT MaxHandles = 5
INVARIANTS
    NoHalfBody
    LatchIsEarned
CHECK_DEADLOCK FALSE
