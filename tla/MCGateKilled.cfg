SPECIFICATION Spec
CONSTANTS
    Goroutine = {g1}
    Key = {k1}
    Caller = {c1}
    Reawait = FALSE
INVARIANT
    NeverKilled
CHECK_DEADLOCK FALSE
