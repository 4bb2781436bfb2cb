SPECIFICATION FairSpec
CONSTANTS
    Goroutine = {g1, g2}
    Key = {k1, k2}
    Caller = {c1, c2}
    Reawait = TRUE
INVARIANTS
    TypeOK
    NoLostWakeup
PROPERTIES
    QuiesceSound
    NoMissedPanic
    ReleaseDrains
    QuiesceReturns
    ReleaseReturns
CHECK_DEADLOCK FALSE
