SPECIFICATION FairSpec
CONSTANTS
    Scene <- MCScene
    State <- MCState
    Transition <- MCTransition
    Initial <- MCInitial
    Enabled <- MCEnabled
    Apply <- MCApply
    Specs <- MCSpecs
    Err <- MCErr
    Precedes <- StepPrecedes
    Text <- MCText
    Fingerprint <- BuiltinFingerprint
    Input <- MCInput
    MaxUint64 = 20
INVARIANTS
    TypeOK
    WitnessReproduces
    PassIsSound
    FirstIsCanonical
    StatsBalance
    InterleavingsAreCounted
PROPERTY
    Terminates
CHECK_DEADLOCK FALSE
