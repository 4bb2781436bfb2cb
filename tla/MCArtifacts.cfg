SPECIFICATION Spec
CONSTANTS
    Scene <- MCScene
    State <- MCState
    Transition <- MCTransition
    Initial <- MCInitial
    Enabled <- MCEnabled
    Apply <- MCApply
    Specs <- MCSpecs
    Err <- MCErr
    Precedes <- StepPrecedes
    Text <- MCText
    Path <- MCPath
    Decoded <- MCDecoded
    Bound <- MCBound
INVARIANTS
    DiskReproduces
    GateMeansEvidence
    PairOnExit
PROPERTY
    RawStays
