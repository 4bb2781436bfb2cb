SPECIFICATION FairPipeline
CONSTANTS
    Scene <- MCScene
    State <- MCState
    Transition <- MCTransition
    Initial <- MCInitial
    Enabled <- MCEnabled
    Apply <- MCApply
    Specs <- MCSpecs
    Err <- MCErr
    Precedes <- StepPrecedes
    Text <- MCText
    Evidences = {}
    Subject <- MCScene
    Cap <- MCCap
INVARIANTS
    VerdictIsHonest
    ReplayConfirms
PROPERTY
    ComesToAnEnd
CHECK_DEADLOCK FALSE
