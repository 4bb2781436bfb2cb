SPECIFICATION FairGate
CONSTANTS
    Scene <- MCScene
    State <- MCState
    Transition <- PTransition
    Initial <- PInitial
    Enabled <- PEnabled
    Apply <- PApply
    Specs <- PSpecs
    Err <- PErr
    Precedes <- StepPrecedes
    Text <- MCText
    Workers <- PWorkers
    Steps <- PSteps
    Evidences = {}
INVARIANTS
    FindsTheFirst
    CrashMeansBroken
    GateReplayConfirms
PROPERTY
    GateEnds
CHECK_DEADLOCK FALSE
