SPECIFICATION GateSpec
CONSTANTS
    Scene <- MCPanicking
    State <- MCState
    Transition <- PTransition
    Initial <- PInitial
    Enabled <- PEnabled
    Apply <- PApply
    Specs <- PSpecs
    Err <- PErr
    Precedes <- StepPrecedes
    Text <- MCText
    Workers <- PWorkers
    Steps <- PSteps
    Evidences = {}
INVARIANT
    PassHidesNothing
CHECK_DEADLOCK FALSE
