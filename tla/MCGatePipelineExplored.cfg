SPECIFICATION GateSpec
CONSTANTS
    Scene <- PKept
    State <- MCState
    Transition <- PTransition
    Initial <- PInitial
    Enabled <- PEnabled
    Apply <- PApply
    Specs <- PSpecs
    Err <- PErr
    Precedes <- StepPrecedes
    Text <- MCText
    Workers <- PWorkers
    Steps <- PSteps
    Evidences = {}
INVARIANT
    ExploredCountsSchedules
CHECK_DEADLOCK FALSE
