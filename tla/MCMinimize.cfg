SPECIFICATION FairSpec
CONSTANTS
    Scene <- MCScene
    State <- MCState
    Transition <- MCTransition
    Initial <- MCInitial
    Enabled <- MCEnabled
    Apply <- MCApply
    Specs <- MCSpecs
    Err <- MCErr
    Precedes <- StepPrecedes
    Text <- MCText
    Evidences <- MCEvidences
INVARIANTS
    TypeOK
    ReplayIsFaithful
    CurrentIsEvidence
    NothingAfterViolation
    OneMinimal
    OnlyRemoves
    RefusesOnlyTheRest
    AttemptsBounded
PROPERTY
    Terminates
CHECK_DEADLOCK FALSE
