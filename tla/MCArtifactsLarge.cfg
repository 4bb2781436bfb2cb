SPECIFICATION Spec
CONSTANTS
    Scene <- MCLarge
    State <- MCState
    Transition <- MCTransition
    Initial <- MCInitial
    Enabled <- MCEnabled
    Apply <- MCApply
    Specs <- MCSpecs
    Err <- MCErr
    Precedes <- StepPrecedes
    Text <- MCText
    Path <- MCPath
    Decoded <- MCDecoded
    Bound <- MCBound
INVARIANT
    SameRaceAgain
