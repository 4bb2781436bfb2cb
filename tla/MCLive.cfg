SPECIFICATION FairLive
CONSTANTS
    Goroutine = {"A", "B"}
    Key <- MCKey
    Caller = {"explorer"}
    Reawait = FALSE
    Program <- MCProgram
    Script <- MCScript
INVARIANTS
    NoDataRace
    LeftParked
PROPERTIES
    QuiesceStill
    ImplementsReplay
    EndsOrBlocks
CHECK_DEADLOCK FALSE
