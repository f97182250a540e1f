SPECIFICATION FairSpec
CONSTANTS
    MaxVersion = 1
    MaxTime = 3
    MaxCalls = 2
    Delay = 1
    Window = 1
INVARIANTS
    StateSound
    TransactAllowed
    OutcomeTrue
PROPERTIES
    CallEnds
CHECK_DEADLOCK FALSE
