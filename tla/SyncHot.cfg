SPECIFICATION Spec
CONSTANTS
    MaxTx = 2
    MaxPending = 2
    BatchSize = 1
    BirthIndex = 0
    PartialThreshold = 5
    ColdFrom = 0
    ColdNext = 0
    ColdThreshold = 1
    HasSubgraph = TRUE
    RollbackAttempts = 1
    WipeAttempts = 1
    MaxFaults = 2
    Endless = FALSE
    RestartWhen = "written"
    ResetWhen = "idle"
INVARIANTS
    TypeOK
    VerifiedPrefix
    HistoryComplete
PROPERTIES
    ReadySound
