SPECIFICATION Spec
CONSTANTS
    MaxTx = 4
    MaxPending = 1
    BatchSize = 2
    BirthIndex = 1
    PartialThreshold = 1
    ColdFrom = 0
    ColdNext = 3
    ColdThreshold = 1
    HasSubgraph = FALSE
    RollbackAttempts = 1
    WipeAttempts = 1
    MaxFaults = 2
    Endless = FALSE
    RestartWhen = "never"
    ResetWhen = "never"
INVARIANTS
    VerifiedPrefix
    HistoryComplete
