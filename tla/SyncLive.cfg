SPECIFICATION FairSpec
CONSTANTS
    MaxTx = 2
    MaxPending = 1
    BatchSize = 2
    BirthIndex = 0
    PartialThreshold = 5
    ColdFrom = 0
    ColdNext = 0
    ColdThreshold = 1
    HasSubgraph = FALSE
    RollbackAttempts = 1
    WipeAttempts = 3
    MaxFaults = 2
    Endless = TRUE
    RestartWhen = "never"
    ResetWhen = "never"
PROPERTIES
    SyncEnds
    Healed
