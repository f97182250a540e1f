SPECIFICATION FairSpec
CONSTANTS
    c = c
    g = g
    Committed = {}
    Bare = {g}
    Incoming = {c}
    Deposits = {}
    Others = {}
    MaxSlot = 1
    MaxSends = 1
    MaxAttempts = 2
    MaxCuts = 1
    HasSubgraph = TRUE
    Untimely = {}
PROPERTIES
    EventuallyMined
    SentCleared
