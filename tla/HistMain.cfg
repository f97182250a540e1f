SPECIFICATION Spec
CONSTANTS
    a = a
    d = d
    Committed = {a}
    Bare = {}
    Incoming = {}
    Deposits = {d}
    Others = {}
    MaxSlot = 1
    MaxSends = 2
    MaxAttempts = 2
    MaxCuts = 2
    HasSubgraph = TRUE
    Untimely = {}
INVARIANTS
    MinedShown
PROPERTIES
    MinedOnce
    OwnListed
    MinedStays
