SPECIFICATION FairSpec
CONSTANTS
    Parts = 2
    MaxSends = 2
    MaxAttempts = 2
    IssuesThreshold = 1
    MaxErrors = 1
    MaxSyncs = 1
    Untimely = {}
INVARIANTS
    TypeOK
    NoConflict
PROPERTIES
    SentOneByOne
    TransferEnds
    OutcomeTold
CHECK_DEADLOCK FALSE
