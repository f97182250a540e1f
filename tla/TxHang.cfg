SPECIFICATION FairSpec
CONSTANTS
    Parts = 2
    MaxSends = 1
    MaxAttempts = 2
    IssuesThreshold = 0
    MaxErrors = 1
    MaxSyncs = 0
    Untimely = {"request"}
PROPERTIES
    TransferEnds
CHECK_DEADLOCK FALSE
