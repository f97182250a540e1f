SPECIFICATION FairPoolSpec
CONSTANTS
    N = 2
    Callers = {"scan", "list"}
    Retries = 1
    Threshold = 3
    Untimely = {}
    MaxIndex = 2
    Mishaps = {}
PROPERTIES
    FirstUnused
    FundsListed
    ScanEnds
CHECK_DEADLOCK FALSE
