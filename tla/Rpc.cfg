SPECIFICATION FairSpec
CONSTANTS
    N = 3
    Callers = {c1, c2}
    Retries = 2
    Threshold = 3
    Untimely = {}
INVARIANTS
    GaveUpSound
PROPERTIES
    BadEarned
    CallEnds
    EventuallyServed
CHECK_DEADLOCK FALSE
