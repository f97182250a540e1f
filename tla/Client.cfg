SPECIFICATION FairSpec
CONSTANTS
    Pools = {a, b}
    a = a
    b = b
    Users = {u, v}
    First = a
    NoUser = NoUser
    Nowhere = Nowhere
    Calls = {c1}
    Cards = {g1}
    CardPool = a
    Untimely = {}
INVARIANTS
    AccountAttached
    NoLeak
    OneSyncPerAccount
    CacheTrue
PROPERTIES
    CallsReturn
CHECK_DEADLOCK FALSE
