SPECIFICATION Spec
CONSTANTS
    In = 2
    Out = 2
    BaseFee = 2
    NoteFee = 1
    WithdrawFee = 3
    Types = {"transfer", "withdraw"}
    Balances = {0, 3}
    NoteValues = {1, 2, 5}
    Amounts = {1, 4, 7}
    MaxNotes = 5
    MaxRequests = 3
INVARIANTS
    PlanExecutes
    PlanFound
    EstimateAgrees
    MaxExactNoDust
CHECK_DEADLOCK FALSE
