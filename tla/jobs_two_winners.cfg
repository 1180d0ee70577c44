SPECIFICATION Spec
CONSTANTS
    Null = Null
    Jobs = {j1}
    Calls = {c1, c2, c3}
    MaxRetry = 1
    Deadlines = {1}
    MaxTime = 2
    Overlap = TRUE
    Ops = {"claim"}
INVARIANTS OneClaimWinner
CHECK_DEADLOCK FALSE
