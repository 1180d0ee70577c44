SPECIFICATION Spec
CONSTANTS
    Null = Null
    Jobs = {j1}
    Calls = {c1, c2, c3, c4}
    MaxRetry = 2
    Deadlines = {1}
    MaxTime = 2
    Overlap = FALSE
    Ops <- Operations
SYMMETRY Symmetry
INVARIANTS
    OneClaimWinner
PROPERTIES
    ResultWrittenOnce
    ClosedForGood
    ImplementsLifecycle
CHECK_DEADLOCK FALSE
