SPECIFICATION Spec
CONSTANTS
    Null = Null
    Signers = {s1, s2}
    Jobs = {j1, j2}
    Deadlines = {1}
    GlobalPipe = TRUE
    MaxTime = 1
    MaxCrash = 0
    MaxLost = 0
PROPERTIES
    SignedJobCompletes
CHECK_DEADLOCK FALSE
