SPECIFICATION Spec
CONSTANTS
    Null = Null
    Signers = {s1, s2}
    Jobs = {j1, j2}
    Deadlines = {0, 1}
    GlobalPipe = FALSE
    MaxTime = 1
    MaxCrash = 1
    MaxLost = 0
PROPERTIES
    LiveJobIsServed
CHECK_DEADLOCK FALSE
