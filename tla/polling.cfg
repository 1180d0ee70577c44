SPECIFICATION Spec
CONSTANTS
    Null = Null
    Signers = {s1, s2}
    Jobs = {j1, j2, j3}
    Deadlines = {1}
    GlobalPipe = FALSE
    MaxTime = 2
    MaxCrash = 1
    MaxLost = 1
INVARIANTS
    TypeOK
    SignerIsRecorded
    OrphansHaveACause
    FifoClaims
PROPERTIES
    LiveJobIsServed
    SignedJobCompletes
CHECK_DEADLOCK FALSE
