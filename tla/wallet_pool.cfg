SPECIFICATION Spec
CONSTANTS
    Null = Null
    Wallets = {w1, w2}
    Customers = {k1, k2}
    Calls = {c1, c2, c3}
    Dying = {c1, c2, c3}
    Drivers = {"rows", "pair"}
    TTL = 0
    MaxTime = 2
SYMMETRY Symmetry
INVARIANTS
    TypeOK
    PoolIsClean
    AnswersAgree
    PairAssignsNothing
    LockForgetsOnlyInARace
    TerminalAnswersAreTrue
PROPERTIES
    OwnerIsForever
    TerminalIsForever
    ImplementsAssignment
CHECK_DEADLOCK FALSE
