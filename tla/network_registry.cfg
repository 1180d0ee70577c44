SPECIFICATION Spec
CONSTANTS
    Null = Null
    Calls = {c1, c2, c3}
    Slugs = {s1, s2}
    ChainIds = {i1, i2}
    Names = {m1, m2}
SYMMETRY Symmetry
INVARIANTS
    TypeOK
    EveryColumnWasAsked
    LostUpdatesAreStale
    StaleNeedsACause
PROPERTIES
    ServerErrorHasACause
CHECK_DEADLOCK FALSE
