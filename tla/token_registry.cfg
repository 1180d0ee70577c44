SPECIFICATION Spec
CONSTANTS
    Null = Null
    Calls = {c1, c2, c3}
    Creators = {c1, c2}
    Networks = {n1}
    Symbols = {s1, s2}
    Addresses = {a1}
SYMMETRY Symmetry
INVARIANTS
    TypeOK
PROPERTIES
    ClashesAreStale
    RevivalsAreStale
    MisbirthsAreStale
CHECK_DEADLOCK FALSE
