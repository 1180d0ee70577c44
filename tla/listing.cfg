SPECIFICATION Spec
CONSTANTS
    Rows = {r1, r2, r3, r4}
    Limits = {1, 2, 3}
SYMMETRY Symmetry
INVARIANTS
    OmissionsNeedACause
    RepeatsNeedACause
    StillListIsPaged
