SPECIFICATION Spec
CONSTANTS
    Null = Null
    Wallets = {w1, w2}
    Customers = {k1, k2}
    Calls = {c1, c2, c3}
    Dying = {c1, c2, c3}
    Drivers = {"pair"}
    TTL = 0
    MaxTime = 1
INVARIANTS ReservationIsHeld
CHECK_DEADLOCK FALSE
