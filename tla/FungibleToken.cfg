SPECIFICATION Spec
CONSTANTS
    Keys = {k1, k2, k3, k4}
    HOLDER_SLOTS = 3
    INITIAL_SUPPLY = 5
    MaxU64 = 5
    Blank = Blank
INVARIANTS
    PayableByBalance
PROPERTIES
    ImplementsBalances
