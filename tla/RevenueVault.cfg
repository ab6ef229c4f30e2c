SPECIFICATION Spec
CONSTANTS
    m1 = m1
    m2 = m2
    m3 = m3
    DENOMINATOR = 3
    Count = 2
    Weights <- MCWeights
    Managers <- MCManagers
    Delay = 1
    VoteWindow = 1
    InitialFuel = 1
    MaxU128 = 4
    MaxU64 = 3
    MaxU32 = 1
    Keys <- MCKeys
    Vault = Vault
    Other = Other
    NoAddress = NoAddress
    Deposits = {1, 3}
    Ballots <- MCNoBallots
    Sources = {Vault}
    Flags = {}
    MaxShell = 1
CHECK_DEADLOCK FALSE
INVARIANTS
    LedgerAgrees
    GenuineCallbackAccepted
PROPERTIES
    ImplementsPromise
