SPECIFICATION Spec
CONSTANTS
    m1 = m1
    m2 = m2
    m3 = m3
    DENOMINATOR = 3
    Count = 1
    Weights <- MCOneWeight
    Managers <- MCManagers
    Delay = 1
    VoteWindow = 1
    InitialFuel = 1
    MaxU128 = 1
    MaxU64 = 2
    MaxU32 = 5
    Keys <- MCOneKey
    Vault = Vault
    Other = Other
    NoAddress = NoAddress
    Deposits = {1}
    Ballots <- MCBallots
    Sources = {}
    Flags = {}
    MaxShell = 1
CHECK_DEADLOCK FALSE
SYMMETRY MCSymmetry
INVARIANTS
    FinishNeverFails
    GovernanceStaysOpen
PROPERTIES
    ChangeAuthorized
