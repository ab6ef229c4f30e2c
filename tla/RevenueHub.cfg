SPECIFICATION HubSpec
CONSTANTS
    m1 = m1
    m2 = m2
    m3 = m3
    DENOMINATOR = 3
    Count = 2
    Weights <- MCWeights
    Managers <- MCManagers
    Delay = 1
    VoteWindow = 1
    InitialFuel = 1
    MaxU128 = 6
    MaxU64 = 2
    MaxU32 = 0
    Keys <- MCKeys
    Vault = Vault
    Other = Other
    NoAddress = NoAddress
    Deposits = {3}
    Ballots <- MCNoBallots
    Sources = {Vault}
    Flags = {}
    MaxShell = 1
    MAX_BATCH = 2
    BatchSizes = {2, 3}
CHECK_DEADLOCK FALSE
INVARIANTS
    RecordsFollowReceipts
    BatchEqualsIsolated
    CompactAgrees
    ConversionLossless
