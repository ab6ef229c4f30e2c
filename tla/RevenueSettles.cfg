SPECIFICATION FairSpec
CONSTANTS
    m1 = m1
    m2 = m2
    m3 = m3
    DENOMINATOR = 3
    Count = 1
    Weights <- MCOneWeight
    Managers <- MCManagers
    Delay = 1
    VoteWindow = 1
    InitialFuel = 1
    MaxU128 = 3
    MaxU64 = 2
    MaxU32 = 2
    Keys <- MCOneKey
    Vault = Vault
    Other = Other
    NoAddress = NoAddress
    Deposits = {3}
    Ballots <- MCPauses
    Sources = {Vault, Other}
    Flags = {TRUE, FALSE}
    MaxShell = 1
PROPERTIES
    PendingSettles
