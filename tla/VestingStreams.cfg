SPECIFICATION FairSpec
CONSTANTS
    Count = 1
    Cfg <- MCOneStream
    Fuel = 1
    MaxU64 = 3
    Owner = Owner
    Keys <- MCOneKey
    Vault = Vault
    Other = Other
    NoAddress = NoAddress
    Bindable <- MCOneBound
    Sources = {Vault}
    Flags = {}
    Times = {0, 3, 4, 6}
    MaxShell = 1
INVARIANTS
    LedgerAgrees
PROPERTIES
    ImplementsPromise
    PendingSettles
