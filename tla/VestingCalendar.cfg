SPECIFICATION Spec
CONSTANTS
    Count = 2
    Cfg <- MCStreams
    Fuel = 1
    MaxU64 = 2
    Owner = Owner
    Keys <- MCKeys
    Vault = Vault
    Other = Other
    NoAddress = NoAddress
    Bindable <- MCBound
    Sources = {Vault}
    Flags = {}
    Times = {0, 3, 4, 6}
    MaxShell = 1
INVARIANTS
    FinishNeverFails
    NothingStranded
PROPERTIES
    EarnedRights
