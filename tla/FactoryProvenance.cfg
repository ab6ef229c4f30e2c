SPECIFICATION Spec
CONSTANTS
    Package = Package
    Other = Other
    External = External
    NoAddress = NoAddress
    Developer = Developer
    RelayKey = RelayKey
    s1 = s1
    D = D
    E = E
    Salts = {s1}
    MaxU32 = 1
    Deploys <- MCDeploys
    Targets <- MCTargets
    MaxAccounts = 4
    MaxTransit = 2
INVARIANTS
    AcceptedAreChildren
    StrictAcceptedAreSpawned
