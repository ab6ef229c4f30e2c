SPECIFICATION FairSpec
CONSTANTS
    Count = 2
    Amounts <- MCAmounts
    Hashes = {h1, h2}
    NoHash = NoHash
    MaxAttempts = 2
    Deadline = 1
    FuelReserve = 1
    Owner = Owner
    Worker = Worker
    Stranger = Stranger
    Escrow = Escrow
    PayTo = PayTo
    RefundTo = RefundTo
    Other = Other
    NoAddress = NoAddress
    Sources = {Escrow, Other}
    RejectFlags = {}
    MaxTime = 1
    MaxShell = 1
CHECK_DEADLOCK FALSE
INVARIANTS
    GenuineCallbackAccepted
    LedgerAgrees
    NothingStranded
    FinishNeverFails
    PaidAsSigned
PROPERTIES
    PendingSettles
    OutcomeIsFinal
    ImplementsPromise
