SPECIFICATION FairSpec
CONSTANTS
    a1 = a1
    a2 = a2
    B = B
    C = C
    Senders = {a1, a2}
    Installed <- MCInstalled
    Receivers = {B, C}
    Fresh = {C}
    Patcher = Patcher
    Routes <- MCRoutes
    MaxU64 = 2
INVARIANTS
    AnswerIsOwn
    MigrationKept
    CountsExplained
PROPERTIES
    LoneForwardAnswered
