SPECIFICATION Spec
CONSTANTS
    MaxU16 = 64
    MaxU32 = 900
    Upgrade = 1
    MessageFrames <- MCMessageFrames
    BatchFrames <- MCBatchFrames
    DeployFrames <- MCDeployFrames
    Envelopes <- MCEnvelopes
    Outputs <- MCOutputs
    BatchOutputs <- MCBatchOutputs
    FieldLists <- MCFieldLists
CHECK_DEADLOCK FALSE
INVARIANTS
    InputsAreCanonical
    DeployViewExact
    EncodersAgree
    AppliesUniquely
