SPECIFICATION Spec
CONSTANTS
    N = 3
    Base = 1
    MaxU32 = 4
    Inputs = {"message", "deploy"}
INVARIANTS
    HostCanFree
    LiveBytesKept
    OnlyLiveInputRuns
