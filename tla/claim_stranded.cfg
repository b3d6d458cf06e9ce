SPECIFICATION FairSpec
CONSTANTS
    NAttempt = 1
    NChild = 1
    Concurrency = 1
    MaxActive = 1
    MaxCrash = 1
    MaxControl = 0
    MaxBeatVersion = 0
    DirectHandles = FALSE
    CancelMayRaise = FALSE
    HostRecovers = FALSE
    HostRegisters = FALSE
PROPERTY QueuedIsConsumed
CHECK_DEADLOCK FALSE
