SPECIFICATION FairSpec
CONSTANTS
    NAttempt = 2
    NChild = 2
    Concurrency = 1
    MaxActive = 2
    MaxCrash = 2
    MaxControl = 0
    MaxBeatVersion = 7
    DirectHandles = FALSE
    CancelMayRaise = FALSE
    HostRecovers = FALSE
    HostRegisters = TRUE
PROPERTY QueuedEnds
CHECK_DEADLOCK FALSE
