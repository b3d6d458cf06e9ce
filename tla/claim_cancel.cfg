SPECIFICATION Spec
CONSTANTS
    NAttempt = 1
    NChild = 1
    Concurrency = 1
    MaxActive = 1
    MaxCrash = 0
    MaxControl = 1
    MaxBeatVersion = 0
    DirectHandles = FALSE
    CancelMayRaise = TRUE
    HostRecovers = FALSE
    HostRegisters = FALSE
INVARIANT CancelledMeansStopped
CHECK_DEADLOCK FALSE
