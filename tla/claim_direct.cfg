SPECIFICATION Spec
CONSTANTS
    NAttempt = 1
    NChild = 1
    Concurrency = 1
    MaxActive = 1
    MaxCrash = 0
    MaxControl = 0
    MaxBeatVersion = 0
    DirectHandles = TRUE
    CancelMayRaise = FALSE
    HostRecovers = FALSE
    HostRegisters = FALSE
INVARIANT RunReturnsTerminal
CHECK_DEADLOCK FALSE
