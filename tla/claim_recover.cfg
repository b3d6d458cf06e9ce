SPECIFICATION Spec
CONSTANTS
    NAttempt = 2
    NChild = 1
    Concurrency = 1
    MaxActive = 2
    MaxCrash = 0
    MaxControl = 0
    MaxBeatVersion = 0
    DirectHandles = FALSE
    CancelMayRaise = FALSE
    HostRecovers = TRUE
    HostRegisters = FALSE
PROPERTY RecoveredAfterEnd
CHECK_DEADLOCK FALSE
