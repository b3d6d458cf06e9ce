SPECIFICATION Spec
CONSTANTS
    NAttempt = 2
    NChild = 1
    Concurrency = 2
    MaxActive = 1
    MaxCrash = 1
    MaxControl = 2
    MaxBeatVersion = 0
    DirectHandles = TRUE
    CancelMayRaise = TRUE
    HostRecovers = TRUE
    HostRegisters = FALSE
INVARIANTS
    RecoveredNeverBlocked
    CapacityRespected
CHECK_DEADLOCK FALSE
