SPECIFICATION FairSpec
CONSTANTS
    NAttempt = 1
    NChild = 1
    Concurrency = 1
    MaxActive = 1
    MaxCrash = 1
    MaxControl = 1
    MaxBeatVersion = 0
    DirectHandles = FALSE
    CancelMayRaise = FALSE
    HostRecovers = FALSE
    HostRegisters = FALSE
PROPERTY RequestAnswered
CHECK_DEADLOCK FALSE
