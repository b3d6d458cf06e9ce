SPECIFICATION Spec
CONSTANTS
    NAttempt = 2
    NChild = 2
    Concurrency = 1
    MaxActive = 2
    MaxCrash = 2
    MaxControl = 2
    MaxBeatVersion = 0
    DirectHandles = FALSE
    CancelMayRaise = FALSE
    HostRecovers = FALSE
    HostRegisters = TRUE
INVARIANTS
    TypeOK
    ProjectionIsReplay
    CheckpointAgreement
    CheckpointNamesFresh
    NoOrphanRun
    SettledMeansStopped
    SuccessIsBacked
PROPERTIES
    AckedIsFrozen
    LifecycleSpec
CHECK_DEADLOCK FALSE
