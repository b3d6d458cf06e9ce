SPECIFICATION Spec
CONSTANTS
    NAttempt = 3
    NChild = 1
    Concurrency = 1
    MaxActive = 2
    MaxCrash = 1
    MaxControl = 3
    MaxBeatVersion = 0
    DirectHandles = FALSE
    CancelMayRaise = FALSE
    HostRecovers = FALSE
    HostRegisters = TRUE
\* One at a time: each of these is refuted.
PROPERTY AdmissionPrevented
\* PROPERTY RequestReachesWorkers
\* INVARIANT ResumedWorkRuns
\* INVARIANT ExecuteIsAtomic
\* INVARIANT OneLiveAttemptPerChild
CHECK_DEADLOCK FALSE
