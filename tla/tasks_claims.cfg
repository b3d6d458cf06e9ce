CONSTANTS
    r1 = r1  r2 = r2  r3 = r3  r4 = r4  r5 = r5
    nobody = nobody
    Request <- FiveRequests
    Nobody = nobody
    MaxCrash = 1
    MaxRefuse = 1
    NChild = 2
    MaxChild = 4
    Scenarios <- LifeScenarios
SPECIFICATION Spec
\* One at a time: each of these is refuted.
INVARIANT VerdictIsDurable
\* INVARIANT CompletedMeansIntegrated
\* INVARIANT AnsweredExecuteHasAttempts
\* INVARIANT AnsweredPlanHasChildren
\* INVARIANT OneActiveEpoch
\* INVARIANT RetryReturnsResult
\* INVARIANT RefusalChangesNothing
\* INVARIANT RefusedPlanLeavesNothing
CHECK_DEADLOCK FALSE
