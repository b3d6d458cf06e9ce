CONSTANTS
    r1 = r1  r2 = r2  r3 = r3  r4 = r4  r5 = r5
    nobody = nobody
    Request <- FiveRequests
    Nobody = nobody
    MaxCrash = 1
    MaxRefuse = 1
    NChild = 2
    MaxChild = 4
    Scenarios <- LifeScenarios
SPECIFICATION Spec
INVARIANTS
    TypeOK
    ProjectionIsReplay
    ActiveEpochIsActive
    AnsweredMoveIsJournalled
PROPERTIES
    CompletesOnlyOnFacts
    TaskLifeSpec
CHECK_DEADLOCK FALSE
