CONSTANTS
    r1 = r1  r2 = r2  r3 = r3
    nobody = nobody
    Request <- ThreeRequests
    Nobody = nobody
    MaxCrash = 1
    MaxRefuse = 1
    Provider = {"p", "q"}
    Home = "home"
    Field = {"goal", "secret"}
    AllowedField = {"goal"}
    AllowedClass = {"public", "internal"}
    MaxCut = 1
    Scenarios <- AuditScenarios
SPECIFICATION Spec
INVARIANT HandsOffOnce
CHECK_DEADLOCK FALSE
