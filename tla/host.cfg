CONSTANTS
    epoch = epoch  plan = plan  execute = execute
    p1 = p1  s1 = s1  x1 = x1  other = other
    nobody = nobody
    Request <- Keys
    Nobody = nobody
    MaxCrash = 1
    MaxRefuse = 1
    NChild = 1
    MaxChild = 1
    Scenarios <- HostScenarios
    EpochKey = epoch
    PlanKey = plan
    ExecuteKey = execute
    ControlKeys <- KeysOfControls
    Others = {other}
    MaxLost = 2
SPECIFICATION HostSpec
PROPERTIES
    HandleInStep
CHECK_DEADLOCK FALSE
