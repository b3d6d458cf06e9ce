CONSTANTS
    Unparsed = Unparsed
    Missing = Missing
    Order <- TwoRefs
    Path <- TwoPaths
    Keys <- FourKeys
    TTL = 1
    MaxTime = 2
    MaxLease = 3
    MaxCrash = 1
    MaxRefuse = 1
    Scenarios <- WorkScenarios
SPECIFICATION Spec
INVARIANTS
    TypeOK
    LeasesExclude
    LandsInOrder
    IntegratedHasLanded
PROPERTIES
    NoLostUpdate
    LandsUnderLease
CHECK_DEADLOCK FALSE
