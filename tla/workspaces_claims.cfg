CONSTANTS
    Unparsed = Unparsed
    Missing = Missing
    Order <- TwoRefs
    Path <- TwoPaths
    Keys <- FourKeys
    TTL = 1
    MaxTime = 2
    MaxLease = 3
    MaxCrash = 1
    MaxRefuse = 1
    Scenarios <- WorkScenarios
SPECIFICATION Spec
\* One at a time: each of these is refuted (the last with DottedScenarios).
INVARIANT CanonicalSurvives
\* INVARIANT DirectoriesExclude
\* INVARIANT LandedIsIntegrated
\* INVARIANT LeasesAlwaysExclude
\* INVARIANT LeasesReload
\* PROPERTY LandsUnderLease
CHECK_DEADLOCK FALSE
