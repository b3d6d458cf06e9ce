CONSTANTS
    Unparsed = Unparsed
    r1 = r1  r2 = r2  r3 = r3  r4 = r4  r5 = r5
    nobody = nobody  alice = alice  bob = bob
    Request <- FiveRequests
    Nobody = nobody
    MaxCrash = 1
    MaxRefuse = 1
    Owner <- TwoOwners
    Boundary <- TwoRegions
    Region <- FourRegions
    Grant <- Grants
    Reviewed <- OneByOne
    RegionOf <- Observed
    Scenarios <- HandOvers
SYMMETRY Agents
SPECIFICATION Spec
INVARIANTS
    StartsAgain
CHECK_DEADLOCK FALSE
