SPECIFICATION Spec
CONSTANTS
    Key = {k1, k2, k3}
    MaxSequence = 5
    MaxCrash = 2
    MaxDamage = 2
    FaultSets = {{"capacity", "full"}, {"damage"}}
INVARIANTS
    TypeOK
    MemoryIsReplay
    SequenceFresh
    StartsAgain
PROPERTY DurableLogSpec
CHECK_DEADLOCK FALSE
