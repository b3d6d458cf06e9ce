SPECIFICATION Spec
CONSTANTS
    Key = {k1, k2}
    MaxSequence = 3
    MaxCrash = 1
    MaxDamage = 1
    FaultSets = {{"capacity", "damage"}}
INVARIANT AnsweredIsRecovered
CHECK_DEADLOCK FALSE
