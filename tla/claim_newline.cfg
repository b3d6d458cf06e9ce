SPECIFICATION Spec
CONSTANTS
    Key = {k1, k2}
    MaxSequence = 2
    MaxCrash = 2
    MaxDamage = 0
    FaultSets = {{"newline"}}
\* Also refuted: AnsweredIsRecovered with FaultSets = {{"halfway"}}; MemoryIsReplay and
\* DurableLogSpec with FaultSets = {{"fsync"}}.
INVARIANT AnsweredIsRecovered
CHECK_DEADLOCK FALSE
