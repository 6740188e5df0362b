CONSTANTS
    Worker = {w1, w2}
    Poison = {}
    Count = 2
    MaxLen = 3
    MaxPublished = 3
    MaxFaults = 0
    L = 2
    MaxLapses = 0
SPECIFICATION InferenceSpec
INVARIANTS ReplicasKeepOrder
