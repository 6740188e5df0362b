CONSTANTS
    Worker = {w1}
    Poison = {}
    Count = 2
    MaxLen = 3
    MaxPublished = 3
    MaxFaults = 1
    L = 2
    MaxLapses = 0
SPECIFICATION InferenceSpec
INVARIANTS RetryIsHarmless
