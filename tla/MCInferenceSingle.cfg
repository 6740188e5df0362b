CONSTANTS
    Worker = {w1}
    Poison = {}
    Count = 2
    MaxLen = 4
    MaxPublished = 4
    MaxFaults = 1
    L = 3
    MaxLapses = 1
SPECIFICATION FairInferenceSpec
INVARIANTS ForecastsAreSound
PROPERTIES EventuallyForecast
