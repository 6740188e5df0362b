CONSTANTS
    Worker = {w1}
    Poison = {}
    Count = 2
    MaxLen = 3
    MaxPublished = 3
    MaxFaults = 0
    Host = {1, 2}
    Ts = {1, 2}
    MaxGap = 1
SPECIFICATION FeaturesSpec
INVARIANTS OneVectorPerWindow
