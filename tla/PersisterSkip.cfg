CONSTANTS
    Worker = {w1}
    Poison = {}
    Count = 2
    MaxLen = 3
    MaxPublished = 3
    MaxFaults = 1
    MaxLapses = 0
    Risk = {1, 2}
    RiskThreshold = 2
    CloseAfter = 1
    LeadTimeM = 2
SPECIFICATION PersisterSpec
INVARIANTS NothingSkipped
