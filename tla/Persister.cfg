CONSTANTS
    Worker = {w1}
    Poison = {}
    Count = 2
    MaxLen = 4
    MaxPublished = 4
    MaxFaults = 1
    MaxLapses = 1
    Risk = {1, 2}
    RiskThreshold = 2
    CloseAfter = 1
    LeadTimeM = 2
SPECIFICATION FairPersisterSpec
INVARIANTS AckedIsStored StateFollowsCommit DamageBoundedByFaults
PROPERTIES ImplementsLifecycle EventuallyStored
