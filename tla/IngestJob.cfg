CONSTANTS
    Worker = {w1}
    Poison = {}
    Count = 2
    MaxLen = 2
    MaxPublished = 2
    MaxFaults = 1
    MaxEvents = 3
    ChunkRows = 2
SPECIFICATION FairIngestSpec
INVARIANTS JobsEndTruthfully
PROPERTIES ReportsMoveForward EventuallyFinal
