CONSTANTS
    Worker = {w1}
    Poison = {}
    Count = 2
    MaxLen = 2
    MaxPublished = 2
    MaxFaults = 1
    Host = {1, 2}
    Ts = {1, 2, 3, 4}
    MaxGap = 1
SPECIFICATION CaptureSpec
PROPERTIES DiscardedAfterPublish EveryWindowCloses
INVARIANTS VectorsAreSound
