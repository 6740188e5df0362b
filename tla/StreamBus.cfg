CONSTANTS
    Worker = {w1, w2}
    Poison = {2}
    Count = 2
    MaxLen = 2
    MaxPublished = 3
    MaxFaults = 2
SPECIFICATION FairSpec
INVARIANTS TypeOK AtLeastOnceDelivery SettledStaysSettled
PROPERTIES ImplementsPromise EventuallyAcked
