CONSTANTS
    Peers = {1, 2, 3}
    LastDayWindow = 3
    MaxDayFlows = 3
    MaxDayPackets = 1
SPECIFICATION TableSpec
INVARIANTS PriorIsOfTheWindowBefore
CHECK_DEADLOCK FALSE
