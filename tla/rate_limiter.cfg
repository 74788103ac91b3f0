SPECIFICATION FairSpec
CONSTANTS
    Producers = {p1, p2}
    Jobs = {j1, j2, j3}
    MaxQueue = 1
    Interval = 2
    MaxTime = 3
    None = None
INVARIANTS TypeOK QueueBounded NoLostWakeup AtMostTwoPerInterval
PROPERTIES FifoOnce JobsTaken LimiterStops
CHECK_DEADLOCK FALSE
