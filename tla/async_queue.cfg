SPECIFICATION FairSpec
CONSTANTS
    Workers = {w1, w2}
    Producers = {p1, p2}
    Jobs = {j1, j2, j3}
    None = None
INVARIANTS TypeOK WorkConserving
PROPERTIES FifoOnce JobsRun PoolStops
CHECK_DEADLOCK FALSE
