SPECIFICATION FairSpec
CONSTANTS
    A = A  B = B  p = p  q = q  e1 = e1  e2 = e2  e3 = e3
    Nodes = {A, B}
    Sessions = {p, q}
    Events = {e1, e2, e3}
    NoSession = NoSession
    Home <- MCHome
    Event <- MCEvent
    AllowTrigger = TRUE
    MaxDup = 1
    MaxBuf = 1
INVARIANTS TypeOK OnlyAudience CopiesBounded
PROPERTY RelayedReaches
\* The instance ends once every event is pushed and every session has left.
CHECK_DEADLOCK FALSE
