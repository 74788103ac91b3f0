SPECIFICATION Spec
CONSTANTS
    Messages = {c1, c2}
    Chunks = {c1, c2}
    Parts <- MCParts
    Apis = {a1}
    NumRetries = 1
    MaxQueue = 0
    MaxGw = 2
    MaxPing = 0
    None = None
SYMMETRY MCSymmetry
INVARIANTS TypeOK AttemptsBounded Settled
PROPERTY FinishedIsFinal
CHECK_DEADLOCK FALSE
