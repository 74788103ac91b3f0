SPECIFICATION FairSpec
CONSTANTS
    Messages = {m1}
    Chunks = {c1, c2}
    Parts <- MCAllParts
    Apis = {a1}
    NumRetries = 1
    MaxQueue = 0
    MaxGw = 3
    MaxPing = 3
    None = None
PROPERTY ChunksSettle
CHECK_DEADLOCK FALSE
