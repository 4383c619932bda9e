SPECIFICATION SandboxSpec
CONSTANTS
    Blobs = {b1, b2}
    Null = Null
    Pieces = 1
    MaxRuns = 2
    MaxTrouble = 0
INVARIANT CacheIsBlobs
CHECK_DEADLOCK FALSE
