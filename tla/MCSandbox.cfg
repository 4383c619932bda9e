SPECIFICATION FairSandboxSpec
CONSTANTS
    Blobs = {b1}
    Null = Null
    Pieces = 2
    MaxRuns = 2
    MaxTrouble = 2
INVARIANTS OwnAnswer OneThread
PROPERTIES RunsSettle
CHECK_DEADLOCK FALSE
