SPECIFICATION FairSpec
CONSTANTS
    Observers = {o1, o2}
    Nobody = Nobody
    QueueCap = 3
    MaxExecutions = 4
INVARIANTS TypeOK QueueSound
PROPERTIES LoopKeepsOut EveryLaunchRuns
