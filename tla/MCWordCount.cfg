SPECIFICATION Spec
CONSTANTS
    Symbols = {32, 39, 66, 97}
    MaxSize = 5
    MaxMapTasks = 3
    MaxK = 2
    Partitions = 2
    TailChunk = 2
INVARIANTS OwnsItsWords TopExact
CHECK_DEADLOCK FALSE
