SPECIFICATION FairSpec
CONSTANTS
    Tasks = {t1, t2}
    Nothing = Nothing
    MaxInFlight = 2
    MaxAttempts = 2
    MaxConnections = 2
    MaxCommands = 2
    MaxMoves = 4
INVARIANTS IInv Accounted OneAtATime
PROPERTIES HeldEnds
CHECK_DEADLOCK FALSE
