SPECIFICATION Spec
CONSTANTS
    n1 = n1
    n2 = n2
    a = a
    b = b
    NodeOrder <- TwoNodes
    Outputs = {a, b}
    Trap = Trap
    Nothing = Nothing
    Slots = 1
    PageRows = 1
    MaxExecutions = 2
    MaxStages = 1
    MaxTasks = 3
    MaxMissed = 1
    MaxRounds = 2
    MaxTrouble = 1
SYMMETRY EitherOutput
INVARIANTS  RowsShown PlacedRight 
CHECK_DEADLOCK FALSE
