SPECIFICATION FairSpec
CONSTANTS
    Outputs = {a, b}
    Nothing = Nothing
    StoreErrorsMax = 1
    MaxStages = 2
    MaxTasks = 2
    MaxRetractions = 1
INVARIANTS IInv RootIsFiles
PROPERTIES StagesInOrder EventuallyEnds
CHECK_DEADLOCK FALSE
