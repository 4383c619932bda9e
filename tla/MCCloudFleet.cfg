SPECIFICATION FairSpec
CONSTANTS
    Cores <- ThreeCores
    Desired = 2
    None = None
    MaxTrouble = 1
INVARIANTS IInv NoOrphan
PROPERTIES Staffed Rests
CHECK_DEADLOCK FALSE
