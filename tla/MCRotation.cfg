SPECIFICATION FairSpec
CONSTANTS
    Vms <- ThreeVms
    None = None
    Runs = {r1}
    MaxOverlap = 1
    MaxTrouble = 2
    MaxReplays = 1
    MaxRotations = 1
   
PROPERTIES HandoverKeepsWork ImplementsSuccession Recovers
CHECK_DEADLOCK FALSE
