SPECIFICATION FairSpec
CONSTANTS
    Nodes = {n1, n2}
    Outputs = {a}
    Traps = {trap}
    NoResult = NoResult
    MaxContestedRounds = 3
    ResultsCap = 8
    ReleasesCap = 2
INVARIANTS Agreement Elected IInv
PROPERTIES Finality 
CHECK_DEADLOCK FALSE
