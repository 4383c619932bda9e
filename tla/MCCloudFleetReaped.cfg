SPECIFICATION Spec
CONSTANTS
    Cores <- ThreeCores
    Desired = 2
    None = None
    MaxTrouble = 0
PROPERTIES ForgottenIsGone
CHECK_DEADLOCK FALSE
