CONSTANTS
    Inputs <- const_Inputs
    MaxInputs = 2
    Hooks = {TRUE}
SPECIFICATION FairSpec
PROPERTIES PauseHolds
CHECK_DEADLOCK FALSE
