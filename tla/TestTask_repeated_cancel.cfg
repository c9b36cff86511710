CONSTANTS
    Inputs <- const_Inputs
    MaxInputs = 2
    Hooks = {TRUE}
SPECIFICATION FairSpec
PROPERTIES RepeatedCancelSucceeds
CHECK_DEADLOCK FALSE
