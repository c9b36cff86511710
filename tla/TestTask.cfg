CONSTANTS
    Inputs <- const_Inputs
    MaxInputs = 2
    Hooks = {TRUE, FALSE}
SPECIFICATION FairSpec
INVARIANTS ResultFaithful PauseIsNoticed InputsInOrder
PROPERTIES CancelEndsTask EndTaskEnds
CHECK_DEADLOCK FALSE
