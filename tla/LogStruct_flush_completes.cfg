CONSTANTS
    StructSize = 1
    ReverseSize = 2
    MaxBytes = 4
    AllowIOError = FALSE
SPECIFICATION FairSpec
PROPERTIES
    FlushCompletes
CHECK_DEADLOCK FALSE
