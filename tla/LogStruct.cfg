CONSTANTS
    StructSize = 2
    ReverseSize = 2
    MaxBytes = 10
    AllowIOError = TRUE
SPECIFICATION FairSpec
INVARIANTS
    BuffersDisjoint
    NoReallocation
    StreamConserved
PROPERTIES
    ImplementsAppendLog
    IdleShutdownReturns
CHECK_DEADLOCK FALSE
