CONSTANTS
    Size = 2
    MaxCalls = 3
    MaxCrashes = 2
SPECIFICATION Spec
INVARIANTS PathIsWhole ReaderSeesWhole FailureKeepsFile 
PROPERTIES ImplementsAtomicFile
CHECK_DEADLOCK FALSE
