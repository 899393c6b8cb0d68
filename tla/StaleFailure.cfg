SPECIFICATION Spec
CONSTANTS
    MaxValue = 1
    Defaults <- AllOff
    LastGeneration = 1
    Revision <- OneRevision
    LeftoverSecret = FALSE
CHECK_DEADLOCK FALSE
INVARIANT FailureCleared
