SPECIFICATION Spec
CONSTANTS
    MaxValue = 1
    Defaults <- AllOff
    LastGeneration = 2
    Revision <- TwoRevisions
    LeftoverSecret = FALSE
CHECK_DEADLOCK FALSE
INVARIANTS TypeOK DeletesOnlyWhatItCreated ActiveHasSecret QuietMeansSettled
PROPERTIES SettledMeansSynced ImplementsLifecycle
