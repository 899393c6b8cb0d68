SPECIFICATION Spec
CONSTANTS
    MaxValue = 1
    Defaults <- PolicyOn
    LastGeneration = 1
    Revision <- PolicyRevision
    LeftoverSecret = TRUE
CHECK_DEADLOCK FALSE
INVARIANT QuietMeansSettled
PROPERTY AddonOutlivesPolicy
