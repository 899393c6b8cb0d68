SPECIFICATION FairSpec
CONSTANTS
    MaxValue = 1
    Defaults <- Upgraded
    LastGeneration = 1
    Revision <- PoolRevision
    LeftoverSecret = FALSE
CHECK_DEADLOCK FALSE
PROPERTIES Converges Released
