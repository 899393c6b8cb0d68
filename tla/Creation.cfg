SPECIFICATION FairSpec
CONSTANTS
    Nil = Nil
    Release = Release
    Specs <- AllSpecs
    Edits <- Unnamed
    RecordsFail = FALSE
    ServerConfigs <- Moving
CHECK_DEADLOCK FALSE
INVARIANTS TypeOK CreationNeverPanics AsksSupportedChannel CacheStraysByChannelOnly
PROPERTIES Creates
