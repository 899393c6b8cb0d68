SPECIFICATION Spec
CONSTANTS
    Nil = Nil
    Release <- Releases
    Newer <- NoUpgrades
    PoolNames = {"p"}
    Revisions <- EmptyChannel
    FirstClusters <- InStable
    FirstPools <- FreshPools
    Others <- NoLabels
CHECK_DEADLOCK FALSE
INVARIANTS AsksForNamedChannels
