SPECIFICATION FairSpec
CONSTANTS
    Nil = Nil
    Release <- Releases
    Newer <- NoUpgrades
    PoolNames = {"p", "q", "r"}
    Revisions <- CatchupRevisions
    FirstClusters <- CatchupClusters
    FirstPools <- CatchupPools
    Others <- NoLabels
CHECK_DEADLOCK FALSE
PROPERTIES Converges ImplementsReconciliation
