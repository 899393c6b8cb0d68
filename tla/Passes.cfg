SPECIFICATION Spec
CONSTANTS
    Nil = Nil
    Release <- Releases
    Newer <- Upgrades
    PoolNames = {"p", "q"}
    Revisions <- PassesRevisions
    FirstClusters <- PassesClusters
    FirstPools <- PassesPools
    Others <- OthersLabels
CHECK_DEADLOCK FALSE
INVARIANTS TypeOK QuietMeansInSync NodesFollowControlPlane KeepsListedPools PolicyHasItsAddon PanicsOnlyOnIncomplete
