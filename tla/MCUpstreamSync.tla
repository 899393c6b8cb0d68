---------------------------- MODULE MCUpstreamSync ----------------------------
(***************************************************************************)
(* Small instances of UpstreamSync: specs, clusters and node pools that    *)
(* its runs share.                                                         *)
(***************************************************************************)
EXTENDS UpstreamSync

Releases == [old |-> [major |-> 1, minor |-> 29], new |-> [major |-> 1, minor |-> 30]]

Upgrades == [old |-> {"new"}, new |-> {}]

NoUpgrades == [old |-> {}, new |-> {}]

\* A spec that asks for a version and leaves the rest to GKE.
Leaving(version) ==
    [kubernetesVersion |-> version, releaseChannel |-> Nil, clusterAddons |-> Nil,
     masterAuthorizedNetworks |-> Nil, loggingService |-> Nil, monitoringService |-> Nil,
     networkPolicyEnabled |-> Nil, zone |-> "", locations |-> << >>, maintenanceWindow |-> Nil,
     labels |-> Nil, nodePools |-> Nil, autopilot |-> FALSE, ipAllocationPolicy |-> Nil]

\* A spec like another but for some settings.
With(s, settings) == Applied(settings, s)

Plain ==
    [kubernetesVersion |-> "old", releaseChannel |-> "UNSPECIFIED",
     httpLoadBalancing |-> Nil, horizontalPodAutoscaling |-> Nil, networkPolicyConfig |-> FALSE,
     masterAuthorizedNetworks |-> [enabled |-> FALSE, cidrBlocks |-> << >>],
     loggingService |-> "cloud", monitoringService |-> "cloud", networkPolicyEnabled |-> FALSE,
     locations |-> {"a"}, maintenanceWindow |-> "", labels |-> {}]

Scaling(enabled, max) == [enabled |-> enabled, maxNodeCount |-> max, minNodeCount |-> max]

Managed(both) == [autoRepair |-> both, autoUpgrade |-> both]

\* A pool of a spec that names everything.
Asked(name, version) ==
    [name |-> name, version |-> version, initialNodeCount |-> 1, maxPodsConstraint |-> Nil,
     autoscaling |-> Scaling(FALSE, 0), management |-> Managed(FALSE),
     config |-> [imageType |-> "cos", labels |-> Nil, serviceAccount |-> ""]]

\* A pool of a cluster as Asked would have it.
Have(version) ==
    [version |-> version, imageType |-> "cos", labels |-> {}, initialNodeCount |-> 1,
     autoscaling |-> Nil, management |-> Managed(FALSE)]

AddonsWith(policy) ==
    [httpLoadBalancing |-> TRUE, horizontalPodAutoscaling |-> FALSE, networkPolicyConfig |-> policy]

Fresh == [p |-> Have("old")]

\* A cluster with a network policy and a block too many.
Guarded ==
    [Plain EXCEPT !.networkPolicyConfig = Nil, !.networkPolicyEnabled = TRUE,
                  !.masterAuthorizedNetworks = [enabled |-> TRUE,
                                                cidrBlocks |-> << "office", "home" >>]]

NoLabels == {}

OthersLabels == { {"theirs"} }

-----------------------------------------------------------------------------
(* Passes: the network policy and its add-on go on and off, the cluster is     *)
(* upgraded with its pools, one of which comes and goes, a name is listed      *)
(* twice, a block too, and things that may be left out are                     *)

PolicyWith(policy) ==
    With(Leaving("old"),
         [clusterAddons |-> AddonsWith(policy), networkPolicyEnabled |-> policy,
          masterAuthorizedNetworks |-> [enabled |-> TRUE, cidrBlocks |-> << "office" >>],
          loggingService |-> "", labels |-> {"mine"}, nodePools |-> << Asked("p", "old") >>])

\* An image for a pool that is given no version.
Unversioned(np) == [np EXCEPT !.version = Nil, !.config.imageType = "ubuntu"]

\* A block listed twice, as many as the cluster has.
Repeating(s) ==
    With(s, [masterAuthorizedNetworks |->
                    [enabled |-> TRUE, cidrBlocks |-> << "office", "office" >>],
             nodePools |-> << Unversioned(Asked("p", "old")) >>])

SelfUpgrading(np) == [np EXCEPT !.management = [autoRepair |-> FALSE, autoUpgrade |-> TRUE]]

Configless(np) == [np EXCEPT !.config = Nil]

PassesRevisions == {
    PolicyWith(TRUE),
    Repeating(PolicyWith(FALSE)),
    With(Leaving("new"), [nodePools |-> << Asked("p", "new"), SelfUpgrading(Asked("q", "")) >>]),
    With(Leaving("new"), [nodePools |-> << Asked("p", "new"), Asked("p", "old") >>]),
    With(Leaving("old"), [clusterAddons |-> AddonsWith(FALSE)]),
    With(Leaving("old"), [nodePools |-> << Configless(Asked("p", "old")), Asked(Nil, "old") >>]) }

PassesClusters == { Guarded }

PassesPools == { Fresh, [p |-> Have("old"), q |-> SelfUpgrading(Have("old"))] }

-----------------------------------------------------------------------------
(* Catchup: every setting of the cluster and of a node pool is different, and  *)
(* another pool is in place of the second                                      *)

Everything ==
    With(Leaving("new"),
         [releaseChannel |-> "Stable", clusterAddons |-> AddonsWith(FALSE),
          networkPolicyEnabled |-> FALSE, loggingService |-> "", monitoringService |-> "none",
          masterAuthorizedNetworks |-> [enabled |-> FALSE, cidrBlocks |-> << "office" >>],
          zone |-> "a", locations |-> << "a", "b" >>, maintenanceWindow |-> "03:00",
          labels |-> {"mine"}])

Changed ==
    [Asked("p", "new") EXCEPT !.initialNodeCount = 2, !.autoscaling = Scaling(TRUE, 3),
                              !.management = Managed(TRUE), !.config.imageType = "ubuntu",
                              !.config.labels = {"mine"}]

CatchupRevisions == { With(Everything, [nodePools |-> << Changed, Asked("q", "new") >>]) }

CatchupClusters == { Plain, Guarded }

CatchupPools == { [p |-> Have("old"), r |-> Have("old")] }

-----------------------------------------------------------------------------
(* EmptyChannel: the channel of a cluster in STABLE is left empty              *)

EmptyChannel == { With(Leaving("old"), [releaseChannel |-> ""]) }

InStable == { [Plain EXCEPT !.releaseChannel = "STABLE"] }

FreshPools == { Fresh }
=============================================================================
