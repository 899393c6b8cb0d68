--------------------------- MODULE ClusterSettings ---------------------------
(***************************************************************************)
(* What a GKEClusterConfig asks of its cluster and what the cluster has,   *)
(* compared setting by setting in the order updateUpstreamClusterState     *)
(* goes through them.  A setting's value is a number: the version for      *)
(* "kubernetesVersion", 0 for a switch that is off, and any distinguishable *)
(* payload for the others.  Unset stands for the nil pointer with which a  *)
(* spec leaves a setting to GKE.                                           *)
(***************************************************************************)
EXTENDS Integers, Sequences

CONSTANT MaxValue

ASSUME MaxValueAssumption == MaxValue \in Nat

Values == 0 .. MaxValue

Unset == -1

\* One entry per update function called by updateUpstreamClusterState, in the
\* order of the calls.  The whole pass over the node pools is one entry.
UpdateOrder == << "kubernetesVersion", "releaseChannel", "clusterAddons",
                  "masterAuthorizedNetworks", "loggingMonitoring",
                  "networkPolicy", "locations", "maintenanceWindow",
                  "labels", "nodePools" >>

Settings == { UpdateOrder[i] : i \in 1 .. Len(UpdateOrder) }

Specs == [Settings -> Values \cup {Unset}]

Confs == [Settings -> Values]

Rank(s) == CHOOSE i \in 1 .. Len(UpdateOrder) : UpdateOrder[i] = s

\* A slip for the runs to catch: the nil check of a setting is forgotten.
OutdatedIfUnset(spec, conf) == { s \in Settings : spec[s] # conf[s] }

Outdated(spec, conf) == { s \in Settings : spec[s] \notin {Unset, conf[s]} }

\* A slip for the runs to catch: the add-on does not wait for the policy.
AddonsNeverWait(spec, conf) == FALSE

\* The network policy add-on is switched off only after the network policy
\* itself is off upstream; until then UpdateClusterAddons reports NotChanged.
AddonsMustWait(spec, conf) ==
    /\ spec["clusterAddons"] = 0
    /\ spec["networkPolicy"] = 0
    /\ conf["networkPolicy"] # 0

Ready(spec, conf) ==
    IF AddonsMustWait(spec, conf) THEN Outdated(spec, conf) \ {"clusterAddons"}
                                  ELSE Outdated(spec, conf)

\* The settings (at most one) that the next call of updateUpstreamClusterState
\* sends to GKE: it returns after the first function that changes something.
NextSettings(spec, conf) ==
    { s \in Ready(spec, conf) : \A t \in Ready(spec, conf) : Rank(s) <= Rank(t) }

\* GKE does not lower the minor version of a control plane, and
\* UpdateMasterKubernetesVersion fails without a call when it is asked to.
VersionBlocked(spec, conf) ==
    /\ spec["kubernetesVersion"] # Unset
    /\ spec["kubernetesVersion"] < conf["kubernetesVersion"]

\* The configuration of a cluster created from spec: GKE chooses what the
\* spec leaves unset.
Created(spec, defaults) ==
    [s \in Settings |-> IF spec[s] = Unset THEN defaults[s] ELSE spec[s]]
=============================================================================
