---------------------------- MODULE ClusterUpdates ----------------------------
(***************************************************************************)
(* The nine update functions of pkg/gke/update.go that concern the cluster *)
(* as a whole.  Each takes the spec and the cluster as                     *)
(* buildUpstreamClusterState reports it, and yields the fields of the      *)
(* cluster that its request changes, with their new values: a function     *)
(* whose domain is empty where the code reports NotChanged.  The blocks    *)
(* of both and the locations of a spec are lists, because one may be there *)
(* twice, which the comparisons take for another one; GKE reports each     *)
(* location of a cluster once, so that those of a cluster are a set.       *)
(***************************************************************************)
EXTENDS Naturals, Sequences, Functions, ReleaseChannels

\* Release[v] holds the numbers of version v; a version without numbers is one
\* that semver does not parse.
CONSTANT Release

NoRequest == [f \in {} |-> Nil]

\* A cluster or a node pool after a request for some of its fields.
Applied(request, to) ==
    [f \in DOMAIN to |-> IF f \in DOMAIN request THEN request[f] ELSE to[f]]

Given(v) == v \notin {Nil, ""}

Major(v) == Release[v].major

Minor(v) == Release[v].minor

Addons == {"httpLoadBalancing", "horizontalPodAutoscaling", "networkPolicyConfig"}

-----------------------------------------------------------------------------
(* What GKE reports, in the terms of a spec *)

\* GKE is taken to report an AddonsConfig for every cluster, in which an add-on it says
\* nothing about is on; without one, all three are off to the code.  Blocks count only
\* while enabled.
buildUpstreamClusterState(cluster) ==
    [kubernetesVersion |-> cluster.kubernetesVersion,
     releaseChannel |-> UpstreamReleaseChannel(cluster.releaseChannel),
     clusterAddons |-> [a \in Addons |-> cluster[a] \in {Nil, TRUE}],
     masterAuthorizedNetworks |->
        IF cluster.masterAuthorizedNetworks.enabled THEN cluster.masterAuthorizedNetworks
                                                    ELSE [enabled |-> FALSE, cidrBlocks |-> << >>],
     loggingService |-> cluster.loggingService,
     monitoringService |-> cluster.monitoringService,
     networkPolicyEnabled |-> cluster.networkPolicyEnabled,
     locations |-> cluster.locations,
     maintenanceWindow |-> cluster.maintenanceWindow,
     labels |-> cluster.labels]

-----------------------------------------------------------------------------
(* The update functions *)

VersionDiffers(spec, upstream) ==
    Given(spec.kubernetesVersion) /\ spec.kubernetesVersion # upstream.kubernetesVersion

\* The version is refused without a call: semver cannot read it, or it would
\* lower the minor version.
VersionRefused(spec, upstream) ==
    /\ VersionDiffers(spec, upstream)
    /\ \/ spec.kubernetesVersion \notin DOMAIN Release
       \/ /\ Major(spec.kubernetesVersion) = Major(upstream.kubernetesVersion)
          /\ Minor(spec.kubernetesVersion) < Minor(upstream.kubernetesVersion)

UpdateMasterKubernetesVersion(spec, upstream) ==
    IF VersionDiffers(spec, upstream) THEN [kubernetesVersion |-> spec.kubernetesVersion]
                                      ELSE NoRequest

\* A slip for the runs to catch: the present channel is not looked at.
ChannelAlwaysSent(spec, upstream) ==
    IF spec.releaseChannel = Nil THEN NoRequest
    ELSE [releaseChannel |-> gkeReleaseChannel(spec.releaseChannel)]

UpdateReleaseChannel(spec, upstream) ==
    IF spec.releaseChannel \in {Nil, upstream.releaseChannel} THEN NoRequest
    ELSE [releaseChannel |-> gkeReleaseChannel(spec.releaseChannel)]

DiffersIn(a, spec, upstream) == spec.clusterAddons[a] # upstream.clusterAddons[a]

\* NetworkPolicyEnabled is dereferenced here, nil or not.
AddonsDereferenceNil(spec, upstream) ==
    /\ spec.clusterAddons # Nil
    /\ DiffersIn("networkPolicyConfig", spec, upstream)
    /\ ~spec.clusterAddons.networkPolicyConfig
    /\ spec.networkPolicyEnabled = Nil

\* A slip for the runs to catch: the add-on does not wait for the policy.
NeverWaits(spec, upstream) == FALSE

\* The network policy add-on is on its way out, but the policy is still on.
AddonWaits(spec, upstream) ==
    /\ ~spec.clusterAddons.networkPolicyConfig
    /\ spec.networkPolicyEnabled = FALSE
    /\ upstream.networkPolicyEnabled

UpdateClusterAddons(spec, upstream) ==
    IF spec.clusterAddons = Nil THEN NoRequest
    ELSE [a \in { b \in Addons : /\ DiffersIn(b, spec, upstream)
                                 /\ b = "networkPolicyConfig" => ~AddonWaits(spec, upstream) }
             |-> spec.clusterAddons[a]]

\* Lists of the same length count as equal when the spec's blocks are all there.
compareCidrBlockPointerSlices(lh, rh) ==
    Len(lh) = Len(rh) /\ Range(rh) \subseteq Range(lh)

\* A request that only switches carries no blocks, and there are none to carry:
\* none are compared while disabled, and equal ones while enabling are empty.
UpdateMasterAuthorizedNetworks(spec, upstream) ==
    LET want == spec.masterAuthorizedNetworks
        have == upstream.masterAuthorizedNetworks
    IN  IF want = Nil THEN NoRequest
        ELSE IF want.enabled /\ ~compareCidrBlockPointerSlices(have.cidrBlocks, want.cidrBlocks)
        THEN [masterAuthorizedNetworks |-> want]
        ELSE IF want.enabled # have.enabled
        THEN [masterAuthorizedNetworks |-> [enabled |-> want.enabled, cidrBlocks |-> << >>]]
        ELSE NoRequest

\* The service a spec means: an empty name stands for Google's own.
ServiceMeant(service) == IF service = "" THEN "cloud" ELSE service

UpdateLoggingMonitoringService(spec, upstream) ==
    [s \in { t \in {"loggingService", "monitoringService"} :
                spec[t] # Nil /\ ServiceMeant(spec[t]) # upstream[t] }
        |-> ServiceMeant(spec[s])]

UpdateNetworkPolicyEnabled(spec, upstream) ==
    IF spec.networkPolicyEnabled \in {Nil, upstream.networkPolicyEnabled} THEN NoRequest
    ELSE [networkPolicyEnabled |-> spec.networkPolicyEnabled]

\* Only a zonal cluster has locations to edit.  An empty list against the
\* cluster's own zone is left alone; against more zones it is sent, but the
\* request then carries nothing (desiredLocations is omitted when empty).  A location
\* that is listed twice never compares equal and is sent on every pass.
UpdateLocations(spec, upstream) ==
    IF \/ spec.zone = ""
       \/ spec.locations = << >> /\ upstream.locations = {spec.zone}
       \/ IsInjective(spec.locations) /\ Range(spec.locations) = upstream.locations
    THEN NoRequest
    ELSE [locations |-> IF spec.locations = << >> THEN upstream.locations
                                                  ELSE Range(spec.locations)]

UpdateMaintenanceWindow(spec, upstream) ==
    IF spec.maintenanceWindow \in {Nil, upstream.maintenanceWindow} THEN NoRequest
    ELSE [maintenanceWindow |-> spec.maintenanceWindow]

UpdateLabels(spec, upstream) ==
    IF spec.labels \in {Nil, upstream.labels} THEN NoRequest
    ELSE [labels |-> spec.labels]

-----------------------------------------------------------------------------
(* One pass over the cluster: the first function that changes something *)

Updates(spec, upstream) ==
    << UpdateMasterKubernetesVersion(spec, upstream),
       UpdateReleaseChannel(spec, upstream),
       UpdateClusterAddons(spec, upstream),
       UpdateMasterAuthorizedNetworks(spec, upstream),
       UpdateLoggingMonitoringService(spec, upstream),
       UpdateNetworkPolicyEnabled(spec, upstream),
       UpdateLocations(spec, upstream),
       UpdateMaintenanceWindow(spec, upstream),
       UpdateLabels(spec, upstream) >>

\* The position in Updates of the function whose request goes out; 0 if none.
FirstUpdate(spec, upstream) ==
    LET sends == { i \in 1 .. 9 : DOMAIN Updates(spec, upstream)[i] # {} }
    IN  IF sends = {} THEN 0 ELSE CHOOSE i \in sends : \A j \in sends : i <= j

\* A slip for the runs to catch: the channel is dereferenced, nil or not.
UpdatePanicsOnNilChannel(spec, upstream) ==
    spec.releaseChannel = Nil /\ ~VersionDiffers(spec, upstream)

\* The nil dereference in UpdateClusterAddons is reached.
UpdatePanics(spec, upstream) ==
    /\ AddonsDereferenceNil(spec, upstream)
    /\ FirstUpdate(spec, upstream) \notin {1, 2}
=============================================================================
