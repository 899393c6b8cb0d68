----------------------------- MODULE UpstreamSync -----------------------------
(***************************************************************************)
(* checkAndUpdate and updateUpstreamClusterState: the passes that bring an *)
(* existing cluster and its node pools to what a config asks for, one call *)
(* of GKE at a time, while users edit the config, GKE goes on by itself    *)
(* and the operator restarts.  How the object is stored, cached and queued *)
(* is the subject of ConfigController; here a key that is due is taken     *)
(* with the object as it is stored.                                        *)
(***************************************************************************)
EXTENDS NodePoolUpdates

CONSTANTS
    Revisions,      \* the specs a user may write
    PoolNames,      \* the names node pools may have
    FirstClusters,  \* the settings of the cluster when the config becomes active
    FirstPools,     \* its node pools then: functions from names to settings
    Newer,          \* Newer[v]: the versions to which GKE may upgrade v
    Others          \* the labels other clients of GKE may put on the cluster

VARIABLES
    spec,       \* the stored spec
    phase,      \* its status.phase: active or updating
    due,        \* its key is in the work queue or has a timer running
    cluster,    \* what GKE has: the settings of the cluster
    operation,  \* the operation that runs on the cluster
    pools,      \* the node pools by name, Absent where there is none
    pass        \* the pass over the config a worker is in, Idle if none

configVars == << spec, phase, due >>
gkeVars == << cluster, operation, pools >>
vars == << spec, phase, due, cluster, operation, pools, pass >>

NoOperation == [by |-> "nobody", request |-> NoRequest]

\* No worker is in a pass.
Idle == [at |-> "nowhere"]

\* There is no pool of that name.
Absent == [status |-> "ABSENT"]

\* A pool that is there, with the request GKE works on.
Pool(status, settings, request) ==
    [status |-> status, settings |-> settings, request |-> request]

Running(settings) == Pool("RUNNING", settings, NoRequest)

Present == { n \in PoolNames : pools[n] # Absent }

\* What makes checkAndUpdate wait: the cluster or one of its pools is at work.
Busy ==
    \/ operation # NoOperation
    \/ \E n \in Present : pools[n].status \in {"PROVISIONING", "RECONCILING", "STOPPING"}

\* The pools of the cluster, those on their way out left out.
UpstreamPools ==
    [n \in { p \in Present : pools[p].status # "STOPPING" } |-> pools[n].settings]

Init ==
    /\ spec \in Revisions
    /\ phase = "active"
    /\ due = TRUE
    /\ cluster \in FirstClusters
    /\ operation = NoOperation
    /\ \E first \in FirstPools :
            pools = [n \in PoolNames |-> IF n \in DOMAIN first THEN Running(first[n]) ELSE Absent]
    /\ pass = Idle

At(place) == pass # Idle /\ pass.at = place

GoesTo(place) == pass' = [pass EXCEPT !.at = place]

-----------------------------------------------------------------------------
(* How a pass ends *)

\* The status is written with the resource version of the copy: an edit since the
\* pass began, which is what makes the key due while it runs, refuses the write.
Written(p) == phase' = IF due THEN phase ELSE p

\* An error: the key comes back, and recordError moves an active config to
\* updating unless the error was on record already.
Fails ==
    /\ pass' = Idle
    /\ due' = TRUE
    /\ \/ UNCHANGED phase
       \/ Written("updating")

\* Something was asked of GKE, or is still to be: the config waits for it in the
\* phase updating and its key comes back, by an event, a timer or the queue.
Waits ==
    /\ pass' = Idle
    /\ due' = TRUE
    /\ Written("updating")

\* There was nothing to do.
Settles ==
    /\ pass' = Idle
    /\ Written("active")
    /\ UNCHANGED due

\* A nil pointer is dereferenced: the process ends.
Panics == GoesTo("panicked") /\ UNCHANGED << phase, due >>

-----------------------------------------------------------------------------
(* checkAndUpdate *)

CheckWaits ==
    /\ pass = Idle
    /\ due
    /\ Busy
    /\ phase' = "updating"
    /\ UNCHANGED << spec, due, gkeVars, pass >>

\* The pass reads its copy of the config and the cluster as it is.
CheckUpdates ==
    /\ pass = Idle
    /\ due
    /\ ~Busy
    /\ due' = FALSE
    /\ pass' = [at |-> "cluster", spec |-> spec,
                upstream |-> buildUpstreamClusterState(cluster), pools |-> UpstreamPools,
                fingerprint |-> Nil, todo |-> {}, sent |-> FALSE]
    /\ UNCHANGED << spec, phase, gkeVars >>

-----------------------------------------------------------------------------
(* updateUpstreamClusterState: the cluster *)

\* The names of the node pools a spec lists, and whether it leaves pools alone.
Listed(s) == { s.nodePools[i].name : i \in DOMAIN s.nodePools } \ {Nil}

LeavesPoolsAlone(s) == s.nodePools = Nil \/ s.autopilot

Downstream == buildNodePoolMap(pass.spec.nodePools)

\* A slip for the runs to catch: the error of buildNodePoolMap is passed over.
LooksAtPoolsAnyway ==
    IF LeavesPoolsAlone(pass.spec) THEN Settles
    ELSE /\ pass' = [pass EXCEPT !.at = "pools", !.todo = DOMAIN Downstream \cup DOMAIN pass.pools]
         /\ UNCHANGED << phase, due >>

\* What a pass does when the cluster itself is as the spec asks.
LooksAtPools ==
    IF LeavesPoolsAlone(pass.spec) THEN Settles
    ELSE IF Duplicates(pass.spec.nodePools) THEN Fails
    ELSE /\ pass' = [pass EXCEPT !.at = "pools", !.todo = DOMAIN Downstream \cup DOMAIN pass.pools]
         /\ UNCHANGED << phase, due >>

\* GKE takes one request for a cluster at a time, and it upgrades within a major
\* version to a version it knows.
Accepts(request) ==
    /\ operation = NoOperation
    /\ "kubernetesVersion" \in DOMAIN request =>
            /\ request.kubernetesVersion \in DOMAIN Release
            /\ Major(request.kubernetesVersion) = Major(cluster.kubernetesVersion)
            /\ Minor(request.kubernetesVersion) >= Minor(cluster.kubernetesVersion)

CallsCluster(request) ==
    IF Accepts(request)
    THEN operation' = [by |-> "operator", request |-> request] /\ Waits
    ELSE Fails /\ UNCHANGED operation

\* The function whose turn it is to call GKE, if any.
Turn == FirstUpdate(pass.spec, pass.upstream)

\* The first of the nine functions that finds something to change calls GKE, and
\* that is the pass; the ninth reads the fingerprint of the labels first.
UpdateCluster ==
    /\ At("cluster")
    /\ IF UpdatePanics(pass.spec, pass.upstream) THEN Panics /\ UNCHANGED operation
       ELSE IF VersionRefused(pass.spec, pass.upstream) THEN Fails /\ UNCHANGED operation
       ELSE IF Turn = 0 THEN LooksAtPools /\ UNCHANGED operation
       ELSE IF Turn = 9
       THEN /\ pass' = [pass EXCEPT !.at = "labels", !.fingerprint = cluster.labels]
            /\ UNCHANGED << phase, due, operation >>
       ELSE CallsCluster(Updates(pass.spec, pass.upstream)[Turn])
    /\ UNCHANGED << spec, cluster, pools >>

\* A fingerprint that is out of date is a Retry, which waits as a change does.
SetLabels ==
    /\ At("labels")
    /\ IF pass.fingerprint # cluster.labels THEN Waits /\ UNCHANGED operation
       ELSE CallsCluster(UpdateLabels(pass.spec, pass.upstream))
    /\ UNCHANGED << spec, cluster, pools >>

\* A slip for the runs to catch: the error is passed over and the pass goes on.
ClusterCallIgnored ==
    /\ At("cluster")
    /\ ~UpdatePanics(pass.spec, pass.upstream)
    /\ Turn \in 1 .. 8
    /\ LooksAtPools
    /\ UNCHANGED << spec, gkeVars >>

\* A call that GKE refuses for reasons of its own: an error, or, for the add-ons,
\* a pool that must be recreated first, which is a Retry.
ClusterCallRefused ==
    /\ \/ At("labels") /\ Fails
       \/ /\ At("cluster")
          /\ ~UpdatePanics(pass.spec, pass.upstream)
          /\ \/ Turn \in 1 .. 8 /\ Fails
             \/ Turn = 3 /\ Waits
    /\ UNCHANGED << spec, gkeVars >>

-----------------------------------------------------------------------------
(* updateUpstreamClusterState: the node pools, in the order of a Go map *)

Visits(n) ==
    /\ At("pools")
    /\ n \in pass.todo
    /\ UNCHANGED << spec, cluster, operation >>

\* The pass goes on with the other pools; asked: it called GKE for pool n.
Passes(n, asked) ==
    /\ pass' = [pass EXCEPT !.todo = @ \ {n}, !.sent = @ \/ asked]
    /\ UNCHANGED << phase, due >>

\* GKE works on one thing at a time where pool n is concerned.
Free(n) == operation = NoOperation /\ (n \in Present => pools[n].status = "RUNNING")

\* A slip for the runs to catch: a Retry does not count as an update.
AskOfPoolForgettingRetry(n, after) ==
    /\ pools' = IF Free(n) THEN [pools EXCEPT ![n] = after] ELSE pools
    /\ Passes(n, Free(n))

\* GKE is asked to make pool n what after says.  Whether it does or something is
\* in the way (a Retry), the pass will not be the last.
AskOfPool(n, after) ==
    /\ pools' = IF Free(n) THEN [pools EXCEPT ![n] = after] ELSE pools
    /\ Passes(n, TRUE)

PoolRequest(n) == FirstPoolUpdate(Downstream[n], pass.pools[n])

\* A pool that is gone since the pass began is an error.
UpdatePool(n) ==
    /\ Visits(n)
    /\ n \in DOMAIN Downstream \cap DOMAIN pass.pools
    /\ IF PoolPanics(Downstream[n], pass.pools[n]) THEN Panics /\ UNCHANGED pools
       ELSE IF DOMAIN PoolRequest(n) = {} THEN Passes(n, FALSE) /\ UNCHANGED pools
       ELSE IF n \notin Present THEN Fails /\ UNCHANGED pools
       ELSE AskOfPool(n, Pool("RECONCILING", pools[n].settings, PoolRequest(n)))

\* What GKE fills in where a new pool says nothing.
Completed(settings) ==
    [settings EXCEPT !.version = IF @ = "" THEN cluster.kubernetesVersion ELSE @]

CreatePool(n) ==
    /\ Visits(n)
    /\ n \in DOMAIN Downstream \ DOMAIN pass.pools
    /\ IF validateNodePoolCreateRequest(Downstream[n], pass.spec) # Nil
       THEN Fails /\ UNCHANGED pools
       ELSE AskOfPool(n, Pool("PROVISIONING", Completed(newGKENodePoolFromConfig(Downstream[n])),
                              NoRequest))

\* Pools are removed when those of the spec have been seen to.  One that is gone
\* already is no change.
RemovePool(n) ==
    /\ Visits(n)
    /\ n \in DOMAIN pass.pools \ DOMAIN Downstream
    /\ pass.todo \cap DOMAIN Downstream = {}
    /\ IF n \notin Present THEN Passes(n, FALSE) /\ UNCHANGED pools
       ELSE AskOfPool(n, Pool("STOPPING", pools[n].settings, NoRequest))

PoolsDone ==
    /\ At("pools")
    /\ pass.todo = {}
    /\ IF pass.sent THEN Waits ELSE Settles
    /\ UNCHANGED << spec, gkeVars >>

\* The pass calls GKE for pool n.
Calls(n) ==
    IF n \notin DOMAIN Downstream THEN pass.todo \cap DOMAIN Downstream = {}
    ELSE IF n \notin DOMAIN pass.pools
    THEN validateNodePoolCreateRequest(Downstream[n], pass.spec) = Nil
    ELSE ~PoolPanics(Downstream[n], pass.pools[n]) /\ DOMAIN PoolRequest(n) # {}

\* A call that GKE refuses for reasons of its own: a Retry, after which the pass
\* goes on, or an error, which ends it with pools still to look at.
PoolCallRefused(n) ==
    /\ Visits(n)
    /\ Calls(n)
    /\ Passes(n, TRUE) \/ Fails
    /\ UNCHANGED pools

-----------------------------------------------------------------------------
(* Users, GKE and restarts *)

Edit ==
    /\ spec' \in Revisions
    /\ due' = TRUE
    /\ UNCHANGED << phase, gkeVars, pass >>

\* The operator stops; when it is back, every config is due.
Restart ==
    /\ pass' = Idle
    /\ due' = TRUE
    /\ UNCHANGED << spec, phase, gkeVars >>

OperationEnds(after) ==
    /\ operation # NoOperation
    /\ cluster' = after
    /\ operation' = NoOperation
    /\ UNCHANGED << configVars, pools, pass >>

OperationDone == OperationEnds(Applied(operation.request, cluster))

OperationFails == OperationEnds(cluster)

\* Pool n is what after says when GKE is through with it.
PoolEnds(n, after) ==
    /\ n \in Present
    /\ pools[n].status # "RUNNING"
    /\ pools' = [pools EXCEPT ![n] = after]
    /\ UNCHANGED << configVars, cluster, operation, pass >>

PoolDone(n) ==
    PoolEnds(n, IF pools[n].status = "STOPPING" THEN Absent
                ELSE Running(Applied(pools[n].request, pools[n].settings)))

\* A pool that could not be created is gone, any other is what it was.
PoolFails(n) ==
    PoolEnds(n, IF pools[n].status = "PROVISIONING" THEN Absent ELSE Running(pools[n].settings))

AutoUpgrade ==
    /\ operation = NoOperation
    /\ \E v \in Newer[cluster.kubernetesVersion] :
            operation' = [by |-> "GKE", request |-> [kubernetesVersion |-> v]]
    /\ UNCHANGED << configVars, cluster, pools, pass >>

\* GKE takes the nodes of a pool to the version of the control plane.
PoolAutoUpgrade(n) ==
    /\ n \in Present
    /\ Free(n)
    /\ pools[n].settings.management.autoUpgrade
    /\ cluster.kubernetesVersion \in Newer[pools[n].settings.version]
    /\ pools' = [pools EXCEPT ![n] = Pool("RECONCILING", @.settings,
                                          [version |-> cluster.kubernetesVersion])]
    /\ UNCHANGED << configVars, cluster, operation, pass >>

OthersLabel ==
    /\ operation = NoOperation
    /\ \E labels \in Others : cluster' = [cluster EXCEPT !.labels = labels]
    /\ UNCHANGED << configVars, operation, pools, pass >>

\* Another client removes a pool that the spec does not list, before the operator does.
OthersRemove(n) ==
    /\ n \in Present
    /\ Free(n)
    /\ ~LeavesPoolsAlone(spec)
    /\ n \notin Listed(spec)
    /\ pools' = [pools EXCEPT ![n] = Pool("STOPPING", @.settings, NoRequest)]
    /\ UNCHANGED << configVars, cluster, operation, pass >>

-----------------------------------------------------------------------------
Pass ==
    \/ CheckWaits
    \/ CheckUpdates
    \/ UpdateCluster
    \/ SetLabels
    \/ \E n \in PoolNames : UpdatePool(n) \/ CreatePool(n) \/ RemovePool(n)
    \/ PoolsDone

Disturbance ==
    \/ Edit
    \/ Restart
    \/ ClusterCallRefused
    \/ OperationFails
    \/ \E n \in PoolNames :
            PoolCallRefused(n) \/ PoolFails(n) \/ PoolAutoUpgrade(n) \/ OthersRemove(n)
    \/ AutoUpgrade
    \/ OthersLabel

Progress ==
    \/ Pass
    \/ OperationDone
    \/ \E n \in PoolNames : PoolDone(n)

Next == Progress \/ Disturbance

Spec == Init /\ [][Next]_vars

\* GKE ends what it began, a worker takes a key that is due and goes through with
\* the pass, and a process that ended is started again.
Fairness ==
    /\ WF_vars(Pass)
    /\ WF_vars(OperationDone)
    /\ \A n \in PoolNames : WF_vars(PoolDone(n))
    /\ WF_vars(At("panicked") /\ Restart)

FairSpec == Spec /\ Fairness

-----------------------------------------------------------------------------
(* What it is for a cluster to be as a spec asks, said without the code *)

\* The settings of cluster c that are not as spec s asks.
Lacking(s, c) ==
    LET met == [
        kubernetesVersion |->
            Given(s.kubernetesVersion) => c.kubernetesVersion = s.kubernetesVersion,
        releaseChannel |->
            s.releaseChannel \in SpecChannels =>
                c.releaseChannel = specToGKEReleaseChannel[s.releaseChannel],
        clusterAddons |->
            s.clusterAddons # Nil => \A a \in Addons : s.clusterAddons[a] <=> c[a] # FALSE,
        masterAuthorizedNetworks |->
            s.masterAuthorizedNetworks # Nil =>
                /\ s.masterAuthorizedNetworks.enabled <=> c.masterAuthorizedNetworks.enabled
                /\ s.masterAuthorizedNetworks.enabled =>
                        Range(s.masterAuthorizedNetworks.cidrBlocks)
                            \subseteq Range(c.masterAuthorizedNetworks.cidrBlocks),
        otherBlocks |->
            s.masterAuthorizedNetworks # Nil /\ s.masterAuthorizedNetworks.enabled =>
                Range(c.masterAuthorizedNetworks.cidrBlocks)
                    \subseteq Range(s.masterAuthorizedNetworks.cidrBlocks),
        services |->
            \A f \in {"loggingService", "monitoringService"} :
                s[f] # Nil => c[f] = ServiceMeant(s[f]),
        networkPolicyEnabled |->
            s.networkPolicyEnabled # Nil => (s.networkPolicyEnabled <=> c.networkPolicyEnabled),
        locations |->
            s.zone # "" => c.locations = IF s.locations = << >> THEN {s.zone} ELSE Range(s.locations),
        maintenanceWindow |->
            s.maintenanceWindow # Nil => c.maintenanceWindow = s.maintenanceWindow,
        labels |-> s.labels # Nil => c.labels = s.labels ]
    IN  { f \in DOMAIN met : ~met[f] }

\* The settings of a node pool that are not as pool np of a spec asks.
PoolLacking(np, settings) ==
    LET met == [
        version |-> Given(np.version) => settings.version = np.version,
        imageType |->
            np.config # Nil /\ np.config.imageType # "" => settings.imageType = np.config.imageType,
        initialNodeCount |->
            np.initialNodeCount # Nil => settings.initialNodeCount = np.initialNodeCount,
        autoscaling |->
            np.autoscaling # Nil =>
                \/ settings.autoscaling = np.autoscaling
                \/ ~np.autoscaling.enabled /\ ~Autoscaling(settings).enabled,
        management |-> np.management # Nil => settings.management = np.management,
        labels |-> LabelsAsked(np) # Nil => settings.labels = LabelsAsked(np) ]
    IN  { f \in DOMAIN met : ~met[f] }

\* A version of an older minor than another.
Older(v, w) == Major(v) < Major(w) \/ (Major(v) = Major(w) /\ Minor(v) < Minor(w))

\* What is not as spec s asks when GKE has cluster c and pools ps.  A pool that is
\* being created or removed does not serve any more than one that is not there.
OutOfSync(s, c, ps) ==
    LET there == { n \in PoolNames : ps[n] # Absent }
        serving == { n \in there : ps[n].status \in {"RUNNING", "RECONCILING"} }
        asked(n) == { np \in Range(s.nodePools) : np.name = n }
    IN  { <<f>> : f \in Lacking(s, c) }
        \cup IF LeavesPoolsAlone(s) THEN {}
             ELSE { <<n, "present">> : n \in Listed(s) \ serving }
                  \cup { <<n, "absent">> : n \in there \ Listed(s) }
                  \cup UNION { { <<n, f>> : f \in UNION { PoolLacking(np, ps[n].settings) :
                                                          np \in asked(n) } }
                               : n \in Listed(s) \cap serving }

\* What the update functions overlook: lists of blocks are compared by their length,
\* so that a block listed twice hides another one of the cluster, and the image of a
\* pool is passed over where the spec gives the pool no version.
ClusterOverlooked(s) ==
    { f \in {"otherBlocks"} : /\ s.masterAuthorizedNetworks # Nil
                              /\ ~IsInjective(s.masterAuthorizedNetworks.cidrBlocks) }

PoolOverlooked(np) == { f \in {"imageType"} : np.version = Nil }

Overlooked(s) ==
    { <<f>> : f \in ClusterOverlooked(s) }
    \cup IF LeavesPoolsAlone(s) THEN {}
         ELSE UNION { { <<np.name, f>> : f \in PoolOverlooked(np) } : np \in Range(s.nodePools) }

\* What GKE and its other clients change without being asked.
Drifts == { <<"kubernetesVersion">>, <<"labels">> } \cup { <<n, "version">> : n \in PoolNames }

-----------------------------------------------------------------------------
(* What users write and GKE has *)

Versions == DOMAIN Release

NotOlder(v, w) == v \in Versions /\ w \in Versions /\ ~Older(v, w)

\* GKE upgrades to no older version.
ASSUME VersionsAssumption ==
    /\ \A v \in Versions : Major(v) \in Nat /\ Minor(v) \in Nat
    /\ \A v \in Versions : \A w \in Newer[v] : NotOlder(w, v)

\* A spec that names the version of a pool names one for the control plane, which
\* is not older; the pools that are there when a config becomes active, too.
ASSUME SpecsAssumption ==
    /\ \A s \in Revisions : ~LeavesPoolsAlone(s) =>
            \A np \in Range(s.nodePools) : Given(np.version) =>
                Given(s.kubernetesVersion) /\ NotOlder(s.kubernetesVersion, np.version)
    /\ \A c \in FirstClusters :
            /\ "kubernetesVersion" \in DOMAIN c
            /\ c.kubernetesVersion \in Versions
            /\ \A first \in FirstPools : \A n \in DOMAIN first :
                    /\ "version" \in DOMAIN first[n]
                    /\ NotOlder(c.kubernetesVersion, first[n].version)

ClusterFields ==
    {"kubernetesVersion", "releaseChannel", "masterAuthorizedNetworks", "loggingService",
     "monitoringService", "networkPolicyEnabled", "locations", "maintenanceWindow", "labels"}
        \cup Addons

PoolFields == {"version", "imageType", "labels", "initialNodeCount", "autoscaling", "management"}

\* Whether a cluster may have v in its field f: a cluster is somewhere.
Fits(f, v) ==
    /\ f \in Addons => v \in {Nil, TRUE, FALSE}
    /\ f = "networkPolicyEnabled" => v \in BOOLEAN
    /\ f = "masterAuthorizedNetworks" =>
            v.enabled \in BOOLEAN /\ v.cidrBlocks \in Seq(Range(v.cidrBlocks))
    /\ f = "locations" => v # {}

\* The types of types.go, and what GKE reports when the config becomes active.
ASSUME SettingsAssumption ==
    /\ Nil \notin BOOLEAN /\ Nil \notin SpecChannels
    /\ \A s \in Revisions :
            /\ s.clusterAddons # Nil => \A a \in Addons : s.clusterAddons[a] \in BOOLEAN
            /\ s.networkPolicyEnabled \in {Nil, TRUE, FALSE}
            /\ s.masterAuthorizedNetworks # Nil =>
                    Fits("masterAuthorizedNetworks", s.masterAuthorizedNetworks)
            /\ s.locations \in Seq(Range(s.locations))
            /\ s.nodePools # Nil => s.nodePools \in Seq(Range(s.nodePools))
    /\ \A c \in FirstClusters :
            ClusterFields \subseteq DOMAIN c /\ \A f \in ClusterFields : Fits(f, c[f])
    /\ \A first \in FirstPools : \A n \in DOMAIN first : DOMAIN first[n] = PoolFields

\* GKE refuses a network policy without its add-on, which the code leaves to it: a
\* spec asks for the policy only together with the add-on.
ASSUME PolicyAssumption ==
    /\ \A s \in Revisions : s.networkPolicyEnabled = TRUE =>
            s.clusterAddons # Nil /\ s.clusterAddons.networkPolicyConfig
    /\ \A c \in FirstClusters : c.networkPolicyEnabled => c.networkPolicyConfig # FALSE

-----------------------------------------------------------------------------
(* Properties *)

\* Types: every request, of the cluster or of a pool, is for settings it has.
TypeOK ==
    /\ spec \in Revisions
    /\ phase \in {"active", "updating"}
    /\ due \in BOOLEAN
    /\ operation.by \in {"nobody", "operator", "GKE"}
    /\ DOMAIN operation.request \subseteq DOMAIN cluster
    /\ DOMAIN pools = PoolNames
    /\ \A n \in Present :
            /\ pools[n].status \in {"PROVISIONING", "RUNNING", "RECONCILING", "STOPPING"}
            /\ DOMAIN pools[n].settings = PoolFields
            /\ DOMAIN pools[n].request \subseteq PoolFields
    /\ pass # Idle =>
            /\ pass.at \in {"cluster", "labels", "pools", "panicked"}
            /\ pass.spec \in Revisions
            /\ DOMAIN pass.pools \subseteq PoolNames

\* When nothing brings the config back to a worker, it is active, nothing that the
\* operator asked for is under way, and the cluster is as the spec asks but for
\* what GKE or its other clients changed since and the two things the comparisons
\* overlook.  This is what nodePoolsNeedUpdate, enqueueUpdate and the error returns
\* of updateUpstreamClusterState are for: a pass that ends quietly must have found
\* nothing to do anywhere.
QuietMeansInSync ==
    pass = Idle /\ ~due =>
        /\ phase = "active"
        /\ operation.by # "operator"
        /\ OutOfSync(spec, cluster, pools) \subseteq Drifts \cup Overlooked(spec)

R == INSTANCE Reconciliation
        WITH Drifting <- Drifts,
             lacking <- OutOfSync(spec, cluster, pools),
             overlooked <- Overlooked(spec),
             watched <- due \/ pass # Idle

\* For a spec that stays, the passes keep the promise of Reconciliation: no step
\* takes the cluster away from the spec, and none is done that nobody follows up.
ImplementsReconciliation == R!Spec

\* No node pool runs, or is on its way to, a newer minor version than the control
\* plane: "This must occur before the Kubernetes version is changed on the nodes"
\* (update.go), whatever fails, is edited or is upgraded by GKE in between.
NodesFollowControlPlane ==
    \A n \in Present :
        /\ ~Older(cluster.kubernetesVersion, pools[n].settings.version)
        /\ "version" \in DOMAIN pools[n].request =>
                ~Older(cluster.kubernetesVersion, pools[n].request.version)

\* A pool that every revision lists is never removed, not even for a revision
\* that lists a name twice: then buildNodePoolMap fails and the pass with it.
KeepsListedPools ==
    \A n \in Present :
        (\A s \in Revisions : ~LeavesPoolsAlone(s) => n \in Listed(s)) =>
            pools[n].status # "STOPPING"

\* The network policy is never on without its add-on, also not while the two are
\* switched on or off together: UpdateClusterAddons comes before, and waits for,
\* UpdateNetworkPolicyEnabled.
PolicyHasItsAddon ==
    cluster.networkPolicyEnabled => cluster.networkPolicyConfig # FALSE

\* A spec no update function trips over.
Complete(s) ==
    /\ s.clusterAddons # Nil => s.networkPolicyEnabled # Nil
    /\ ~LeavesPoolsAlone(s) => \A np \in Range(s.nodePools) : np.config # Nil

\* The update functions dereference a nil pointer only for a spec that gives
\* add-ons without a network policy or a pool without a config.
PanicsOnlyOnIncomplete == At("panicked") => ~Complete(pass.spec)

\* Once users, failures and GKE's own upgrades come to an end, the config becomes
\* active with its cluster as the spec asks.
Converges ==
    <>[][Progress]_vars => <>[](phase = "active" /\ OutOfSync(spec, cluster, pools) = {})

-----------------------------------------------------------------------------
(* What comments and tests of the repository say, which the passes do not keep *)

\* The operator asks for no channel but one that a spec names: it is "honored as-is"
\* (create.go), an unknown one is rejected "instead of silently falling back to
\* REGULAR" (create_test.go), and one nobody asked for was derived from the version
\* when the cluster was created and stays.
AsksForNamedChannels ==
    operation.by = "operator" /\ "releaseChannel" \in DOMAIN operation.request =>
        \E s \in Revisions :
            /\ s.releaseChannel \in SpecChannels
            /\ operation.request.releaseChannel = specToGKEReleaseChannel[s.releaseChannel]
=====================
