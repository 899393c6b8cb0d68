--------------------------- MODULE UpstreamSyncProofs ---------------------------
(***************************************************************************)
(* For every set of specs, names, versions and node pools, and however     *)
(* edits, refusals, upgrades by GKE and restarts interleave with a pass:   *)
(* nodes never get ahead of their control plane, a pool that every spec    *)
(* lists is never removed, only an incomplete spec makes a pass panic,     *)
(* every request is for settings that there are, and the network policy is *)
(* never on without its add-on.                                            *)
(***************************************************************************)
EXTENDS UpstreamSync, NodePoolUpdatesProofs

-----------------------------------------------------------------------------
(* Versions *)

LEMMA NotOlderSelf ==
    ASSUME NEW v \in Versions
    PROVE  NotOlder(v, v)
BY VersionsAssumption DEF NotOlder, Older

LEMMA NotOlderTransitive ==
    ASSUME NEW u, NEW v, NEW w, NotOlder(u, v), NotOlder(v, w)
    PROVE  NotOlder(u, w)
BY VersionsAssumption DEF NotOlder, Older

-----------------------------------------------------------------------------
(* The passes *)

\* A pass that finds nothing to change in the cluster found the version it asks for.
LEMMA VersionReached ==
    ASSUME NEW s, NEW upstream, FirstUpdate(s, upstream) = 0, Given(s.kubernetesVersion)
    PROVE  s.kubernetesVersion = upstream.kubernetesVersion
<1>1. DOMAIN Updates(s, upstream)[1] = {}
  BY FirstOfUpdates
<1>2. Updates(s, upstream)[1] = UpdateMasterKubernetesVersion(s, upstream)
  BY DEF Updates
<1>3. QED
  BY <1>1, <1>2 DEF UpdateMasterKubernetesVersion, VersionDiffers

\* The names a spec lists are those of its node pool map.
LEMMA ListedInMap ==
    ASSUME NEW s, ~Duplicates(s.nodePools)
    PROVE  DOMAIN buildNodePoolMap(s.nodePools) = Listed(s)
<1>1. { np.name : np \in Range(s.nodePools) } = { s.nodePools[i].name : i \in DOMAIN s.nodePools }
  BY DEF Range
<1>2. QED
  BY <1>1, PoolMap DEF Listed

-----------------------------------------------------------------------------
(* The invariant *)

ListedByAll(n) == \A s \in Revisions : ~LeavesPoolsAlone(s) => n \in Listed(s)

\* No operation takes the control plane to an older version.
ClusterInv ==
    /\ "kubernetesVersion" \in DOMAIN cluster
    /\ cluster.kubernetesVersion \in Versions
    /\ "kubernetesVersion" \in DOMAIN operation.request =>
            NotOlder(operation.request.kubernetesVersion, cluster.kubernetesVersion)

PoolInv(n) ==
    /\ "version" \in DOMAIN pools[n].settings
    /\ NotOlder(cluster.kubernetesVersion, pools[n].settings.version)
    /\ "version" \in DOMAIN pools[n].request =>
            NotOlder(cluster.kubernetesVersion, pools[n].request.version)
    /\ ListedByAll(n) => pools[n].status # "STOPPING"

\* What the pass found in the cluster is not newer than the cluster; when it comes
\* to the pools, the control plane has the version that the spec asks for.
PassInv ==
    /\ pass = [at |-> pass.at, spec |-> pass.spec, upstream |-> pass.upstream,
               pools |-> pass.pools, fingerprint |-> pass.fingerprint, todo |-> pass.todo,
               sent |-> pass.sent]
    /\ pass.spec \in Revisions
    /\ NotOlder(cluster.kubernetesVersion, pass.upstream.kubernetesVersion)
    /\ pass.at \in {"cluster", "labels", "pools", "panicked"}
    /\ pass.at = "pools" =>
            /\ ~LeavesPoolsAlone(pass.spec)
            /\ ~Duplicates(pass.spec.nodePools)
            /\ Given(pass.spec.kubernetesVersion) =>
                    pass.spec.kubernetesVersion = pass.upstream.kubernetesVersion
    /\ pass.at = "panicked" => ~Complete(pass.spec)

Inv ==
    /\ spec \in Revisions
    /\ ClusterInv
    /\ DOMAIN pools = PoolNames
    /\ \A n \in Present : PoolInv(n)
    /\ pass # Idle => PassInv

LEMMA InvInit == Init => Inv
<1> SUFFICES ASSUME Init PROVE Inv
  OBVIOUS
<1>1. ClusterInv
  BY SpecsAssumption DEF Init, ClusterInv, NoOperation, NoRequest
<1>2. PICK first \in FirstPools :
        pools = [n \in PoolNames |-> IF n \in DOMAIN first THEN Running(first[n]) ELSE Absent]
  BY DEF Init
<1>3. ASSUME NEW n \in Present PROVE PoolInv(n)
  <2>1. n \in DOMAIN first /\ pools[n] = Running(first[n])
    BY <1>2, <1>3 DEF Present, Absent, Running, Pool
  <2>2. QED
    BY <2>1, SpecsAssumption DEF Init, PoolInv, Running, Pool, NoRequest
<1>4. QED
  BY <1>1, <1>2, <1>3 DEF Init, Inv

-----------------------------------------------------------------------------
(* Steps of a pass that leave GKE alone *)

\* A pass that ends, and whatever happens to the phase and the queue.
LEMMA PassOver ==
    ASSUME Inv, pass' = Idle, spec' = spec, UNCHANGED gkeVars
    PROVE  Inv'
BY DEF Inv, ClusterInv, PoolInv, Present, gkeVars

\* A pass that comes to the pools.
LEMMA ComesToPools ==
    ASSUME Inv, At("cluster"), Turn = 0, LooksAtPools, spec' = spec, UNCHANGED gkeVars
    PROVE  Inv'
<1>1. CASE pass.spec.nodePools = Nil \/ pass.spec.autopilot
  BY <1>1, PassOver DEF LooksAtPools, LeavesPoolsAlone, Settles
<1>2. CASE ~(pass.spec.nodePools = Nil \/ pass.spec.autopilot) /\ Duplicates(pass.spec.nodePools)
  BY <1>2, PassOver DEF LooksAtPools, LeavesPoolsAlone, Fails
<1>3. CASE ~(pass.spec.nodePools = Nil \/ pass.spec.autopilot) /\ ~Duplicates(pass.spec.nodePools)
  <2>1. pass' = [pass EXCEPT !.at = "pools", !.todo = DOMAIN Downstream \cup DOMAIN pass.pools]
    BY <1>3 DEF LooksAtPools, LeavesPoolsAlone
  <2>2. Given(pass.spec.kubernetesVersion) =>
            pass.spec.kubernetesVersion = pass.upstream.kubernetesVersion
    BY VersionReached DEF Turn
  <2>3. PassInv /\ pass.at = "cluster"
    BY DEF Inv, At
  <2>4. /\ pass' = [at |-> "pools", spec |-> pass.spec, upstream |-> pass.upstream,
                    pools |-> pass.pools, fingerprint |-> pass.fingerprint,
                    todo |-> DOMAIN Downstream \cup DOMAIN pass.pools, sent |-> pass.sent]
    BY <2>1, <2>3 DEF PassInv
  <2>5. PassInv'
    BY <1>3, <2>2, <2>3, <2>4 DEF PassInv, LeavesPoolsAlone, Present, gkeVars
  <2>6. QED
    BY <2>5 DEF Inv, ClusterInv, PoolInv, Present, gkeVars
<1>4. QED
  BY <1>1, <1>2, <1>3

\* A pass that panics on a spec that is not complete.
LEMMA PassPanics ==
    ASSUME Inv, pass # Idle, Panics, ~Complete(pass.spec), spec' = spec, UNCHANGED gkeVars
    PROVE  Inv'
<1>1. PassInv
  BY DEF Inv
<1>2. pass' = [at |-> "panicked", spec |-> pass.spec, upstream |-> pass.upstream,
               pools |-> pass.pools, fingerprint |-> pass.fingerprint, todo |-> pass.todo,
               sent |-> pass.sent]
  BY <1>1 DEF Panics, GoesTo, PassInv
<1>3. PassInv'
  BY <1>1, <1>2 DEF PassInv, gkeVars
<1>4. QED
  BY <1>3 DEF Inv, ClusterInv, PoolInv, Present, gkeVars

-----------------------------------------------------------------------------
(* Steps that ask something of the cluster *)

\* GKE takes a request for a version only if it is not older.
LEMMA ClusterAsked ==
    ASSUME Inv, NEW request, CallsCluster(request), spec' = spec, UNCHANGED << cluster, pools >>
    PROVE  Inv'
<1>1. pass' = Idle
  BY DEF CallsCluster, Waits, Fails
<1>2. ClusterInv'
  <2>1. CASE Accepts(request)
    <3>1. operation' = [by |-> "operator", request |-> request]
      BY <2>1 DEF CallsCluster
    <3>2. "kubernetesVersion" \in DOMAIN request =>
            NotOlder(request.kubernetesVersion, cluster.kubernetesVersion)
      BY <2>1, VersionsAssumption DEF Accepts, NotOlder, Older, Versions, Inv, ClusterInv
    <3>3. QED
      BY <3>1, <3>2 DEF Inv, ClusterInv
  <2>2. CASE ~Accepts(request)
    BY <2>2 DEF CallsCluster, Inv, ClusterInv
  <2>3. QED
    BY <2>1, <2>2
<1>3. QED
  BY <1>1, <1>2 DEF Inv, PoolInv, Present

LEMMA InvUpdateCluster == Inv /\ UpdateCluster => Inv'
<1> SUFFICES ASSUME Inv, UpdateCluster PROVE Inv'
  OBVIOUS
<1>1. At("cluster") /\ spec' = spec /\ UNCHANGED << cluster, pools >> /\ PassInv
  BY DEF UpdateCluster, Inv, At
<1>2. CASE UpdatePanics(pass.spec, pass.upstream)
  <2>1. ~Complete(pass.spec)
    BY <1>2 DEF UpdatePanics, AddonsDereferenceNil, Complete
  <2>2. Panics /\ UNCHANGED gkeVars
    BY <1>1, <1>2 DEF UpdateCluster, gkeVars
  <2>3. QED
    BY <1>1, <2>1, <2>2, PassPanics DEF At
<1>3. CASE ~UpdatePanics(pass.spec, pass.upstream) /\ VersionRefused(pass.spec, pass.upstream)
  BY <1>1, <1>3, PassOver DEF UpdateCluster, Fails, gkeVars
<1>4. CASE ~UpdatePanics(pass.spec, pass.upstream) /\ ~VersionRefused(pass.spec, pass.upstream)
  <2>1. CASE Turn = 0
    <3>1. LooksAtPools /\ UNCHANGED gkeVars
      BY <1>1, <1>4, <2>1 DEF UpdateCluster, gkeVars
    <3>2. QED
      BY <1>1, <2>1, <3>1, ComesToPools
  <2>2. CASE Turn = 9
    <3>1. pass' = [pass EXCEPT !.at = "labels", !.fingerprint = cluster.labels]
          /\ operation' = operation
      BY <1>4, <2>2 DEF UpdateCluster
    <3>2. pass' = [at |-> "labels", spec |-> pass.spec, upstream |-> pass.upstream,
                   pools |-> pass.pools, fingerprint |-> cluster.labels, todo |-> pass.todo,
                   sent |-> pass.sent]
      BY <1>1, <3>1 DEF PassInv
    <3>3. PassInv'
      BY <1>1, <3>1, <3>2 DEF PassInv, Present, At
    <3>4. QED
      BY <1>1, <3>1, <3>3 DEF Inv, ClusterInv, PoolInv, Present
  <2>3. CASE Turn # 0 /\ Turn # 9
    <3>1. CallsCluster(Updates(pass.spec, pass.upstream)[Turn])
      BY <1>4, <2>3 DEF UpdateCluster
    <3>2. QED
      BY <1>1, <3>1, ClusterAsked
  <2>4. QED
    BY <2>1, <2>2, <2>3
<1>5. QED
  BY <1>2, <1>3, <1>4

LEMMA InvSetLabels == Inv /\ SetLabels => Inv'
<1> SUFFICES ASSUME Inv, SetLabels PROVE Inv'
  OBVIOUS
<1>1. CASE pass.fingerprint # cluster.labels
  BY <1>1, PassOver DEF SetLabels, Waits, gkeVars
<1>2. CASE pass.fingerprint = cluster.labels
  BY <1>2, ClusterAsked DEF SetLabels
<1>3. QED
  BY <1>1, <1>2
-----------------------------------------------------------------------------
(* Steps that ask something of a pool *)

\* A pass that goes on with the other pools.
LEMMA PassGoesOn ==
    ASSUME Inv, NEW n \in PoolNames, NEW asked, Visits(n), Passes(n, asked)
    PROVE  PassInv'
<1>1. PassInv /\ pass.at = "pools"
  BY DEF Inv, Visits, At
<1>2. pass' = [at |-> "pools", spec |-> pass.spec, upstream |-> pass.upstream,
               pools |-> pass.pools, fingerprint |-> pass.fingerprint, todo |-> pass.todo \ {n},
               sent |-> pass.sent \/ asked]
  BY <1>1 DEF Passes, PassInv
<1>3. QED
  BY <1>1, <1>2 DEF PassInv, Visits

\* A pool that is asked to become another.
LEMMA PoolAsked ==
    ASSUME Inv, NEW n \in PoolNames, NEW after, Visits(n), AskOfPool(n, after),
           Free(n) => PoolInv(n)' \/ after = Absent
    PROVE  Inv'
<1>1. Passes(n, TRUE) /\ UNCHANGED << spec, cluster, operation >>
  BY DEF AskOfPool, Visits
<1>2. DOMAIN pools' = PoolNames /\ \A m \in PoolNames \ {n} : pools'[m] = pools[m]
  BY DEF AskOfPool, Inv
<1>3. PassInv'
  BY <1>1, PassGoesOn
<1>4. ASSUME NEW m \in Present' PROVE PoolInv(m)'
  <2>1. CASE m # n \/ ~Free(n)
    <3>1. pools'[m] = pools[m] /\ m \in Present
      BY <1>2, <1>4, <2>1 DEF AskOfPool, Present
    <3>2. QED
      BY <1>1, <3>1 DEF Inv, PoolInv
  <2>2. CASE m = n /\ Free(n)
    BY <1>4, <2>2 DEF AskOfPool, Present, Inv
  <2>3. QED
    BY <2>1, <2>2
<1>5. QED
  BY <1>1, <1>2, <1>3, <1>4 DEF Inv, ClusterInv

\* The version a pool may be asked for: that of the control plane is not older.
LEMMA PoolVersionAsked ==
    ASSUME Inv, NEW n, Visits(n), n \in DOMAIN Downstream, Given(Downstream[n].version)
    PROVE  NotOlder(cluster.kubernetesVersion, Downstream[n].version)
<1>1. PassInv /\ pass.at = "pools"
  BY DEF Inv, Visits, At
<1>2. Downstream[n] \in Range(pass.spec.nodePools)
  BY <1>1, PoolMap DEF PassInv, Downstream
<1>3. /\ Given(pass.spec.kubernetesVersion)
      /\ NotOlder(pass.spec.kubernetesVersion, Downstream[n].version)
  BY <1>1, <1>2, SpecsAssumption DEF PassInv
<1>4. NotOlder(cluster.kubernetesVersion, pass.spec.kubernetesVersion)
  BY <1>1, <1>3 DEF PassInv
<1>5. QED
  BY <1>3, <1>4, NotOlderTransitive

LEMMA InvUpdatePool == ASSUME Inv, NEW n \in PoolNames, UpdatePool(n) PROVE Inv'
<1>1. Visits(n) /\ n \in DOMAIN Downstream /\ n \in DOMAIN pass.pools
  BY DEF UpdatePool
<1>2. PassInv /\ pass.at = "pools" /\ pass # Idle
  BY <1>1 DEF Inv, Visits, At
<1>3. CASE PoolPanics(Downstream[n], pass.pools[n])
  <2>1. Downstream[n] \in Range(pass.spec.nodePools) /\ Downstream[n].config = Nil
    BY <1>1, <1>2, <1>3, PoolMap DEF PassInv, Downstream, PoolPanics
  <2>2. ~Complete(pass.spec)
    BY <1>2, <2>1 DEF PassInv, Complete
  <2>3. Panics /\ spec' = spec /\ UNCHANGED gkeVars
    BY <1>1, <1>3 DEF UpdatePool, Visits, gkeVars
  <2>4. QED
    BY <1>2, <2>2, <2>3, PassPanics
<1>4. CASE ~PoolPanics(Downstream[n], pass.pools[n]) /\ DOMAIN PoolRequest(n) = {}
  <2>1. Passes(n, FALSE) /\ UNCHANGED << spec, cluster, operation, pools >>
    BY <1>1, <1>4 DEF UpdatePool, Visits
  <2>2. PassInv'
    BY <1>1, <2>1, PassGoesOn
  <2>3. QED
    BY <2>1, <2>2 DEF Inv, ClusterInv, PoolInv, Present
<1>5. CASE ~PoolPanics(Downstream[n], pass.pools[n]) /\ DOMAIN PoolRequest(n) # {} /\ n \in Present
  <2> DEFINE after == Pool("RECONCILING", pools[n].settings, PoolRequest(n))
  <2>1. AskOfPool(n, after)
    BY <1>5 DEF UpdatePool
  <2>2. PoolInv(n)
    BY <1>5 DEF Inv
  <2>3. "version" \in DOMAIN PoolRequest(n) =>
            NotOlder(cluster.kubernetesVersion, PoolRequest(n).version)
    BY <1>1, PoolVersionAsked, VersionAsked DEF PoolRequest
  <2>4. ASSUME Free(n) PROVE PoolInv(n)'
    <3>1. pools'[n] = after /\ cluster' = cluster
      BY <1>1, <2>1, <2>4 DEF AskOfPool, Inv, Visits
    <3>2. QED
      BY <2>2, <2>3, <3>1 DEF PoolInv, Pool
  <2>5. QED
    BY <1>1, <2>1, <2>4, PoolAsked
<1>6. CASE ~PoolPanics(Downstream[n], pass.pools[n]) /\ DOMAIN PoolRequest(n) # {} /\ n \notin Present
  BY <1>1, <1>6, PassOver DEF UpdatePool, Fails, Visits, gkeVars
<1>7. QED
  BY <1>3, <1>4, <1>5, <1>6

LEMMA InvCreatePool == ASSUME Inv, NEW n \in PoolNames, CreatePool(n) PROVE Inv'
<1>1. Visits(n) /\ n \in DOMAIN Downstream
  BY DEF CreatePool
<1>2. CASE validateNodePoolCreateRequest(Downstream[n], pass.spec) # Nil
  BY <1>1, <1>2, PassOver DEF CreatePool, Fails, Visits, gkeVars
<1>3. CASE validateNodePoolCreateRequest(Downstream[n], pass.spec) = Nil
  <2> DEFINE np == Downstream[n]
             settings == Completed(newGKENodePoolFromConfig(np))
  <2>1. AskOfPool(n, Pool("PROVISIONING", settings, NoRequest))
    BY <1>3 DEF CreatePool
  <2>2. np.version # Nil
    BY <1>3, PoolGiven DEF PoolRequestPanics
  <2>3. /\ "version" \in DOMAIN settings
        /\ settings.version = IF np.version = "" THEN cluster.kubernetesVersion ELSE np.version
    BY DEF Completed, newGKENodePoolFromConfig
  <2>4. NotOlder(cluster.kubernetesVersion, settings.version)
    <3>1. CASE np.version = ""
      BY <2>3, <3>1, NotOlderSelf DEF Inv, ClusterInv
    <3>2. CASE np.version # ""
      BY <1>1, <2>2, <2>3, <3>2, PoolVersionAsked DEF Given
    <3>3. QED
      BY <3>1, <3>2
  <2>5. ASSUME Free(n) PROVE PoolInv(n)'
    <3>1. pools'[n] = Pool("PROVISIONING", settings, NoRequest) /\ cluster' = cluster
      BY <1>1, <2>1, <2>5 DEF AskOfPool, Inv, Visits
    <3>2. /\ pools'[n].status = "PROVISIONING"
          /\ pools'[n].settings = settings
          /\ pools'[n].request = NoRequest
      BY <3>1 DEF Pool
    <3>3. "version" \notin DOMAIN NoRequest
      BY DEF NoRequest
    <3> HIDE DEF settings
    <3>4. QED
      BY <2>3, <2>4, <3>1, <3>2, <3>3 DEF PoolInv
  <2> HIDE DEF settings
  <2>6. QED
    BY <1>1, <2>1, <2>5, PoolAsked
<1>4. QED
  BY <1>2, <1>3

\* A pool is removed only for a spec that does not list it.
LEMMA InvRemovePool == ASSUME Inv, NEW n \in PoolNames, RemovePool(n) PROVE Inv'
<1> DEFINE after == Pool("STOPPING", pools[n].settings, NoRequest)
<1>1. Visits(n) /\ n \in DOMAIN pass.pools \ DOMAIN Downstream
  BY DEF RemovePool
<1>2. PassInv /\ pass.at = "pools"
  BY <1>1 DEF Inv, Visits, At
<1>3. CASE n \notin Present
  <2>1. Passes(n, FALSE) /\ UNCHANGED << spec, cluster, operation, pools >>
    BY <1>1, <1>3 DEF RemovePool, Visits
  <2>2. PassInv'
    BY <1>1, <2>1, PassGoesOn
  <2>3. QED
    BY <2>1, <2>2 DEF Inv, ClusterInv, PoolInv, Present
<1>4. CASE n \in Present
  <2>1. AskOfPool(n, after) /\ PoolInv(n)
    BY <1>4 DEF RemovePool, Inv
  <2>2. ~ListedByAll(n)
    BY <1>1, <1>2, ListedInMap DEF ListedByAll, Downstream, PassInv
  <2>3. ASSUME Free(n) PROVE PoolInv(n)'
    <3>1. pools'[n] = after /\ cluster' = cluster
      BY <1>1, <2>1, <2>3 DEF AskOfPool, Inv, Visits
    <3>2. QED
      BY <2>1, <2>2, <3>1 DEF PoolInv, Pool, NoRequest, ListedByAll
  <2>4. QED
    BY <1>1, <2>1, <2>3, PoolAsked
<1>5. QED
  BY <1>3, <1>4

LEMMA InvPoolCallRefused == ASSUME Inv, NEW n \in PoolNames, PoolCallRefused(n) PROVE Inv'
<1>1. Visits(n) /\ UNCHANGED << spec, cluster, operation, pools >>
  BY DEF PoolCallRefused, Visits
<1>2. CASE Passes(n, TRUE)
  <2>1. PassInv'
    BY <1>1, <1>2, PassGoesOn
  <2>2. QED
    BY <1>1, <2>1 DEF Inv, ClusterInv, PoolInv, Present
<1>3. CASE Fails
  BY <1>1, <1>3, PassOver DEF Fails, gkeVars
<1>4. QED
  BY <1>2, <1>3 DEF PoolCallRefused

\* Every step of a worker keeps the invariant.
LEMMA InvPass == Inv /\ Pass => Inv'
<1> SUFFICES ASSUME Inv, Pass PROVE Inv'
  OBVIOUS
<1>1. CASE CheckWaits
  BY <1>1 DEF CheckWaits, Inv, ClusterInv, PoolInv, Present, gkeVars
<1>2. CASE CheckUpdates
  <2>1. /\ pass' = [at |-> "cluster", spec |-> spec,
                    upstream |-> buildUpstreamClusterState(cluster), pools |-> UpstreamPools,
                    fingerprint |-> Nil, todo |-> {}, sent |-> FALSE]
        /\ UNCHANGED << spec, cluster, operation, pools >>
    BY <1>2 DEF CheckUpdates, gkeVars
  <2>2. NotOlder(cluster.kubernetesVersion, buildUpstreamClusterState(cluster).kubernetesVersion)
    BY NotOlderSelf DEF Inv, ClusterInv, buildUpstreamClusterState
  <2>3. PassInv'
    BY <2>1, <2>2 DEF Inv, PassInv
  <2>4. QED
    BY <2>1, <2>3 DEF Inv, ClusterInv, PoolInv, Present
<1>3. CASE PoolsDone
  BY <1>3, PassOver DEF PoolsDone, Waits, Settles, gkeVars
<1>4. QED
  BY <1>1, <1>2, <1>3, InvUpdateCluster, InvSetLabels, InvUpdatePool, InvCreatePool,
     InvRemovePool DEF Pass

-----------------------------------------------------------------------------
(* What users, GKE and restarts do *)

\* The cluster only ever gets newer.
LEMMA ClusterChanges ==
    ASSUME Inv, ClusterInv', NotOlder(cluster'.kubernetesVersion, cluster.kubernetesVersion),
           UNCHANGED << spec, pools, pass >>
    PROVE  Inv'
<1>1. ASSUME NEW n \in Present PROVE PoolInv(n)'
  BY NotOlderTransitive DEF Inv, PoolInv
<1>2. pass # Idle => PassInv'
  BY NotOlderTransitive DEF Inv, PassInv
<1>3. QED
  BY <1>1, <1>2 DEF Inv, Present

LEMMA PoolChanges ==
    ASSUME Inv, NEW n \in PoolNames, NEW after, pools' = [pools EXCEPT ![n] = after],
           PoolInv(n)' \/ after = Absent, UNCHANGED << spec, cluster, operation, pass >>
    PROVE  Inv'
<1>1. DOMAIN pools' = PoolNames /\ pools'[n] = after
      /\ \A m \in PoolNames \ {n} : pools'[m] = pools[m]
  BY DEF Inv, Present
<1>2. ASSUME NEW m \in Present' PROVE PoolInv(m)'
  BY <1>1, <1>2 DEF Inv, PoolInv, Present
<1>3. QED
  BY <1>1, <1>2 DEF Inv, ClusterInv, PassInv

LEMMA InvOperationEnds == Inv /\ (OperationDone \/ OperationFails) => Inv'
<1> SUFFICES ASSUME Inv, OperationDone \/ OperationFails PROVE Inv'
  OBVIOUS
<1>1. operation' = NoOperation /\ UNCHANGED << spec, pools, pass >>
  BY DEF OperationDone, OperationFails, OperationEnds, configVars
<1>2. /\ "kubernetesVersion" \in DOMAIN cluster'
      /\ NotOlder(cluster'.kubernetesVersion, cluster.kubernetesVersion)
  <2>1. CASE OperationDone
    BY <2>1, NotOlderSelf DEF OperationDone, OperationEnds, Applied, Inv, ClusterInv
  <2>2. CASE OperationFails
    BY <2>2, NotOlderSelf DEF OperationFails, OperationEnds, Inv, ClusterInv
  <2>3. QED
    BY <2>1, <2>2
<1>3. ClusterInv'
  BY <1>1, <1>2 DEF ClusterInv, NoOperation, NoRequest, NotOlder
<1>4. QED
  BY <1>1, <1>2, <1>3, ClusterChanges

LEMMA InvAutoUpgrade == Inv /\ AutoUpgrade => Inv'
<1> SUFFICES ASSUME Inv, AutoUpgrade PROVE Inv'
  OBVIOUS
<1>1. UNCHANGED << spec, cluster, pools, pass >>
  BY DEF AutoUpgrade, configVars
<1>2. PICK v \in Newer[cluster.kubernetesVersion] :
        operation' = [by |-> "GKE", request |-> [kubernetesVersion |-> v]]
  BY DEF AutoUpgrade
<1>3. NotOlder(v, cluster.kubernetesVersion)
  BY VersionsAssumption DEF Inv, ClusterInv
<1>4. ClusterInv'
  BY <1>1, <1>2, <1>3 DEF Inv, ClusterInv
<1>5. QED
  BY <1>1, <1>4, ClusterChanges, NotOlderSelf DEF Inv, ClusterInv

LEMMA InvOthersLabel == Inv /\ OthersLabel => Inv'
<1> SUFFICES ASSUME Inv, OthersLabel PROVE Inv'
  OBVIOUS
<1>1. UNCHANGED << spec, operation, pools, pass >>
  BY DEF OthersLabel, configVars
<1>2. /\ DOMAIN cluster' = DOMAIN cluster
      /\ cluster'.kubernetesVersion = cluster.kubernetesVersion
  BY DEF OthersLabel, Inv, ClusterInv
<1>3. QED
  BY <1>1, <1>2, ClusterChanges, NotOlderSelf DEF Inv, ClusterInv

LEMMA InvPoolEnds == ASSUME Inv, NEW n \in PoolNames, PoolDone(n) \/ PoolFails(n) PROVE Inv'
<1> DEFINE done == IF pools[n].status = "STOPPING" THEN Absent
                   ELSE Running(Applied(pools[n].request, pools[n].settings))
           failed == IF pools[n].status = "PROVISIONING" THEN Absent ELSE Running(pools[n].settings)
<1>1. /\ n \in Present /\ PoolInv(n) /\ n \in DOMAIN pools
      /\ UNCHANGED << spec, cluster, operation, pass >>
  BY DEF PoolDone, PoolFails, PoolEnds, configVars, Inv, Present
<1>2. ASSUME NEW settings, pools' = [pools EXCEPT ![n] = Running(settings)],
             "version" \in DOMAIN settings,
             NotOlder(cluster.kubernetesVersion, settings.version)
      PROVE  Inv'
  <2>1. pools'[n].status = "RUNNING" /\ pools'[n].settings = settings
        /\ pools'[n].request = NoRequest
    BY <1>1, <1>2 DEF Running, Pool
  <2>2. "version" \notin DOMAIN NoRequest
    BY DEF NoRequest
  <2>3. PoolInv(n)'
    BY <1>1, <1>2, <2>1, <2>2 DEF PoolInv
  <2>4. QED
    BY <1>1, <1>2, <2>3, PoolChanges
<1>3. ASSUME NEW after, pools' = [pools EXCEPT ![n] = after], after = Absent PROVE Inv'
  BY <1>1, <1>3, PoolChanges
<1>4. CASE PoolDone(n)
  <2>1. pools' = [pools EXCEPT ![n] = done]
    BY <1>4 DEF PoolDone, PoolEnds
  <2>2. QED
    BY <1>1, <1>2, <1>3, <2>1 DEF PoolInv, Applied
<1>5. CASE PoolFails(n)
  <2>1. pools' = [pools EXCEPT ![n] = failed]
    BY <1>5 DEF PoolFails, PoolEnds
  <2>2. QED
    BY <1>1, <1>2, <1>3, <2>1 DEF PoolInv
<1>6. QED
  BY <1>4, <1>5

LEMMA InvPoolAutoUpgrade == ASSUME Inv, NEW n \in PoolNames, PoolAutoUpgrade(n) PROVE Inv'
<1> DEFINE after == Pool("RECONCILING", pools[n].settings, [version |-> cluster.kubernetesVersion])
<1>1. /\ PoolInv(n) /\ n \in DOMAIN pools
      /\ UNCHANGED << spec, cluster, operation, pass >>
      /\ pools' = [pools EXCEPT ![n] = after]
  BY DEF PoolAutoUpgrade, Free, configVars, Inv, Present
<1>2. PoolInv(n)'
  BY <1>1, NotOlderSelf DEF Inv, ClusterInv, PoolInv, Pool
<1>3. QED
  BY <1>1, <1>2, PoolChanges

LEMMA InvOthersRemove == ASSUME Inv, NEW n \in PoolNames, OthersRemove(n) PROVE Inv'
<1> DEFINE after == Pool("STOPPING", pools[n].settings, NoRequest)
<1>1. /\ PoolInv(n) /\ n \in DOMAIN pools
      /\ UNCHANGED << spec, cluster, operation, pass >>
      /\ pools' = [pools EXCEPT ![n] = after]
  BY DEF OthersRemove, configVars, Inv, Present
<1>2. ~ListedByAll(n)
  BY DEF OthersRemove, ListedByAll, Inv
<1>3. PoolInv(n)'
  BY <1>1, <1>2 DEF PoolInv, Pool, NoRequest, ListedByAll
<1>4. QED
  BY <1>1, <1>3, PoolChanges

\* Every step keeps the invariant.
LEMMA InvNext == Inv /\ [Next]_vars => Inv'
<1> SUFFICES ASSUME Inv, [Next]_vars PROVE Inv'
  OBVIOUS
<1>1. CASE Pass
  BY <1>1, InvPass
<1>2. CASE Edit
  BY <1>2 DEF Edit, Inv, ClusterInv, PoolInv, PassInv, Present, gkeVars
<1>3. CASE Restart
  BY <1>3, PassOver DEF Restart
<1>4. CASE ClusterCallRefused
  BY <1>4, PassOver DEF ClusterCallRefused, Fails, Waits
<1>5. CASE \E n \in PoolNames : PoolCallRefused(n)
  BY <1>5, InvPoolCallRefused
<1>6. CASE OperationDone \/ OperationFails
  BY <1>6, InvOperationEnds
<1>7. CASE \E n \in PoolNames : PoolDone(n) \/ PoolFails(n)
  BY <1>7, InvPoolEnds
<1>8. CASE \E n \in PoolNames : PoolAutoUpgrade(n)
  BY <1>8, InvPoolAutoUpgrade
<1>9. CASE \E n \in PoolNames : OthersRemove(n)
  BY <1>9, InvOthersRemove
<1>10. CASE AutoUpgrade
  BY <1>10, InvAutoUpgrade
<1>11. CASE OthersLabel
  BY <1>11, InvOthersLabel
<1>12. CASE UNCHANGED vars
  BY <1>12 DEF vars, configVars, gkeVars, Inv, ClusterInv, PoolInv, PassInv, Present
<1>13. QED
  BY <1>1, <1>2, <1>3, <1>4, <1>5, <1>6, <1>7, <1>8, <1>9, <1>10, <1>11, <1>12
     DEF Next, Progress, Disturbance

-----------------------------------------------------------------------------
(* Nodes, listed pools and panics *)

\* In every reachable state, no node pool runs or is on its way to a newer minor
\* version than the control plane, for every choice of versions and of what GKE
\* upgrades to by itself: the order of the calls in updateUpstreamClusterState and
\* its return after each of them are enough.
THEOREM NodesFollow == Spec => []NodesFollowControlPlane
<1>1. Inv => NodesFollowControlPlane
  BY DEF Inv, PoolInv, NotOlder, NodesFollowControlPlane
<1>2. QED
  BY <1>1, InvInit, InvNext, PTL DEF Spec

\* A node pool that every spec lists is never on its way out: neither a spec that
\* lists a name twice nor an edit in the middle of a pass makes
\* updateUpstreamClusterState remove it.
THEOREM ListedPoolsStay == Spec => []KeepsListedPools
<1>1. Inv => KeepsListedPools
  BY DEF Inv, PoolInv, ListedByAll, KeepsListedPools
<1>2. QED
  BY <1>1, InvInit, InvNext, PTL DEF Spec

\* The update functions dereference a nil pointer for no other specs than those
\* that give add-ons without a network policy, or a pool without a config.
THEOREM CompleteSpecsAreSafe == Spec => []PanicsOnlyOnIncomplete
<1>1. Inv => PanicsOnlyOnIncomplete
  BY DEF Inv, PassInv, At, PanicsOnlyOnIncomplete
<1>2. QED
  BY <1>1, InvInit, InvNext, PTL DEF Spec

-----------------------------------------------------------------------------
(* What is asked of the cluster: the invariant *)

\* What a pass reads of the cluster and only the operator changes.
ReadFields ==
    {"releaseChannel", "clusterAddons", "masterAuthorizedNetworks", "loggingService",
     "monitoringService", "networkPolicyEnabled", "locations", "maintenanceWindow"}

\* What the operator asked of the cluster is awaited by nobody but its config, and
\* GKE upgrades the control plane and does nothing else by itself.
OperationInv ==
    /\ operation.by \in {"nobody", "operator", "GKE"}
    /\ operation.by # "operator" => DOMAIN operation.request \subseteq {"kubernetesVersion"}
    /\ operation.by = "operator" => due /\ pass = Idle

RequestFits(request) ==
    /\ DOMAIN request \subseteq ClusterFields
    /\ \A f \in DOMAIN request : Fits(f, request[f])

ClusterFits ==
    /\ ClusterFields \subseteq DOMAIN cluster
    /\ \A f \in ClusterFields : Fits(f, cluster[f])
    /\ RequestFits(operation.request)

\* What a pass read holds as long as it runs.
ReadInv ==
    pass # Idle =>
        \A f \in ReadFields : pass.upstream[f] = buildUpstreamClusterState(cluster)[f]

\* A request takes the add-on away only while the policy is off, and turns the
\* policy on only while the add-on is.
KeepsPolicy(request) ==
    /\ "networkPolicyConfig" \in DOMAIN request => "networkPolicyEnabled" \notin DOMAIN request
    /\ "networkPolicyConfig" \in DOMAIN request /\ request.networkPolicyConfig = FALSE =>
            cluster.networkPolicyEnabled # TRUE
    /\ "networkPolicyEnabled" \in DOMAIN request /\ request.networkPolicyEnabled = TRUE =>
            cluster.networkPolicyConfig # FALSE

PolicyInv ==
    /\ cluster.networkPolicyEnabled = TRUE => cluster.networkPolicyConfig # FALSE
    /\ KeepsPolicy(operation.request)

RequestInv == OperationInv /\ ClusterFits /\ ReadInv /\ PolicyInv

-----------------------------------------------------------------------------
(* Requests for the cluster *)

\* The nine requests, one at a time.
LEMMA UpdatesAre ==
    ASSUME NEW s, NEW upstream
    PROVE  LET updates == Updates(s, upstream)
           IN  /\ updates[1] = UpdateMasterKubernetesVersion(s, upstream)
               /\ updates[2] = UpdateReleaseChannel(s, upstream)
               /\ updates[3] = UpdateClusterAddons(s, upstream)
               /\ updates[4] = UpdateMasterAuthorizedNetworks(s, upstream)
               /\ updates[5] = UpdateLoggingMonitoringService(s, upstream)
               /\ updates[6] = UpdateNetworkPolicyEnabled(s, upstream)
               /\ updates[7] = UpdateLocations(s, upstream)
               /\ updates[8] = UpdateMaintenanceWindow(s, upstream)
               /\ updates[9] = UpdateLabels(s, upstream)
BY DEF Updates

LEMMA NoRequestFits == RequestFits(NoRequest)
BY DEF RequestFits, NoRequest

\* Every request is for settings that clusters have, and for values they may have.
LEMMA UpdatesFit ==
    ASSUME NEW s \in Revisions, NEW upstream, upstream.locations # {}, NEW i \in 1 .. 9
    PROVE  RequestFits(Updates(s, upstream)[i])
<1>1. RequestFits(UpdateMasterKubernetesVersion(s, upstream))
  BY NoRequestFits DEF UpdateMasterKubernetesVersion, RequestFits, ClusterFields, Fits, Addons
<1>2. RequestFits(UpdateReleaseChannel(s, upstream))
  BY NoRequestFits DEF UpdateReleaseChannel, RequestFits, ClusterFields, Fits, Addons
<1>3. RequestFits(UpdateClusterAddons(s, upstream))
  BY NoRequestFits, SettingsAssumption
     DEF UpdateClusterAddons, RequestFits, ClusterFields, Fits, Addons
<1>4. RequestFits(UpdateMasterAuthorizedNetworks(s, upstream))
  <2> DEFINE want == s.masterAuthorizedNetworks
             off == [enabled |-> want.enabled, cidrBlocks |-> << >>]
  <2>1. << >> \in Seq(Range(<< >>))
    OBVIOUS
  <2>2. want # Nil => Fits("masterAuthorizedNetworks", want)
    BY SettingsAssumption
  <2>3. want # Nil => Fits("masterAuthorizedNetworks", off)
    BY <2>1, <2>2 DEF Fits, Addons
  <2>4. ASSUME NEW v, Fits("masterAuthorizedNetworks", v)
        PROVE  RequestFits([masterAuthorizedNetworks |-> v])
    <3>1. "masterAuthorizedNetworks" \in ClusterFields
      BY DEF ClusterFields
    <3>2. QED
      BY <2>4, <3>1 DEF RequestFits
  <2>5. \/ UpdateMasterAuthorizedNetworks(s, upstream) = NoRequest
        \/ want # Nil /\ UpdateMasterAuthorizedNetworks(s, upstream)
                            = [masterAuthorizedNetworks |-> want]
        \/ want # Nil /\ UpdateMasterAuthorizedNetworks(s, upstream)
                            = [masterAuthorizedNetworks |-> off]
    BY DEF UpdateMasterAuthorizedNetworks
  <2> HIDE DEF want, off
  <2>6. QED
    BY <2>2, <2>3, <2>4, <2>5, NoRequestFits
<1>5. RequestFits(UpdateLoggingMonitoringService(s, upstream))
  BY DEF UpdateLoggingMonitoringService, RequestFits, ClusterFields, Fits, Addons
<1>6. RequestFits(UpdateNetworkPolicyEnabled(s, upstream))
  <2>1. CASE s.networkPolicyEnabled \in {Nil, upstream.networkPolicyEnabled}
    BY <2>1, NoRequestFits DEF UpdateNetworkPolicyEnabled
  <2>2. CASE s.networkPolicyEnabled \notin {Nil, upstream.networkPolicyEnabled}
    <3>1. s.networkPolicyEnabled \in BOOLEAN
      BY <2>2, SettingsAssumption
    <3>2. UpdateNetworkPolicyEnabled(s, upstream)
            = [networkPolicyEnabled |-> s.networkPolicyEnabled]
      BY <2>2 DEF UpdateNetworkPolicyEnabled
    <3>3. "networkPolicyEnabled" \in ClusterFields
      BY DEF ClusterFields
    <3>4. Fits("networkPolicyEnabled", s.networkPolicyEnabled)
      BY <3>1 DEF Fits, Addons
    <3>5. QED
      BY <3>2, <3>3, <3>4 DEF RequestFits
  <2>3. QED
    BY <2>1, <2>2
<1>7. RequestFits(UpdateLocations(s, upstream))
  <2> DEFINE sent == IF s.locations = << >> THEN upstream.locations ELSE Range(s.locations)
  <2>1. UpdateLocations(s, upstream) \in {NoRequest, [locations |-> sent]}
    BY DEF UpdateLocations
  <2>2. ASSUME s.locations # << >> PROVE Range(s.locations) # {}
    <3>1. s.locations \in Seq(Range(s.locations))
      BY SettingsAssumption
    <3>2. Len(s.locations) \in Nat \ {0}
      BY <2>2, <3>1
    <3>3. 1 \in DOMAIN s.locations
      BY <3>1, <3>2
    <3>4. s.locations[1] \in Range(s.locations)
      BY <3>3 DEF Range
    <3>5. QED
      BY <3>4
  <2>3. "locations" \in ClusterFields /\ Fits("locations", sent)
    BY <2>2 DEF ClusterFields, Fits, Addons
  <2>4. RequestFits([locations |-> sent])
    BY <2>3 DEF RequestFits
  <2>5. QED
    BY <2>1, <2>4, NoRequestFits
<1>8. RequestFits(UpdateMaintenanceWindow(s, upstream))
  BY NoRequestFits DEF UpdateMaintenanceWindow, RequestFits, ClusterFields, Fits, Addons
<1>9. RequestFits(UpdateLabels(s, upstream))
  BY NoRequestFits DEF UpdateLabels, RequestFits, ClusterFields, Fits, Addons
<1>10. QED
  BY <1>1, <1>2, <1>3, <1>4, <1>5, <1>6, <1>7, <1>8, <1>9, UpdatesAre

-----------------------------------------------------------------------------
(* Requests for the network policy and its add-on *)

\* The requests of the other seven functions leave both alone.
LEMMA OtherUpdates ==
    ASSUME NEW s, NEW upstream, NEW i \in 1 .. 9, i # 3, i # 6
    PROVE  /\ "networkPolicyConfig" \notin DOMAIN Updates(s, upstream)[i]
           /\ "networkPolicyEnabled" \notin DOMAIN Updates(s, upstream)[i]
<1> DEFINE Leaves(request) == /\ "networkPolicyConfig" \notin DOMAIN request
                              /\ "networkPolicyEnabled" \notin DOMAIN request
<1>1. Leaves(NoRequest)
  BY DEF NoRequest
<1>2. Leaves(UpdateMasterKubernetesVersion(s, upstream))
  BY <1>1 DEF UpdateMasterKubernetesVersion
<1>3. Leaves(UpdateReleaseChannel(s, upstream))
  BY <1>1 DEF UpdateReleaseChannel
<1>4. Leaves(UpdateMasterAuthorizedNetworks(s, upstream))
  BY <1>1 DEF UpdateMasterAuthorizedNetworks
<1>5. Leaves(UpdateLoggingMonitoringService(s, upstream))
  BY DEF UpdateLoggingMonitoringService
<1>6. Leaves(UpdateLocations(s, upstream))
  BY <1>1 DEF UpdateLocations
<1>7. Leaves(UpdateMaintenanceWindow(s, upstream))
  BY <1>1 DEF UpdateMaintenanceWindow
<1>8. Leaves(UpdateLabels(s, upstream))
  BY <1>1 DEF UpdateLabels
<1> HIDE DEF Leaves
<1>9. Leaves(Updates(s, upstream)[i])
  BY <1>2, <1>3, <1>4, <1>5, <1>6, <1>7, <1>8, UpdatesAre
<1>10. QED
  BY <1>9 DEF Leaves

\* UpdateClusterAddons takes the add-on away only when it found the policy off.
LEMMA AddonsKeepPolicy ==
    ASSUME NEW s \in Revisions, NEW upstream, ~AddonsDereferenceNil(s, upstream),
           upstream.networkPolicyEnabled = cluster.networkPolicyEnabled
    PROVE  KeepsPolicy(UpdateClusterAddons(s, upstream))
<1> DEFINE request == UpdateClusterAddons(s, upstream)
<1>1. DOMAIN request \subseteq Addons
  BY DEF UpdateClusterAddons, NoRequest
<1>2. "networkPolicyEnabled" \notin DOMAIN request
  BY <1>1 DEF Addons
<1>3. ASSUME "networkPolicyConfig" \in DOMAIN request, request.networkPolicyConfig = FALSE
      PROVE  cluster.networkPolicyEnabled # TRUE
  <2>1. s.clusterAddons # Nil
    BY <1>3 DEF UpdateClusterAddons, NoRequest
  <2>2. /\ DiffersIn("networkPolicyConfig", s, upstream)
        /\ ~AddonWaits(s, upstream)
        /\ s.clusterAddons.networkPolicyConfig = FALSE
    BY <1>3, <2>1 DEF UpdateClusterAddons
  <2>3. s.networkPolicyEnabled # Nil
    BY <2>1, <2>2 DEF AddonsDereferenceNil
  <2>4. s.networkPolicyEnabled # TRUE
    BY <2>2, PolicyAssumption
  <2>5. s.networkPolicyEnabled = FALSE
    BY <2>3, <2>4, SettingsAssumption
  <2>6. QED
    BY <2>2, <2>5 DEF AddonWaits
<1> HIDE DEF request
<1>4. QED
  BY <1>2, <1>3 DEF KeepsPolicy, request

\* UpdateNetworkPolicyEnabled turns the policy on only when UpdateClusterAddons,
\* which comes before it, had nothing to change.
LEMMA EnablingKeepsPolicy ==
    ASSUME NEW s \in Revisions, NEW upstream, DOMAIN UpdateClusterAddons(s, upstream) = {},
           upstream.clusterAddons.networkPolicyConfig = (cluster.networkPolicyConfig \in {Nil, TRUE})
    PROVE  KeepsPolicy(UpdateNetworkPolicyEnabled(s, upstream))
<1> DEFINE request == UpdateNetworkPolicyEnabled(s, upstream)
<1>1. DOMAIN request \subseteq {"networkPolicyEnabled"}
  BY DEF UpdateNetworkPolicyEnabled, NoRequest
<1>2. ASSUME "networkPolicyEnabled" \in DOMAIN request, request.networkPolicyEnabled = TRUE
      PROVE  cluster.networkPolicyConfig # FALSE
  <2>1. s.networkPolicyEnabled = TRUE
    BY <1>2 DEF UpdateNetworkPolicyEnabled, NoRequest
  <2>2. s.clusterAddons # Nil /\ s.clusterAddons.networkPolicyConfig = TRUE
    BY <2>1, PolicyAssumption, SettingsAssumption DEF Addons
  <2>3. ~DiffersIn("networkPolicyConfig", s, upstream)
    <3>1. ~AddonWaits(s, upstream)
      BY <2>2 DEF AddonWaits
    <3>2. "networkPolicyConfig" \in Addons
      BY DEF Addons
    <3>3. DOMAIN UpdateClusterAddons(s, upstream)
            = { b \in Addons : /\ DiffersIn(b, s, upstream)
                               /\ b = "networkPolicyConfig" => ~AddonWaits(s, upstream) }
      BY <2>2 DEF UpdateClusterAddons
    <3>4. QED
      BY <3>1, <3>2, <3>3
  <2>4. cluster.networkPolicyConfig \in {Nil, TRUE}
    BY <2>2, <2>3 DEF DiffersIn
  <2>5. QED
    BY <2>4, SettingsAssumption
<1> HIDE DEF request
<1>3. QED
  BY <1>1, <1>2 DEF KeepsPolicy, request

-----------------------------------------------------------------------------
(* What is asked of the cluster: the steps *)

LEMMA RequestInit == Init => RequestInv
<1> SUFFICES ASSUME Init PROVE RequestInv
  OBVIOUS
<1>1. OperationInv
  BY DEF Init, OperationInv, NoOperation, NoRequest
<1>2. ClusterFits
  BY SettingsAssumption, NoRequestFits DEF Init, ClusterFits, NoOperation
<1>3. PolicyInv
  BY PolicyAssumption DEF Init, PolicyInv, KeepsPolicy, NoOperation, NoRequest
<1>4. QED
  BY <1>1, <1>2, <1>3 DEF Init, RequestInv, ReadInv

\* A pass that ends or goes on, and GKE is left alone.
LEMMA RequestsStay ==
    ASSUME RequestInv, UNCHANGED << cluster, operation >>,
           operation.by = "operator" => due' /\ pass' = Idle,
           pass' = Idle \/ (pass # Idle /\ pass'.upstream = pass.upstream)
    PROVE  RequestInv'
BY DEF RequestInv, OperationInv, ClusterFits, RequestFits, ReadInv, PolicyInv, KeepsPolicy

\* A call for something that fits the cluster.
LEMMA RequestCalled ==
    ASSUME RequestInv, NEW request, CallsCluster(request), UNCHANGED cluster,
           RequestFits(request), KeepsPolicy(request)
    PROVE  RequestInv'
<1>1. pass' = Idle /\ due'
  BY DEF CallsCluster, Waits, Fails
<1>2. CASE Accepts(request)
  <2>1. operation' = [by |-> "operator", request |-> request]
    BY <1>2 DEF CallsCluster
  <2>2. QED
    BY <1>1, <2>1 DEF RequestInv, OperationInv, ClusterFits, RequestFits, ReadInv, PolicyInv,
                      KeepsPolicy
<1>3. CASE ~Accepts(request)
  BY <1>1, <1>3, RequestsStay DEF CallsCluster
<1>4. QED
  BY <1>2, <1>3

\* What a pass read, field by field.
LEMMA HasRead ==
    ASSUME RequestInv, pass # Idle
    PROVE  /\ pass.upstream.networkPolicyEnabled = cluster.networkPolicyEnabled
           /\ pass.upstream.clusterAddons.networkPolicyConfig
                = (cluster.networkPolicyConfig \in {Nil, TRUE})
           /\ pass.upstream.locations = cluster.locations
           /\ cluster.locations # {}
<1>1. /\ pass.upstream.networkPolicyEnabled
            = buildUpstreamClusterState(cluster).networkPolicyEnabled
      /\ pass.upstream.clusterAddons = buildUpstreamClusterState(cluster).clusterAddons
      /\ pass.upstream.locations = buildUpstreamClusterState(cluster).locations
  BY DEF RequestInv, ReadInv, ReadFields
<1>2. cluster.locations # {}
  BY DEF RequestInv, ClusterFits, ClusterFields, Fits
<1>3. QED
  BY <1>1, <1>2 DEF buildUpstreamClusterState, Addons

\* Whatever function's turn it is, its request fits the cluster.
LEMMA TurnFits ==
    ASSUME Inv, RequestInv, pass # Idle, Turn \in 1 .. 9, ~UpdatePanics(pass.spec, pass.upstream)
    PROVE  /\ RequestFits(Updates(pass.spec, pass.upstream)[Turn])
           /\ KeepsPolicy(Updates(pass.spec, pass.upstream)[Turn])
<1> DEFINE updates == Updates(pass.spec, pass.upstream)
<1>1. pass.spec \in Revisions
  BY DEF Inv, PassInv
<1>2. RequestFits(updates[Turn])
  BY <1>1, HasRead, UpdatesFit
<1>3. KeepsPolicy(updates[Turn])
  <2>1. CASE Turn = 3
    <3>1. ~AddonsDereferenceNil(pass.spec, pass.upstream)
      BY <2>1 DEF UpdatePanics, Turn
    <3>2. KeepsPolicy(UpdateClusterAddons(pass.spec, pass.upstream))
      BY <1>1, <3>1, HasRead, AddonsKeepPolicy
    <3>3. QED
      BY <2>1, <3>2, UpdatesAre
  <2>2. CASE Turn = 6
    <3>1. DOMAIN updates[3] = {}
      BY <2>2, FirstOfUpdates DEF Turn
    <3>2. DOMAIN UpdateClusterAddons(pass.spec, pass.upstream) = {}
      BY <3>1, UpdatesAre
    <3>3. pass.upstream.clusterAddons.networkPolicyConfig
            = (cluster.networkPolicyConfig \in {Nil, TRUE})
      BY HasRead
    <3>4. KeepsPolicy(UpdateNetworkPolicyEnabled(pass.spec, pass.upstream))
      BY <1>1, <3>2, <3>3, EnablingKeepsPolicy, Zenon
    <3>5. QED
      BY <2>2, <3>4, UpdatesAre
  <2>3. CASE Turn # 3 /\ Turn # 6
    BY <2>3, OtherUpdates DEF KeepsPolicy
  <2>4. QED
    BY <2>1, <2>2, <2>3
<1>4. QED
  BY <1>2, <1>3

LEMMA RequestPass == Inv /\ RequestInv /\ Pass => RequestInv'
<1> SUFFICES ASSUME Inv, RequestInv, Pass PROVE RequestInv'
  OBVIOUS
<1>1. CASE CheckWaits
  BY <1>1 DEF CheckWaits, gkeVars, RequestInv, OperationInv, ClusterFits, RequestFits, ReadInv,
              PolicyInv, KeepsPolicy
<1>2. CASE CheckUpdates
  <2>1. /\ UNCHANGED << cluster, operation >>
        /\ operation = NoOperation
        /\ pass'.upstream = buildUpstreamClusterState(cluster)
    BY <1>2 DEF CheckUpdates, Busy, gkeVars
  <2>2. QED
    BY <2>1 DEF NoOperation, RequestInv, OperationInv, ClusterFits, RequestFits, ReadInv, PolicyInv,
                KeepsPolicy
<1>3. ASSUME pass # Idle, UNCHANGED << cluster, operation >>,
             pass' = Idle \/ pass'.upstream = pass.upstream
      PROVE  RequestInv'
  BY <1>3, RequestsStay DEF RequestInv, OperationInv
<1>4. pass # Idle => PassInv
  BY DEF Inv
<1>5. CASE UpdateCluster
  <2>1. pass # Idle /\ UNCHANGED cluster
    BY <1>5 DEF UpdateCluster, At
  <2>2. CASE UpdatePanics(pass.spec, pass.upstream)
    BY <1>3, <1>4, <1>5, <2>1, <2>2 DEF UpdateCluster, Panics, GoesTo, PassInv
  <2>3. CASE ~UpdatePanics(pass.spec, pass.upstream) /\ VersionRefused(pass.spec, pass.upstream)
    BY <1>3, <1>5, <2>1, <2>3 DEF UpdateCluster, Fails
  <2>4. CASE ~UpdatePanics(pass.spec, pass.upstream) /\ ~VersionRefused(pass.spec, pass.upstream)
    <3>1. CASE Turn = 0
      <4>1. LooksAtPools /\ UNCHANGED operation
        BY <1>5, <2>4, <3>1 DEF UpdateCluster
      <4>2. pass' = Idle \/ pass'.upstream = pass.upstream
        BY <1>4, <2>1, <4>1 DEF LooksAtPools, Settles, Fails, PassInv
      <4>3. QED
        BY <1>3, <2>1, <4>1, <4>2
    <3>2. CASE Turn = 9
      <4>1. /\ pass' = [pass EXCEPT !.at = "labels", !.fingerprint = cluster.labels]
            /\ UNCHANGED operation
        BY <1>5, <2>4, <3>2 DEF UpdateCluster
      <4>2. pass'.upstream = pass.upstream
        BY <1>4, <2>1, <4>1 DEF PassInv
      <4>3. QED
        BY <1>3, <2>1, <4>1, <4>2
    <3>3. CASE Turn # 0 /\ Turn # 9
      <4>1. CallsCluster(Updates(pass.spec, pass.upstream)[Turn])
        BY <1>5, <2>4, <3>3 DEF UpdateCluster
      <4>2. Turn \in 1 .. 9
        BY <3>3, FirstOfUpdates DEF Turn
      <4>3. QED
        BY <2>1, <2>4, <4>1, <4>2, TurnFits, RequestCalled
    <3>4. QED
      BY <3>1, <3>2, <3>3
  <2>5. QED
    BY <2>2, <2>3, <2>4
<1>6. CASE SetLabels
  <2>1. pass # Idle /\ UNCHANGED cluster
    BY <1>6 DEF SetLabels, At
  <2>2. CASE pass.fingerprint # cluster.labels
    BY <1>3, <1>6, <2>1, <2>2 DEF SetLabels, Waits
  <2>3. CASE pass.fingerprint = cluster.labels
    <3> DEFINE request == UpdateLabels(pass.spec, pass.upstream)
    <3>1. CallsCluster(request)
      BY <1>6, <2>3 DEF SetLabels
    <3>2. pass.spec \in Revisions
      BY <1>4, <2>1 DEF PassInv
    <3>3. RequestFits(request)
      BY <2>1, <3>2, HasRead, UpdatesFit, UpdatesAre
    <3>4. KeepsPolicy(request)
      BY DEF KeepsPolicy, UpdateLabels, NoRequest
    <3> HIDE DEF request
    <3>5. QED
      BY <2>1, <3>1, <3>3, <3>4, RequestCalled
  <2>4. QED
    BY <2>2, <2>3
<1>7. ASSUME NEW n \in PoolNames, UpdatePool(n) \/ CreatePool(n) \/ RemovePool(n)
      PROVE  RequestInv'
  <2>1. pass # Idle /\ UNCHANGED << cluster, operation >>
    BY <1>7 DEF UpdatePool, CreatePool, RemovePool, Visits, At
  <2>2. (\E asked \in BOOLEAN : Passes(n, asked)) \/ Fails \/ Panics
    BY <1>7 DEF UpdatePool, CreatePool, RemovePool, AskOfPool
  <2>3. pass' = Idle \/ pass'.upstream = pass.upstream
    BY <1>4, <2>1, <2>2 DEF Passes, Fails, Panics, GoesTo, PassInv
  <2>4. QED
    BY <1>3, <2>1, <2>3
<1>8. CASE PoolsDone
  BY <1>3, <1>8 DEF PoolsDone, Waits, Settles, At, gkeVars
<1>9. QED
  BY <1>1, <1>2, <1>5, <1>6, <1>7, <1>8 DEF Pass

\* The fields that the passes read do not change with the version or the labels.
LEMMA ReadStays ==
    ASSUME NEW c, NEW d,
           \A f \in ClusterFields \ {"kubernetesVersion", "labels"} : d[f] = c[f]
    PROVE  \A f \in ReadFields :
                buildUpstreamClusterState(d)[f] = buildUpstreamClusterState(c)[f]
<1>1. /\ d.releaseChannel = c.releaseChannel
      /\ \A a \in Addons : d[a] = c[a]
      /\ d.masterAuthorizedNetworks = c.masterAuthorizedNetworks
      /\ d.loggingService = c.loggingService
      /\ d.monitoringService = c.monitoringService
      /\ d.networkPolicyEnabled = c.networkPolicyEnabled
      /\ d.locations = c.locations
      /\ d.maintenanceWindow = c.maintenanceWindow
  BY DEF ClusterFields, Addons
<1>2. [a \in Addons |-> d[a] \in {Nil, TRUE}] = [a \in Addons |-> c[a] \in {Nil, TRUE}]
  BY <1>1
<1>3. ASSUME NEW f \in ReadFields
      PROVE  buildUpstreamClusterState(d)[f] = buildUpstreamClusterState(c)[f]
  <2>1. CASE f = "clusterAddons"
    BY <1>2, <2>1 DEF buildUpstreamClusterState
  <2>2. CASE f = "masterAuthorizedNetworks"
    BY <1>1, <2>2 DEF buildUpstreamClusterState
  <2>3. CASE f \notin {"clusterAddons", "masterAuthorizedNetworks"}
    BY <1>1, <2>3 DEF ReadFields, buildUpstreamClusterState
  <2>4. QED
    BY <2>1, <2>2, <2>3
<1>4. QED
  BY <1>3

\* A cluster after a request that fits it.
LEMMA AppliedFits ==
    ASSUME ClusterFits, NEW request, RequestFits(request), PolicyInv, KeepsPolicy(request),
           cluster' = Applied(request, cluster), operation' = NoOperation
    PROVE  ClusterFits' /\ PolicyInv'
<1>1. /\ DOMAIN cluster' = DOMAIN cluster
      /\ \A f \in DOMAIN cluster :
            cluster'[f] = IF f \in DOMAIN request THEN request[f] ELSE cluster[f]
  BY DEF Applied
<1>2. ClusterFits'
  BY <1>1, NoRequestFits DEF ClusterFits, RequestFits, NoOperation
<1>3. "networkPolicyEnabled" \in DOMAIN cluster /\ "networkPolicyConfig" \in DOMAIN cluster
  BY DEF ClusterFits, ClusterFields, Addons
<1>4. PolicyInv'
  BY <1>1, <1>3 DEF PolicyInv, KeepsPolicy, NoOperation, NoRequest
<1>5. QED
  BY <1>2, <1>4

LEMMA RequestNext == Inv /\ RequestInv /\ [Next]_vars => RequestInv'
<1> SUFFICES ASSUME Inv, RequestInv, [Next]_vars PROVE RequestInv'
  OBVIOUS
<1> USE DEF RequestInv
<1>1. ASSUME ClusterFits', PolicyInv', operation'.by # "operator", UNCHANGED pass,
             operation'.by \in {"nobody", "GKE"},
             DOMAIN operation'.request \subseteq {"kubernetesVersion"},
             pass # Idle => \A f \in ClusterFields \ {"kubernetesVersion", "labels"} :
                                cluster'[f] = cluster[f]
      PROVE  RequestInv'
  <2>1. OperationInv'
    BY <1>1 DEF OperationInv
  <2>2. ReadInv'
    BY <1>1, ReadStays DEF ReadInv
  <2>3. QED
    BY <1>1, <2>1, <2>2
<1>2. CASE Pass
  BY <1>2, RequestPass
<1>3. CASE Edit \/ UNCHANGED vars
  BY <1>3 DEF Edit, vars, configVars, gkeVars, OperationInv, ClusterFits, RequestFits, ReadInv,
              PolicyInv, KeepsPolicy
<1>4. CASE Restart
  BY <1>4, RequestsStay DEF Restart, gkeVars
<1>5. CASE ClusterCallRefused
  BY <1>5, RequestsStay DEF ClusterCallRefused, Fails, Waits, At, gkeVars, OperationInv
<1>6. ASSUME NEW n \in PoolNames, PoolCallRefused(n) PROVE RequestInv'
  <2>1. pass # Idle /\ UNCHANGED << cluster, operation >> /\ PassInv
    BY <1>6 DEF PoolCallRefused, Visits, At, Inv
  <2>2. pass' = Idle \/ pass'.upstream = pass.upstream
    BY <1>6, <2>1 DEF PoolCallRefused, Passes, Fails, PassInv
  <2>3. QED
    BY <2>1, <2>2, RequestsStay DEF OperationInv
<1>7. CASE OperationDone
  <2>1. /\ operation # NoOperation /\ operation' = NoOperation /\ UNCHANGED pass
        /\ cluster' = Applied(operation.request, cluster)
    BY <1>7 DEF OperationDone, OperationEnds
  <2>2. ClusterFits' /\ PolicyInv'
    BY <2>1, AppliedFits DEF ClusterFits, PolicyInv
  <2>3. pass # Idle => \A f \in ClusterFields \ {"kubernetesVersion", "labels"} :
                            cluster'[f] = cluster[f]
    BY <2>1 DEF OperationInv, ClusterFits, Applied
  <2>4. QED
    BY <1>1, <2>1, <2>2, <2>3 DEF NoOperation, NoRequest
<1>8. CASE OperationFails
  BY <1>8, NoRequestFits DEF OperationFails, OperationEnds, NoOperation, NoRequest, OperationInv,
     ClusterFits, RequestFits, ReadInv, PolicyInv, KeepsPolicy
<1>9. ASSUME NEW n \in PoolNames,
             PoolDone(n) \/ PoolFails(n) \/ PoolAutoUpgrade(n) \/ OthersRemove(n)
      PROVE  RequestInv'
  BY <1>9 DEF PoolDone, PoolFails, PoolEnds, PoolAutoUpgrade, OthersRemove, configVars, OperationInv,
     ClusterFits, RequestFits, ReadInv, PolicyInv, KeepsPolicy
<1>10. CASE AutoUpgrade
  <2>1. UNCHANGED << cluster, pass >>
    BY <1>10 DEF AutoUpgrade
  <2>2. PICK v : operation' = [by |-> "GKE", request |-> [kubernetesVersion |-> v]]
    BY <1>10 DEF AutoUpgrade
  <2>3. ClusterFits'
    BY <2>1, <2>2 DEF ClusterFits, RequestFits, ClusterFields, Fits, Addons
  <2>4. PolicyInv'
    BY <2>1, <2>2 DEF PolicyInv, KeepsPolicy
  <2>5. QED
    BY <1>1, <2>1, <2>2, <2>3, <2>4
<1>11. CASE OthersLabel
  <2>1. PICK labels \in Others : cluster' = [cluster EXCEPT !.labels = labels]
    BY <1>11 DEF OthersLabel
  <2>2. operation = NoOperation /\ UNCHANGED << operation, pass >>
    BY <1>11 DEF OthersLabel
  <2>3. \A f \in DOMAIN cluster \ {"labels"} : cluster'[f] = cluster[f]
    BY <2>1
  <2>4. ClusterFits'
    BY <2>1, <2>2, <2>3, NoRequestFits DEF ClusterFits, ClusterFields, Fits, Addons, NoOperation
  <2>5. PolicyInv'
    BY <2>2, <2>3 DEF PolicyInv, KeepsPolicy, ClusterFits, ClusterFields, Addons
  <2>6. QED
    BY <1>1, <2>2, <2>3, <2>4, <2>5 DEF ClusterFits, NoOperation, NoRequest
<1>12. QED
  BY <1>2, <1>3, <1>4, <1>5, <1>6, <1>7, <1>8, <1>9, <1>10, <1>11 DEF Next, Progress, Disturbance

-----------------------------------------------------------------------------
(* The network policy *)

\* Where no spec asks for the network policy without the add-on, the cluster never
\* has it without: UpdateClusterAddons comes before UpdateNetworkPolicyEnabled and
\* waits for it, and a pass acts on what the cluster still has, whatever is edited,
\* fails or restarts in between.
THEOREM PolicyKeepsAddon == Spec => []PolicyHasItsAddon
<1>1. Inv /\ RequestInv => PolicyHasItsAddon
  <2> SUFFICES ASSUME RequestInv, cluster.networkPolicyEnabled
               PROVE  cluster.networkPolicyConfig # FALSE
    BY DEF PolicyHasItsAddon
  <2>1. cluster.networkPolicyEnabled \in BOOLEAN
    BY DEF RequestInv, ClusterFits, ClusterFields, Fits
  <2>2. QED
    BY <2>1 DEF RequestInv, PolicyInv
<1>2. QED
  BY <1>1, InvInit, InvNext, RequestInit, RequestNext, PTL DEF Spec

-----------------------------------------------------------------------------
(* Types *)

PoolTyped(n) ==
    /\ pools[n].status \in {"PROVISIONING", "RUNNING", "RECONCILING", "STOPPING"}
    /\ DOMAIN pools[n].settings = PoolFields
    /\ DOMAIN pools[n].request \subseteq PoolFields

Typed ==
    /\ phase \in {"active", "updating"}
    /\ due \in BOOLEAN
    /\ \A n \in Present : PoolTyped(n)
    /\ pass # Idle => DOMAIN pass.pools \subseteq PoolNames

\* A request for a pool is for settings that pools have.
LEMMA PoolRequestFits ==
    ASSUME NEW np, NEW upstream
    PROVE  DOMAIN FirstPoolUpdate(np, upstream) \subseteq PoolFields
<1> DEFINE request == FirstPoolUpdate(np, upstream)
           updates == PoolUpdates(np, upstream)
<1>1. DOMAIN NoRequest = {}
  BY DEF NoRequest
<1>2. DOMAIN UpdateNodePoolKubernetesVersionOrImageType(np, upstream) \subseteq PoolFields
  BY <1>1 DEF UpdateNodePoolKubernetesVersionOrImageType, PoolFields
<1>3. DOMAIN UpdateNodePoolSize(np, upstream) \subseteq PoolFields
  BY <1>1 DEF UpdateNodePoolSize, PoolFields
<1>4. DOMAIN UpdateNodePoolAutoscaling(np, upstream) \subseteq PoolFields
  BY <1>1 DEF UpdateNodePoolAutoscaling, PoolFields
<1>5. DOMAIN UpdateNodePoolManagement(np, upstream) \subseteq PoolFields
  BY <1>1 DEF UpdateNodePoolManagement, PoolFields
<1>6. DOMAIN UpdateNodePoolConfig(np, upstream) \subseteq PoolFields
  BY <1>1 DEF UpdateNodePoolConfig, PoolFields
<1> HIDE DEF updates
<1>7. \A i \in 1 .. 5 : DOMAIN updates[i] \subseteq PoolFields
  BY <1>2, <1>3, <1>4, <1>5, <1>6, PoolUpdatesAre DEF updates
<1>8. QED
  BY <1>1, <1>7, FirstOfPoolUpdates DEF updates

LEMMA TypedInit == Init => Typed
<1> SUFFICES ASSUME Init PROVE Typed
  OBVIOUS
<1>1. PICK first \in FirstPools :
        pools = [n \in PoolNames |-> IF n \in DOMAIN first THEN Running(first[n]) ELSE Absent]
  BY DEF Init
<1>2. ASSUME NEW n \in Present PROVE PoolTyped(n)
  <2>1. n \in DOMAIN first /\ pools[n] = Running(first[n])
    BY <1>1, <1>2 DEF Present
  <2>2. QED
    BY <2>1, SettingsAssumption DEF PoolTyped, Running, Pool, NoRequest
<1>3. QED
  BY <1>2 DEF Init, Typed

\* A step after which pool n, if it is there, has the types of a pool.
LEMMA PoolsStayTyped ==
    ASSUME Inv, Typed, NEW n \in PoolNames, NEW after,
           pools' = [pools EXCEPT ![n] = after] \/ pools' = pools,
           pools' # pools => PoolTyped(n)' \/ after = Absent
    PROVE  \A m \in Present' : PoolTyped(m)'
<1>1. DOMAIN pools = PoolNames
  BY DEF Inv
<1>2. CASE pools' = pools
  BY <1>2 DEF Typed, Present, PoolTyped
<1>3. CASE pools' # pools
  <2>1. pools'[n] = after /\ \A m \in PoolNames \ {n} : pools'[m] = pools[m]
    BY <1>1, <1>3
  <2>2. QED
    BY <1>3, <2>1 DEF Typed, Present, PoolTyped
<1>4. QED
  BY <1>2, <1>3

\* What a pass does with the phase and the queue, and that it keeps its pools.
PassMoves ==
    /\ phase' \in {phase, "active", "updating"}
    /\ due' \in {due, TRUE}
    /\ pass' = Idle \/ (pass # Idle /\ pass'.pools = pass.pools)

LEMMA Moves ==
    ASSUME Inv, NEW asked, NEW n,
           Fails \/ Waits \/ Settles \/ (pass # Idle /\ (Panics \/ Passes(n, asked) \/ LooksAtPools))
    PROVE  PassMoves
<1>1. pass # Idle => PassInv
  BY DEF Inv
<1>2. Fails \/ Waits \/ Settles => PassMoves
  BY DEF Fails, Waits, Settles, Written, PassMoves
<1>3. pass # Idle /\ (Panics \/ Passes(n, asked)) => PassMoves
  BY <1>1 DEF Panics, Passes, GoesTo, PassMoves, PassInv
<1>4. pass # Idle /\ LooksAtPools => PassMoves
  BY <1>1, <1>2 DEF LooksAtPools, PassMoves, PassInv
<1>5. QED
  BY <1>2, <1>3, <1>4

LEMMA TypedMoves ==
    ASSUME Typed, PassMoves, \A m \in Present' : PoolTyped(m)'
    PROVE  Typed'
BY DEF Typed, PassMoves

LEMMA TypedNext == Inv /\ Typed /\ [Next]_vars => Typed'
<1> SUFFICES ASSUME Inv, Typed, [Next]_vars PROVE Typed'
  OBVIOUS
<1>1. ASSUME pools' = pools PROVE \A m \in Present' : PoolTyped(m)'
  BY <1>1 DEF Typed, Present, PoolTyped
<1>2. CASE CheckWaits
  BY <1>1, <1>2 DEF CheckWaits, gkeVars, Typed
<1>3. CASE CheckUpdates
  <2>1. /\ pass'.pools = UpstreamPools
        /\ due' = FALSE
        /\ UNCHANGED << phase, pools >>
    BY <1>3 DEF CheckUpdates, gkeVars
  <2>2. DOMAIN UpstreamPools \subseteq PoolNames
    BY DEF UpstreamPools, Present
  <2>3. QED
    BY <1>1, <2>1, <2>2 DEF Typed
<1>4. CASE UpdateCluster
  <2>1. UNCHANGED pools /\ pass # Idle /\ PassInv
    BY <1>4 DEF UpdateCluster, At, Inv
  <2>2. CASE Panics \/ Fails \/ LooksAtPools
    BY <1>1, <2>1, <2>2, Moves, TypedMoves
  <2>3. CASE \E request : CallsCluster(request)
    BY <1>1, <2>1, <2>3, Moves, TypedMoves DEF CallsCluster
  <2>4. CASE /\ pass' = [pass EXCEPT !.at = "labels", !.fingerprint = cluster.labels]
             /\ UNCHANGED << phase, due >>
    <3>1. PassMoves
      BY <2>1, <2>4 DEF PassMoves, PassInv
    <3>2. QED
      BY <1>1, <2>1, <3>1, TypedMoves
  <2>5. QED
    BY <1>4, <2>2, <2>3, <2>4 DEF UpdateCluster
<1>5. CASE SetLabels
  <2>1. UNCHANGED pools
    BY <1>5 DEF SetLabels
  <2>2. Waits \/ Fails
    BY <1>5 DEF SetLabels, CallsCluster
  <2>3. QED
    BY <1>1, <2>1, <2>2, Moves, TypedMoves
<1>6. ASSUME NEW n \in PoolNames, NEW after, PassMoves,
             pools' = [pools EXCEPT ![n] = after] \/ pools' = pools,
             pools' # pools => PoolTyped(n)' \/ after = Absent
      PROVE  Typed'
  BY <1>6, PoolsStayTyped, TypedMoves
<1>7. ASSUME NEW n \in PoolNames, UpdatePool(n) PROVE Typed'
  <2> DEFINE after == Pool("RECONCILING", pools[n].settings, PoolRequest(n))
  <2>1. pass # Idle
    BY <1>7 DEF UpdatePool, Visits, At
  <2>2. \/ pools' = pools /\ (Panics \/ Fails \/ Passes(n, FALSE))
        \/ n \in Present /\ AskOfPool(n, after)
    BY <1>7 DEF UpdatePool
  <2>3. PassMoves
    BY <2>1, <2>2, Moves DEF AskOfPool
  <2>4. CASE pools' = pools
    BY <1>1, <2>3, <2>4, TypedMoves
  <2>5. CASE pools' # pools
    <3>1. n \in Present /\ pools' = [pools EXCEPT ![n] = after] /\ PoolTyped(n)
      BY <2>2, <2>5 DEF AskOfPool, Typed
    <3>2. pools'[n] = after
      BY <3>1 DEF Inv
    <3>3. DOMAIN PoolRequest(n) \subseteq PoolFields
      BY PoolRequestFits DEF PoolRequest
    <3>4. PoolTyped(n)'
      BY <3>1, <3>2, <3>3 DEF PoolTyped, Pool
    <3>5. QED
      BY <1>6, <2>3, <3>1, <3>4
  <2>6. QED
    BY <2>4, <2>5
<1>8. ASSUME NEW n \in PoolNames, CreatePool(n) PROVE Typed'
  <2> DEFINE settings == Completed(newGKENodePoolFromConfig(Downstream[n]))
             after == Pool("PROVISIONING", settings, NoRequest)
  <2>1. pass # Idle
    BY <1>8 DEF CreatePool, Visits, At
  <2>2. (pools' = pools /\ Fails) \/ AskOfPool(n, after)
    BY <1>8 DEF CreatePool
  <2>3. PassMoves
    BY <2>1, <2>2, Moves DEF AskOfPool
  <2>4. DOMAIN settings = PoolFields
    BY DEF Completed, newGKENodePoolFromConfig, PoolFields
  <2>5. pools' = [pools EXCEPT ![n] = after] \/ pools' = pools
    BY <2>2 DEF AskOfPool
  <2>6. ASSUME pools' # pools PROVE PoolTyped(n)'
    <3>1. pools'[n] = after
      BY <2>5, <2>6 DEF Inv
    <3> HIDE DEF settings
    <3>2. QED
      BY <2>4, <3>1 DEF PoolTyped, Pool, NoRequest
  <2> HIDE DEF after
  <2>7. QED
    BY <1>6, <2>3, <2>5, <2>6
<1>9. ASSUME NEW n \in PoolNames, NEW status \in {"STOPPING"}, pools' # pools, n \in Present,
             pools' = [pools EXCEPT ![n] = Pool(status, pools[n].settings, NoRequest)]
      PROVE  PoolTyped(n)'
  BY <1>9 DEF Typed, PoolTyped, Pool, NoRequest, Inv
<1>10. ASSUME NEW n \in PoolNames, RemovePool(n) PROVE Typed'
  <2> DEFINE after == Pool("STOPPING", pools[n].settings, NoRequest)
  <2>1. pass # Idle
    BY <1>10 DEF RemovePool, Visits, At
  <2>2. (pools' = pools /\ Passes(n, FALSE)) \/ (n \in Present /\ AskOfPool(n, after))
    BY <1>10 DEF RemovePool
  <2>3. PassMoves
    BY <2>1, <2>2, Moves DEF AskOfPool
  <2>4. pools' = [pools EXCEPT ![n] = after] \/ pools' = pools
    BY <2>2 DEF AskOfPool
  <2>5. pools' # pools => PoolTyped(n)'
    BY <1>9, <2>2, <2>4
  <2> HIDE DEF after
  <2>6. QED
    BY <1>6, <2>3, <2>4, <2>5
<1>11. CASE PoolsDone
  BY <1>1, <1>11, Moves, TypedMoves DEF PoolsDone, gkeVars
<1>12. CASE Edit \/ OperationDone \/ OperationFails \/ AutoUpgrade \/ OthersLabel \/ UNCHANGED vars
  BY <1>1, <1>12 DEF Edit, OperationDone, OperationFails, OperationEnds, AutoUpgrade, OthersLabel,
     vars, configVars, gkeVars, Typed
<1>13. CASE Restart
  BY <1>1, <1>13 DEF Restart, gkeVars, Typed
<1>14. CASE ClusterCallRefused
  BY <1>1, <1>14, Moves, TypedMoves DEF ClusterCallRefused, gkeVars
<1>15. ASSUME NEW n \in PoolNames, PoolCallRefused(n) PROVE Typed'
  BY <1>1, <1>15, Moves, TypedMoves DEF PoolCallRefused, Visits, At
<1>16. ASSUME NEW n \in PoolNames, PoolDone(n) \/ PoolFails(n) PROVE Typed'
  <2>1. /\ n \in Present /\ PoolTyped(n) /\ n \in DOMAIN pools /\ UNCHANGED << phase, due, pass >>
    BY <1>16 DEF PoolDone, PoolFails, PoolEnds, Typed, Present, configVars, Inv
  <2>2. ASSUME NEW settings, pools' = [pools EXCEPT ![n] = Running(settings)],
               DOMAIN settings = PoolFields
        PROVE  Typed'
    <3>1. PoolTyped(n)'
      BY <2>1, <2>2 DEF PoolTyped, Running, Pool, NoRequest
    <3>2. QED
      BY <2>1, <2>2, <3>1, PoolsStayTyped DEF Typed
  <2>3. ASSUME pools' = [pools EXCEPT ![n] = Absent] PROVE Typed'
    BY <2>1, <2>3, PoolsStayTyped DEF Typed
  <2>4. DOMAIN Applied(pools[n].request, pools[n].settings) = PoolFields
    BY <2>1 DEF Applied, PoolTyped
  <2>5. QED
    BY <1>16, <2>1, <2>2, <2>3, <2>4 DEF PoolDone, PoolFails, PoolEnds, PoolTyped
<1>17. ASSUME NEW n \in PoolNames, PoolAutoUpgrade(n) PROVE Typed'
  <2>1. /\ pools' = [pools EXCEPT ![n] = Pool("RECONCILING", pools[n].settings,
                                             [version |-> cluster.kubernetesVersion])]
        /\ n \in Present /\ n \in DOMAIN pools /\ UNCHANGED << phase, due, pass >>
    BY <1>17 DEF PoolAutoUpgrade, configVars, Present, Inv
  <2>2. PoolTyped(n)'
    BY <2>1 DEF Typed, PoolTyped, Pool, PoolFields
  <2>3. QED
    BY <2>1, <2>2, PoolsStayTyped DEF Typed
<1>18. ASSUME NEW n \in PoolNames, OthersRemove(n) PROVE Typed'
  <2>1. /\ pools' = [pools EXCEPT ![n] = Pool("STOPPING", pools[n].settings, NoRequest)]
        /\ n \in Present /\ UNCHANGED << phase, due, pass >>
    BY <1>18 DEF OthersRemove, configVars
  <2>2. pools' # pools => PoolTyped(n)'
    BY <1>9, <2>1
  <2>3. QED
    BY <2>1, <2>2, PoolsStayTyped DEF Typed
<1>19. QED
  BY <1>2, <1>3, <1>4, <1>5, <1>7, <1>8, <1>10, <1>11, <1>12, <1>13, <1>14, <1>15, <1>16, <1>17, <1>18
     DEF Next, Progress, Disturbance, Pass

\* Every request, of the cluster or of a pool, is for settings it has, and a pass
\* knows of no pools but those there may be.
THEOREM TypeCorrect == Spec => []TypeOK
<1>1. Inv /\ RequestInv /\ Typed => TypeOK
  <2> SUFFICES ASSUME Inv, RequestInv, Typed PROVE TypeOK
    OBVIOUS
  <2>1. operation.by \in {"nobody", "operator", "GKE"}
    BY DEF RequestInv, OperationInv
  <2>2. DOMAIN operation.request \subseteq DOMAIN cluster
    BY DEF RequestInv, ClusterFits, RequestFits
  <2>3. QED
    BY <2>1, <2>2 DEF Inv, PassInv, Typed, PoolTyped, TypeOK
<1>2. QED
  BY <1>1, InvInit, InvNext, RequestInit, RequestNext, TypedInit, TypedNext, PTL DEF Spec
=============================================================================
