------------------------------ MODULE GKECluster ------------------------------
(***************************************************************************)
(* The cluster at the address a config names, as the operator sees GKE     *)
(* behave: one cluster of that name at a time, at most one operation on it *)
(* (a second request is answered with errWait), and operations that end    *)
(* with or without effect.  GKE is external: everything here is what the   *)
(* calls in pkg/gke and the status constants of the controller rely on.    *)
(***************************************************************************)
EXTENDS ClusterSettings

CONSTANT Defaults

ASSUME DefaultsAssumption == Defaults \in Confs

VARIABLE gke

Statuses == {"ABSENT", "PROVISIONING", "RUNNING", "RECONCILING", "ERROR", "STOPPING"}

NoOperation == "none"

Owners == {"nobody", "operator", "others"}

Clusters == [status : Statuses, conf : Confs, owner : Owners,
             operation : Settings \cup {NoOperation},
             target : Values]

Absent == [status |-> "ABSENT", conf |-> Defaults, owner |-> "nobody",
           operation |-> NoOperation, target |-> 0]

ClusterInit == gke \in { Absent, [Absent EXCEPT !.status = "RUNNING", !.owner = "others"] }

ClusterTypeOK == gke \in Clusters

Unoccupied == gke.status = "RUNNING" /\ gke.operation = NoOperation

-----------------------------------------------------------------------------
(* Requests GKE accepts *)

ClusterCreate(spec) ==
    /\ gke.status = "ABSENT"
    /\ gke' = [Absent EXCEPT !.status = "PROVISIONING", !.owner = "operator",
                             !.conf = Created(spec, Defaults)]

CanDelete ==
    \/ Unoccupied
    \/ gke.status = "ERROR"

ClusterDelete ==
    /\ CanDelete
    /\ gke' = [gke EXCEPT !.status = "STOPPING"]

\* An operation on the control plane shows in the status of the cluster, one on
\* a node pool only in the status of the pool.
StartOperation(s, v) ==
    /\ Unoccupied
    /\ gke' = [gke EXCEPT !.status = IF s = "nodePools" THEN "RUNNING" ELSE "RECONCILING",
                          !.operation = s, !.target = v]

-----------------------------------------------------------------------------
(* What happens at GKE by itself *)

Provisioned ==
    /\ gke.status = "PROVISIONING"
    /\ gke' = [gke EXCEPT !.status = "RUNNING"]

ProvisionFails ==
    /\ gke.status = "PROVISIONING"
    /\ gke' = [gke EXCEPT !.status = "ERROR"]

Ended(cluster) ==
    [cluster EXCEPT !.status = "RUNNING", !.operation = NoOperation, !.target = 0]

OperationDone ==
    /\ gke.operation # NoOperation
    /\ gke' = [Ended(gke) EXCEPT !.conf[gke.operation] = gke.target]

OperationFails ==
    /\ gke.operation # NoOperation
    /\ gke' = Ended(gke)

Deleted ==
    /\ gke.status = "STOPPING"
    /\ gke' = Absent

\* GKE upgrades a control plane without being asked.
AutoUpgrade ==
    /\ Unoccupied
    /\ gke.conf["kubernetesVersion"] < MaxValue
    /\ gke' = [gke EXCEPT !.status = "RECONCILING",
                          !.operation = "kubernetesVersion",
                          !.target = gke.conf["kubernetesVersion"] + 1]

\* Somebody else creates a cluster under the name the config uses.
OthersCreate ==
    /\ gke.status = "ABSENT"
    /\ gke' = [Absent EXCEPT !.status = "RUNNING", !.owner = "others"]

ClusterNext ==
    \/ Provisioned
    \/ ProvisionFails
    \/ OperationDone
    \/ OperationFails
    \/ Deleted
    \/ AutoUpgrade
    \/ OthersCreate

ClusterSpec == ClusterInit /\ [][ClusterNext]_gke
=============================================================================
