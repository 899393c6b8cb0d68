---------------------------- MODULE NodePoolUpdates ----------------------------
(***************************************************************************)
(* The node pools of a spec against those of a cluster: the five update    *)
(* functions of pkg/gke/update.go for one pool, and what creates one.      *)
(*                                                                         *)
(* GKE takes the autoscaling or management message of a request as a       *)
(* whole.  Its Go type cannot tell a field that is left out from one that  *)
(* is false or zero, so the fields the code leaves out are reset.  A pool  *)
(* of a cluster always has a config and a management message.              *)
(***************************************************************************)
EXTENDS ClusterUpdates

Duplicates(nodePools) ==
    \E i, j \in 1 .. Len(nodePools) :
        i # j /\ nodePools[i].name = nodePools[j].name /\ nodePools[i].name # Nil

\* The pools of a spec by name, those without a name left out; none, besides an
\* error, when a name is there twice.
buildNodePoolMap(nodePools) ==
    [name \in IF Duplicates(nodePools) THEN {}
              ELSE { np.name : np \in Range(nodePools) } \ {Nil} |->
        CHOOSE np \in Range(nodePools) : np.name = name]

-----------------------------------------------------------------------------
(* The update functions *)

\* A pool without a version keeps its image too.
UpdateNodePoolKubernetesVersionOrImageType(np, upstream) ==
    IF np.version = Nil THEN NoRequest
    ELSE LET differs ==
               { f \in {"version", "imageType"} :
                    IF f = "version" THEN np.version \notin {"", upstream.version}
                                     ELSE np.config.imageType \notin {"", upstream.imageType} }
         IN  [f \in differs |-> IF f = "version" THEN np.version ELSE np.config.imageType]

\* A slip for the runs to catch: the size is not looked at while autoscaling is on.
UpdateNodePoolSizeIfFixed(np, upstream) ==
    IF \/ np.initialNodeCount \in {Nil, upstream.initialNodeCount}
       \/ np.autoscaling # Nil /\ np.autoscaling.enabled
    THEN NoRequest
    ELSE [initialNodeCount |-> np.initialNodeCount]

UpdateNodePoolSize(np, upstream) ==
    IF np.initialNodeCount \in {Nil, upstream.initialNodeCount} THEN NoRequest
    ELSE [initialNodeCount |-> np.initialNodeCount]

NoAutoscaling == [enabled |-> FALSE, maxNodeCount |-> 0, minNodeCount |-> 0]

Autoscaling(upstream) ==
    IF upstream.autoscaling = Nil THEN NoAutoscaling ELSE upstream.autoscaling

\* The bounds count only while autoscaling is enabled, and only those that
\* differ are put into the request.
UpdateNodePoolAutoscaling(np, upstream) ==
    LET want == np.autoscaling
        have == Autoscaling(upstream)
        Bound(b) == IF want[b] # have[b] THEN want[b] ELSE 0
    IN  IF \/ want = Nil
           \/ want = have
           \/ ~want.enabled /\ ~have.enabled
        THEN NoRequest
        ELSE [autoscaling |->
                 IF want.enabled
                 THEN [enabled |-> TRUE, maxNodeCount |-> Bound("maxNodeCount"),
                                         minNodeCount |-> Bound("minNodeCount")]
                 ELSE NoAutoscaling]

\* Only what differs is put into the request.
UpdateNodePoolManagement(np, upstream) ==
    LET want == np.management
        have == upstream.management
    IN  IF want \in {Nil, have} THEN NoRequest
        ELSE [management |-> [f \in {"autoRepair", "autoUpgrade"} |-> want[f] /\ ~have[f]]]

LabelsAsked(np) == IF np.config = Nil THEN Nil ELSE np.config.labels

UpdateNodePoolConfig(np, upstream) ==
    IF LabelsAsked(np) \in {Nil, upstream.labels} THEN NoRequest
    ELSE [labels |-> LabelsAsked(np)]

PoolUpdates(np, upstream) ==
    << UpdateNodePoolKubernetesVersionOrImageType(np, upstream),
       UpdateNodePoolSize(np, upstream),
       UpdateNodePoolAutoscaling(np, upstream),
       UpdateNodePoolManagement(np, upstream),
       UpdateNodePoolConfig(np, upstream) >>

\* The config of the spec's pool is dereferenced, nil or not: at once if there
\* is a version, else when nothing before the labels changed.
PoolPanics(np, upstream) ==
    /\ np.config = Nil
    /\ \/ np.version # Nil
       \/ \A i \in 2 .. 4 : DOMAIN PoolUpdates(np, upstream)[i] = {}

\* The request for a pool that is there: that of the first function that changes
\* something, after which the pass goes on with the next pool.
FirstPoolUpdate(np, upstream) ==
    LET updates == PoolUpdates(np, upstream)
        sends == { i \in 1 .. 5 : DOMAIN updates[i] # {} }
    IN  IF sends = {} THEN NoRequest
        ELSE updates[CHOOSE i \in sends : \A j \in sends : i <= j]

-----------------------------------------------------------------------------
(* Creating a pool *)

UsesIPAliases(spec) ==
    spec.ipAllocationPolicy # Nil /\ spec.ipAllocationPolicy.useIPAliases

PoolProblems ==
    {"name", "version", "autoscaling", "initialNodeCount", "maxPodsConstraint", "config",
     "management", "serviceAccount"}

ASSUME PoolNilAssumption == Nil \notin PoolProblems

\* Why a pool cannot be created: the first thing wrong with it, Nil if nothing.
\* A malformed service account stands for any that is neither empty, nor
\* "default", nor an e-mail address.
validateNodePoolCreateRequest(np, spec) ==
    LET required == << "name", "version", "autoscaling", "initialNodeCount",
                       "maxPodsConstraint", "config", "management" >>
        Optional(f) == f = "maxPodsConstraint" /\ ~UsesIPAliases(spec)
        missing == { i \in 1 .. 7 : np[required[i]] = Nil /\ ~Optional(required[i]) }
    IN  IF missing # {} THEN required[CHOOSE i \in missing : \A j \in missing : i <= j]
        ELSE IF np.config.serviceAccount = "malformed" THEN "serviceAccount"
        ELSE Nil

\* A nil pointer that building the request for the pool would dereference.
PoolRequestPanics(np, spec) ==
    \/ \E f \in {"name", "version", "autoscaling", "initialNodeCount", "config", "management"} :
            np[f] = Nil
    \/ UsesIPAliases(spec) /\ np.maxPodsConstraint = Nil

\* A slip for the runs to catch: the management of a new pool is left out.
newGKENodePoolUnmanaged(np) ==
    [version |-> np.version, imageType |-> np.config.imageType, labels |-> {},
     initialNodeCount |-> np.initialNodeCount, autoscaling |-> np.autoscaling]

\* The pool as it is asked for, in what an update could change.
newGKENodePoolFromConfig(np) ==
    [version |-> np.version, imageType |-> np.config.imageType,
     labels |-> IF np.config.labels = Nil THEN {} ELSE np.config.labels,
     initialNodeCount |-> np.initialNodeCount,
     autoscaling |-> np.autoscaling, management |-> np.management]
=============================================================================
