--------------------------- MODULE ConfigController ---------------------------
(***************************************************************************)
(* The controller of one GKEClusterConfig: the handlers OnGkeConfigChanged *)
(* (wrapped in recordError) and OnGkeConfigRemoved, run by one worker at a *)
(* time for the key of the config, against the API server (ConfigStore)    *)
(* and GKE (GKECluster).  A handler is cut at each call that leaves the     *)
(* process, so that users, GKE, the informer and a crash of the operator   *)
(* come between any two of its calls.                                      *)
(***************************************************************************)
EXTENDS ConfigStore, GKECluster

CONSTANT LeftoverSecret

\* Whether a config of the same name has lived before and its secret is still
\* waiting for the garbage collector.
ASSUME LeftoverAssumption == LeftoverSecret \in BOOLEAN

VARIABLES
    pc,        \* the call the worker makes next
    work,      \* the config object the handlers pass along
    snapshot,  \* the answer of GetCluster
    intent,    \* the status the handler is about to write, or has written
    err,       \* the error onChange returns
    secret,    \* the secret with the CA and the endpoint of the cluster
    created    \* history: GKE has accepted a ClusterCreate for this config

workerVars == << pc, work, snapshot, intent, err >>

vars == << storeVars, gke, workerVars, secret, created >>

Calls == {"idle", "changed", "list", "create", "get", "secret", "update",
          "status", "record", "adopt", "removed", "delete", "finalize"}

\* What is returned when UpdateStatus fails: recordError does not record it.
Unrecorded == "unrecorded"

Failures == Errors \cup {Unrecorded}

Intents == [phase : Phases, message : Messages \cup {NoMessage}, again : BOOLEAN]

NoIntent == [phase |-> "notCreated", message |-> NoMessage, again |-> FALSE]

Init ==
    /\ StoreInit
    /\ ClusterInit
    /\ pc = "idle"
    /\ work = NewConfig(FALSE)
    /\ snapshot = Absent
    /\ intent = NoIntent
    /\ err = NoError
    /\ secret = IF LeftoverSecret THEN "leftover" ELSE "none"
    /\ created = FALSE

WorkerTypeOK ==
    /\ pc \in Calls
    /\ work \in Configs
    /\ snapshot \in Clusters
    /\ intent \in Intents
    /\ err \in Failures \cup {NoError}
    /\ pc = "record" => err # Unrecorded

TypeOK ==
    /\ StoreTypeOK
    /\ ClusterTypeOK
    /\ WorkerTypeOK
    /\ secret \in {"none", "leftover", "own"}
    /\ created \in BOOLEAN

spec == Revision[work.generation]

-----------------------------------------------------------------------------
(* Steps of the worker in general *)

Environment == << gke, secret, created >>

\* The worker goes on to its next call.
Goto(call) ==
    /\ pc' = call
    /\ UNCHANGED << work, snapshot, intent, err >>

\* onChange returns with an error: nothing else is called but recordError.
Return(e) ==
    /\ pc' = "record"
    /\ err' = e
    /\ UNCHANGED << work, snapshot, intent >>

\* onChange is about to write a status and, if again, to call EnqueueAfter.
Intend(phase, message, again) ==
    /\ pc' = "status"
    /\ intent' = [phase |-> phase, message |-> message, again |-> again]
    /\ UNCHANGED << work, snapshot, err >>

\* updateConfigStatus writes only a change of phase or message.
SameStatus(phase, message) == work.phase = phase /\ work.message = message

\* A slip for the runs to catch: EnqueueAfter only where a status was written.
UpdateConfigStatusNoTimer(phase, message, again) ==
    \/ /\ ~SameStatus(phase, message)
       /\ Intend(phase, message, again)
       /\ UNCHANGED storeVars
    \/ /\ SameStatus(phase, message)
       /\ Return(NoError)
       /\ UNCHANGED storeVars

UpdateConfigStatus(phase, message, again) ==
    \/ /\ ~SameStatus(phase, message)
       /\ Intend(phase, message, again)
       /\ UNCHANGED storeVars
    \/ /\ SameStatus(phase, message)
       /\ Return(NoError)
       /\ timer' = (timer \/ again)
       /\ UNCHANGED << store, cache, stale, queued >>

\* A slip for the runs to catch: the config is not enqueued when its status
\* stays as it is.
EnqueueUpdateSilent(message) ==
    \/ /\ ~SameStatus("updating", message)
       /\ Intend("updating", message, FALSE)
       /\ UNCHANGED storeVars
    \/ /\ SameStatus("updating", message)
       /\ Return(NoError)
       /\ UNCHANGED storeVars

EnqueueUpdate(message) ==
    \/ /\ ~SameStatus("updating", message)
       /\ Intend("updating", message, FALSE)
       /\ UNCHANGED storeVars
    \/ /\ SameStatus("updating", message)
       /\ Return(NoError)
       /\ queued' = TRUE
       /\ UNCHANGED << store, cache, stale, timer >>

\* The worker forgets everything it held.
Release ==
    /\ pc' = "idle"
    /\ work' = NewConfig(FALSE)
    /\ snapshot' = Absent
    /\ intent' = NoIntent
    /\ err' = NoError

\* The handlers are through with the config and have written nothing since
\* their last call; the rate limiter brings the key back if they failed.
Finish(failed) ==
    /\ Release
    /\ timer' = (timer \/ failed)
    /\ stale' = stale \cup {"work"}
    /\ UNCHANGED << store, cache, queued >>

\* The handlers are through with the config after a write of the object.
FinishWith(config, failed) ==
    /\ Release
    /\ timer' = (timer \/ failed)
    /\ store' = config
    /\ stale' = Copies
    /\ UNCHANGED << cache, queued >>

-----------------------------------------------------------------------------
(* OnGkeConfigChanged *)

\* A worker takes the key and reads the object from the informer cache.
TakeKey ==
    /\ pc = "idle"
    /\ queued
    /\ cache.lifecycle # "gone"
    /\ pc' = IF cache.lifecycle = "live" THEN "changed" ELSE "removed"
    /\ work' = cache
    /\ stale' = IF "cache" \in stale THEN stale \cup {"work"} ELSE stale \ {"work"}
    /\ queued' = FALSE
    /\ UNCHANGED << store, cache, timer, snapshot, intent, err, Environment >>

\* The cache has no such object any more: both handlers get nil.
DropKey ==
    /\ pc = "idle"
    /\ queued
    /\ cache.lifecycle = "gone"
    /\ queued' = FALSE
    /\ UNCHANGED << store, cache, stale, timer, workerVars, Environment >>

CredentialFails ==
    /\ pc = "changed"
    /\ Return("credential")
    /\ UNCHANGED << storeVars, Environment >>

\* The credential is read and a client built from it; the phase decides.
Dispatch ==
    /\ pc = "changed"
    /\ IF work.phase # "notCreated" THEN Goto("get")
       ELSE IF work.imported THEN Intend("importing", "importing", FALSE)
       ELSE Goto("list")
    /\ UNCHANGED << storeVars, Environment >>

\* A call to GKE fails without effect.
CallFails ==
    /\ pc \in {"list", "create", "get"}
    /\ Return("upstream")
    /\ UNCHANGED << storeVars, Environment >>

ClusterListed ==
    /\ pc = "list"
    /\ IF gke.status = "ABSENT" THEN Goto("create") ELSE Return("exists")
    /\ UNCHANGED << storeVars, Environment >>

CreateAccepted ==
    /\ pc = "create"
    /\ ClusterCreate(spec)
    /\ created' = TRUE
    /\ Intend("creating", "creating", FALSE)
    /\ UNCHANGED << storeVars, secret >>

\* GKE has accepted the request but the answer is lost on the way.
CreateAnswerLost ==
    /\ pc = "create"
    /\ ClusterCreate(spec)
    /\ created' = TRUE
    /\ Return("upstream")
    /\ UNCHANGED << storeVars, secret >>

\* A slip for the runs to catch: an imported config gets no secret.
ImportClusterOnly ==
    /\ pc = "get"
    /\ work.phase = "importing"
    /\ gke.status # "ABSENT"
    /\ Intend("active", NoMessage, FALSE)
    /\ UNCHANGED << storeVars, Environment >>

\* importCluster asks for the cluster and goes on with the secret.
ImportCluster ==
    /\ pc = "get"
    /\ work.phase = "importing"
    /\ gke.status # "ABSENT"
    /\ Goto("secret")
    /\ UNCHANGED << storeVars, Environment >>

\* A slip for the runs to catch: no EnqueueAfter while GKE creates the cluster.
WaitForCreationOnce ==
    /\ pc = "get"
    /\ work.phase = "creating"
    /\ \/ /\ gke.status = "ERROR"
          /\ Return("creationFailed")
          /\ UNCHANGED storeVars
       \/ /\ gke.status = "RUNNING"
          /\ Goto("secret")
          /\ UNCHANGED storeVars
       \/ /\ gke.status \notin {"ERROR", "RUNNING", "ABSENT"}
          /\ UpdateConfigStatus("creating", "finishCreating", FALSE)
    /\ UNCHANGED Environment

WaitForCreationComplete ==
    /\ pc = "get"
    /\ work.phase = "creating"
    /\ \/ /\ gke.status = "ERROR"
          /\ Return("creationFailed")
          /\ UNCHANGED storeVars
       \/ /\ gke.status = "RUNNING"
          /\ Goto("secret")
          /\ UNCHANGED storeVars
       \/ /\ gke.status \notin {"ERROR", "RUNNING", "ABSENT"}
          /\ UpdateConfigStatus("creating", "finishCreating", TRUE)
    /\ UNCHANGED Environment

NodePoolsBusy == gke.status # "RECONCILING" /\ gke.operation = "nodePools"

\* checkAndUpdate waits while the cluster or one of its node pools is busy.
CheckWaits ==
    /\ pc = "get"
    /\ work.phase \in {"active", "updating"}
    /\ \/ /\ gke.status = "RECONCILING"
          /\ UpdateConfigStatus("updating", "finishUpdating", TRUE)
       \/ /\ NodePoolsBusy
          /\ UpdateConfigStatus("updating", "finishNodePool", TRUE)
    /\ UNCHANGED Environment

\* Otherwise it takes the answer as the upstream state to update.
CheckUpdates ==
    /\ pc = "get"
    /\ work.phase \in {"active", "updating"}
    /\ gke.status \notin {"RECONCILING", "ABSENT"}
    /\ ~NodePoolsBusy
    /\ snapshot' = gke
    /\ pc' = "update"
    /\ UNCHANGED << storeVars, work, intent, err, Environment >>

\* createCASecret; a secret that exists already is taken for its own.
SecretCreated ==
    /\ pc = "secret"
    /\ secret' = IF secret = "none" THEN "own" ELSE secret
    /\ Intend("active", NoMessage, FALSE)
    /\ UNCHANGED << storeVars, gke, created >>

\* The cluster has no endpoint or CA yet, or the API server fails, or its answer is lost.
SecretFails ==
    /\ pc = "secret"
    /\ \/ secret' = secret
       \/ secret = "none" /\ secret' = "own"
    /\ Return("upstream")
    /\ UNCHANGED << storeVars, gke, created >>

-----------------------------------------------------------------------------
(* updateUpstreamClusterState *)

VersionRejected ==
    /\ pc = "update"
    /\ VersionBlocked(spec, snapshot.conf)
    /\ Return("versionBlocked")
    /\ UNCHANGED << storeVars, Environment >>

\* The setting the pass comes to, if it comes to one that differs.
Updates(s) ==
    /\ pc = "update"
    /\ ~VersionBlocked(spec, snapshot.conf)
    /\ s \in NextSettings(spec, snapshot.conf)

UpdateAccepted(s) ==
    /\ Updates(s)
    /\ StartOperation(s, spec[s])
    /\ EnqueueUpdate(s)
    /\ UNCHANGED << secret, created >>

UpdateFails(s) ==
    /\ Updates(s)
    /\ Return("upstream")
    /\ UNCHANGED << storeVars, Environment >>

\* GKE has begun the operation and the pass ends in an error all the same: the
\* answer was lost, or a later request of the node pool pass failed.
UpdateFailsHalfway(s) ==
    /\ Updates(s)
    /\ StartOperation(s, spec[s])
    /\ Return("upstream")
    /\ UNCHANGED << storeVars, secret, created >>

\* GKE rejects the request for a reason that passes.
UpdateRetried(s) ==
    /\ Updates(s)
    /\ \/ /\ s = "clusterAddons"
          /\ UpdateConfigStatus("updating", "finishRecreation", TRUE)
       \/ /\ s = "labels"
          /\ EnqueueUpdate("retryingLabels")
       \/ /\ s = "nodePools"
          /\ EnqueueUpdate("nodePools")
    /\ UNCHANGED Environment

NothingToUpdate ==
    /\ pc = "update"
    /\ ~VersionBlocked(spec, snapshot.conf)
    /\ NextSettings(spec, snapshot.conf) = {}
    /\ IF work.phase # "active" THEN Intend("active", NoMessage, FALSE)
                                ELSE Return(NoError)
    /\ UNCHANGED << storeVars, Environment >>

-----------------------------------------------------------------------------
(* UpdateStatus and recordError *)

\* A slip for the runs to catch: the status is patched onto whatever is stored.
StatusPatched ==
    /\ pc = "status"
    /\ work' = [store EXCEPT !.phase = intent.phase, !.message = intent.message]
    /\ Write(work', "work")
    /\ timer' = (timer \/ intent.again)
    /\ pc' = "record"
    /\ err' = NoError
    /\ UNCHANGED << cache, queued, snapshot, intent, Environment >>

StatusWritten ==
    /\ pc = "status"
    /\ "work" \notin stale
    /\ work' = [work EXCEPT !.phase = intent.phase, !.message = intent.message]
    /\ Write(work', "work")
    /\ timer' = (timer \/ intent.again)
    /\ pc' = "record"
    /\ err' = NoError
    /\ UNCHANGED << cache, queued, snapshot, intent, Environment >>

\* A conflict, or any other failure: what UpdateStatus returns is of no use to
\* recordError, which leaves the config as it is.
StatusFails ==
    /\ pc = "status"
    /\ pc' = "adopt"
    /\ err' = Unrecorded
    /\ UNCHANGED << storeVars, work, snapshot, intent, Environment >>

\* The status is written and the answer is lost: to the worker, this is a failure.
StatusAnswerLost ==
    /\ pc = "status"
    /\ "work" \notin stale
    /\ Write([work EXCEPT !.phase = intent.phase, !.message = intent.message], "nobody")
    /\ pc' = "adopt"
    /\ err' = Unrecorded
    /\ UNCHANGED << cache, queued, timer, work, snapshot, intent, Environment >>

\* A slip for the runs to catch: any error turns a config updating.
RecordedAsUpdating ==
    [work EXCEPT !.failure = err,
                 !.phase = IF err # NoError THEN "updating" ELSE @]

Recorded ==
    [work EXCEPT !.failure = err,
                 !.phase = IF err # NoError /\ @ = "active" THEN "updating" ELSE @]

RecordUnchanged ==
    /\ pc = "record"
    /\ work.failure = err
    /\ Goto("adopt")
    /\ UNCHANGED << storeVars, Environment >>

RecordWritten ==
    /\ pc = "record"
    /\ work.failure # err
    /\ "work" \notin stale
    /\ work' = Recorded
    /\ Write(Recorded, "work")
    /\ pc' = "adopt"
    /\ UNCHANGED << cache, queued, timer, snapshot, intent, err, Environment >>

\* The failure is logged and err returned as it was.  The next handler gets
\* the object the pass began with, stale if a status has been written since.
RecordFails ==
    /\ pc = "record"
    /\ work.failure # err
    /\ stale' = IF intent # NoIntent THEN stale \cup {"work"} ELSE stale
    /\ Goto("adopt")
    /\ UNCHANGED << store, cache, queued, timer, Environment >>

RecordAnswerLost ==
    /\ pc = "record"
    /\ work.failure # err
    /\ "work" \notin stale
    /\ Write(Recorded, "nobody")
    /\ Goto("adopt")
    /\ UNCHANGED << cache, queued, timer, Environment >>

\* wrangler's remove handler, next in line, puts its finalizer on the object.
Adopted ==
    /\ pc = "adopt"
    /\ ~work.finalizer
    /\ "work" \notin stale
    /\ FinishWith([work EXCEPT !.finalizer = TRUE], err # NoError)
    /\ UNCHANGED Environment

AdoptAnswerLost ==
    /\ pc = "adopt"
    /\ ~work.finalizer
    /\ "work" \notin stale
    /\ FinishWith([work EXCEPT !.finalizer = TRUE], TRUE)
    /\ UNCHANGED Environment

AdoptFails ==
    /\ pc = "adopt"
    /\ ~work.finalizer
    /\ Finish(TRUE)
    /\ UNCHANGED Environment

PassEnds ==
    /\ pc = "adopt"
    /\ work.finalizer
    /\ Finish(err # NoError)
    /\ UNCHANGED Environment

-----------------------------------------------------------------------------
(* OnGkeConfigRemoved, called by wrangler's remove handler *)

RemovalCredentialFails ==
    /\ pc = "removed"
    /\ Finish(TRUE)
    /\ UNCHANGED Environment

\* The cluster of an imported config, or of one that never got to creating, is
\* left alone.
DeletionSkipped ==
    /\ pc = "removed"
    /\ work.imported \/ work.phase = "notCreated"
    /\ Goto("finalize")
    /\ UNCHANGED << storeVars, Environment >>

\* A slip for the runs to catch: the phase is not looked at before deletion.
DeletionBeginsAnyway ==
    /\ pc = "removed"
    /\ ~work.imported
    /\ Goto("delete")
    /\ UNCHANGED << storeVars, Environment >>

DeletionBegins ==
    /\ pc = "removed"
    /\ ~work.imported
    /\ work.phase # "notCreated"
    /\ Goto("delete")
    /\ UNCHANGED << storeVars, Environment >>

DeleteAccepted ==
    /\ pc = "delete"
    /\ ClusterDelete
    /\ Goto("finalize")
    /\ UNCHANGED << storeVars, secret, created >>

DeleteNotFound ==
    /\ pc = "delete"
    /\ gke.status = "ABSENT"
    /\ Goto("finalize")
    /\ UNCHANGED << storeVars, Environment >>

\* A slip for the runs to catch: giving up is reported as nothing to retry.
DeleteGivesUpQuietly ==
    /\ pc = "delete"
    /\ Finish(FALSE)
    /\ UNCHANGED Environment

\* RemoveCluster gives up: GKE stayed busy for all its attempts, or failed.
DeleteGivesUp ==
    /\ pc = "delete"
    /\ Finish(TRUE)
    /\ UNCHANGED Environment

\* GKE deletes the cluster and the answer is lost.
DeleteAnswerLost ==
    /\ pc = "delete"
    /\ ClusterDelete
    /\ Finish(TRUE)
    /\ UNCHANGED << secret, created >>

Finalized ==
    /\ pc = "finalize"
    /\ "work" \notin stale
    /\ FinishWith([work EXCEPT !.lifecycle = "gone"], FALSE)
    /\ UNCHANGED Environment

FinalizeAnswerLost ==
    /\ pc = "finalize"
    /\ "work" \notin stale
    /\ FinishWith([work EXCEPT !.lifecycle = "gone"], TRUE)
    /\ UNCHANGED Environment

FinalizeFails ==
    /\ pc = "finalize"
    /\ Finish(TRUE)
    /\ UNCHANGED Environment

-----------------------------------------------------------------------------
(* The rest of the world *)

Crash ==
    /\ Relist
    /\ Release
    /\ UNCHANGED << gke, secret, created >>

\* The secret of the config's predecessor is collected with its owner.
SecretCollected ==
    /\ secret = "leftover"
    /\ secret' = "none"
    /\ UNCHANGED << storeVars, workerVars, gke, created >>

StoreStep == StoreNext /\ UNCHANGED << workerVars, Environment >>

ClusterStep == ClusterNext /\ UNCHANGED << storeVars, workerVars, secret, created >>

Changed ==
    \/ TakeKey
    \/ DropKey
    \/ CredentialFails
    \/ Dispatch
    \/ CallFails
    \/ ClusterListed
    \/ CreateAccepted
    \/ CreateAnswerLost
    \/ ImportCluster
    \/ WaitForCreationComplete
    \/ CheckWaits
    \/ CheckUpdates
    \/ SecretCreated
    \/ SecretFails

Update ==
    \/ VersionRejected
    \/ \E s \in Settings : \/ UpdateAccepted(s)
                           \/ UpdateFails(s)
                           \/ UpdateFailsHalfway(s)
                           \/ UpdateRetried(s)
    \/ NothingToUpdate

Record ==
    \/ StatusWritten
    \/ StatusAnswerLost
    \/ StatusFails
    \/ RecordUnchanged
    \/ RecordWritten
    \/ RecordAnswerLost
    \/ RecordFails
    \/ Adopted
    \/ AdoptAnswerLost
    \/ AdoptFails
    \/ PassEnds

Removed ==
    \/ RemovalCredentialFails
    \/ DeletionSkipped
    \/ DeletionBegins
    \/ DeleteAccepted
    \/ DeleteNotFound
    \/ DeleteGivesUp
    \/ DeleteAnswerLost
    \/ Finalized
    \/ FinalizeAnswerLost
    \/ FinalizeFails

Next ==
    \/ Changed
    \/ Update
    \/ Record
    \/ Removed
    \/ Crash
    \/ SecretCollected
    \/ StoreStep
    \/ ClusterStep

Spec == Init /\ [][Next]_vars

-----------------------------------------------------------------------------
(* Fairness *)

Worker == Changed \/ Update \/ Record \/ Removed

\* The steps in which something fails that need not have failed, as opposed to
\* a write through an old copy or a request to a busy cluster.
Fault ==
    \/ CredentialFails
    \/ CallFails /\ \/ pc = "list"
                    \/ pc = "create" /\ gke.status = "ABSENT"
                    \/ pc = "get" /\ gke.status # "ABSENT"
    \/ CreateAnswerLost
    \/ SecretFails
    \/ \E s \in Settings : \/ UpdateFails(s) /\ Unoccupied
                           \/ UpdateFailsHalfway(s)
                           \/ UpdateRetried(s) /\ Unoccupied
    \/ "work" \notin stale /\ (StatusFails \/ RecordFails \/ AdoptFails \/ FinalizeFails)
    \/ StatusAnswerLost
    \/ RecordAnswerLost
    \/ ~timer /\ AdoptAnswerLost /\ err = NoError
    \/ ~timer /\ FinalizeAnswerLost
    \/ RemovalCredentialFails
    \/ DeleteGivesUp /\ (CanDelete \/ gke.status = "ABSENT")
    \/ DeleteAnswerLost
    \/ OperationFails
    \/ Crash

\* The worker, the informer, the timers and GKE go on, and from some point on
\* nothing fails.  Users and other tenants of GKE owe nothing.
Fairness ==
    /\ WF_vars(Worker)
    /\ WF_vars(StoreStep /\ Watch)
    /\ WF_vars(StoreStep /\ TimerFires)
    /\ WF_vars(ClusterStep /\ (Provisioned \/ ProvisionFails))
    /\ WF_vars(ClusterStep /\ OperationDone)
    /\ WF_vars(ClusterStep /\ Deleted)
    /\ <>[][~Fault]_vars

FairSpec == Spec /\ Fairness

-----------------------------------------------------------------------------
(* What makes the controller correct *)

\* OnGkeConfigRemoved goes on to RemoveCluster only for a config whose own
\* ClusterCreate GKE has accepted: never for an imported one, and never for
\* one that only found a cluster under its name.
DeletesOnlyWhatItCreated == pc = "delete" => created /\ ~work.imported

\* Why that is so, inductively: every copy of a config that is neither imported
\* nor in its first phase stands for a cluster of its own, and the worker takes
\* no copy elsewhere than its phase allows.
HasOwnCluster(config) == config.imported \/ config.phase = "notCreated" \/ created

Ownership ==
    /\ HasOwnCluster(store)
    /\ HasOwnCluster(cache)
    /\ HasOwnCluster(work)
    /\ pc \in {"secret", "update"} => work.phase # "notCreated"
    /\ pc = "status" => work.imported \/ created
    /\ pc = "delete" => ~work.imported /\ work.phase # "notCreated"

\* A config is active or updating only once the secret with the CA and the
\* endpoint of its cluster exists.
ActiveHasSecret == store.phase \in {"active", "updating"} => secret # "none"

Upstream == gke.conf

Synced == Outdated(Revision[store.generation], Upstream) \subseteq {"kubernetesVersion"}

\* When updateUpstreamClusterState turns an updating config active, the cluster
\* has what the stored spec asks for, whatever was edited since the handler
\* read its copy, and but for a version that GKE raises by itself.
SettledMeansSynced ==
    [][store.phase = "updating" /\ store'.phase = "active" => Synced]_vars

\* Nothing is forgotten: when no step is left to come (no event, no queued key,
\* no timer), the config is gone, or it is active and the cluster has what the
\* stored spec asks for.
Quiet == pc = "idle" /\ "cache" \notin stale /\ ~queued /\ ~timer

QuietMeansSettled ==
    Quiet => \/ store.lifecycle = "gone"
             \/ /\ store.lifecycle = "live"
                /\ store.phase = "active"
                /\ Synced

\* The add-on for network policies is switched off only after the network
\* policy itself, on whichever path updateUpstreamClusterState gets there.
AddonOutlivesPolicy ==
    [][gke.status = "RECONCILING"
          /\ Upstream["clusterAddons"] # 0 /\ gke'.conf["clusterAddons"] = 0
        => Upstream["networkPolicy"] = 0]_vars

\* The controller implements the lifecycle a config is promised.
OwnCluster ==
    IF ~created THEN "none"
    ELSE IF gke.owner = "operator" /\ gke.status # "STOPPING" THEN "kept"
    ELSE "givenUp"

Lifecycle == INSTANCE ConfigLifecycle WITH
    imported <- store.imported, lifecycle <- store.lifecycle,
    phase <- store.phase, cluster <- OwnCluster

ImplementsLifecycle == Lifecycle!Spec

\* The reasons for which a live config may never get to active: nothing to
\* import, a cluster of the same name in its way, a failed creation, or a
\* control plane that has overtaken the version the spec asks for.
Excused ==
    \/ store.imported /\ gke.status \in {"ABSENT", "STOPPING"}
    \/ ~store.imported /\ store.phase = "notCreated" /\ gke.status # "ABSENT"
    \/ gke.status = "ERROR"
    \/ VersionBlocked(Revision[store.generation], gke.conf)

\* A config that is neither deleted nor excused becomes active with its cluster
\* in sync, again and again whatever is edited.
Converges ==
    []<>(\/ store.lifecycle # "live"
         \/ Excused
         \/ store.phase = "active" /\ Synced)

\* A config under deletion goes in the end, its cluster busy or not.
Released == store.lifecycle = "deleting" ~> store.lifecycle = "gone"

-----------------------------------------------------------------------------
(* What the comments of the code say and the code does not do *)

\* "The most likely context here is that the cluster already existed in GKE,
\* so we shouldn't delete it": a config removed before it got to creating has
\* no cluster of its own.
SkipsOnlyForeignClusters == pc = "finalize" /\ work.phase = "notCreated" => ~created

\* "If there is no error, then empty string will be written to status": a config
\* whose last pass went through does not go on showing a failure.
FailureCleared == Quiet /\ store.phase = "active" => store.failure = NoError

\* "creates a Secret containing the cluster's CA and endpoint retrieved from the
\* cluster object": there is such a secret when a config first becomes active.
ActiveHasOwnSecret == store.phase = "active" => secret = "own"
=============================================================================
