------------------------- MODULE ConfigSettlingProofs -------------------------
(***************************************************************************)
(* For every value of the constants: a config is active only with a        *)
(* secret, becomes active again only when its cluster has what the stored  *)
(* spec asks for, and is not left behind by the queue, the timers and the  *)
(* informer before that.                                                   *)
(***************************************************************************)
EXTENDS ConfigControllerProofs

-----------------------------------------------------------------------------
(* The copies of the config *)

\* The calls of OnGkeConfigChanged and of OnGkeConfigRemoved.
ChangedCalls == {"changed", "list", "create", "get", "secret", "update", "status", "record",
                 "adopt"}

RemovedCalls == {"removed", "delete", "finalize"}

\* A copy that is not out of date is the stored object; a deletion is seen by the
\* API server first, then by the informer, then by the worker; and each handler
\* works on what it is for.
CopiesInv ==
    /\ "cache" \notin stale => cache = store
    /\ "work" \notin stale => work = store
    /\ pc \in ChangedCalls => work.lifecycle = "live"
    /\ pc \in RemovedCalls => work.lifecycle = "deleting"
    /\ work.lifecycle # "live" => cache.lifecycle # "live"
    /\ cache.lifecycle # "live" => store.lifecycle # "live"

LEMMA InitCopies ==
    ASSUME Init
    PROVE  CopiesInv
BY DEF Init, StoreInit, NewConfig, CopiesInv, ChangedCalls, RemovedCalls

\* A step of the worker that leaves all copies alone.
LEMMA CopiesUntouched ==
    ASSUME CopiesInv, UNCHANGED << store, cache, work >>, stale \subseteq stale',
           pc' \in ChangedCalls => pc \in ChangedCalls,
           pc' \in RemovedCalls => pc \in RemovedCalls
    PROVE  CopiesInv'
BY DEF CopiesInv

\* Once the worker lets go of the config, its copy says nothing.
LEMMA CopiesReleased ==
    ASSUME CopiesInv, Release, cache' = cache, "work" \in stale',
           \/ UNCHANGED store /\ stale \subseteq stale'
           \/ "cache" \in stale' /\ (cache.lifecycle # "live" => store'.lifecycle # "live")
    PROVE  CopiesInv'
BY DEF CopiesInv, Release, NewConfig, ChangedCalls, RemovedCalls

LEMMA ChangedCopies ==
    ASSUME TypeOK, CopiesInv, Changed
    PROVE  CopiesInv'
<1> USE DEF ChangedCalls, RemovedCalls
<1>1. CASE TakeKey
  BY <1>1 DEF TakeKey, Environment, CopiesInv, TypeOK, StoreTypeOK, Configs, Lifecycles
<1>2. CASE DropKey
  BY <1>2, CopiesUntouched DEF DropKey, workerVars
<1>3. CASE CredentialFails
  BY <1>3, CopiesUntouched DEF CredentialFails, Return, storeVars
<1>4. CASE Dispatch
  BY <1>4, CopiesUntouched DEF Dispatch, Goto, Intend, storeVars
<1>5. CASE CallFails
  BY <1>5, CopiesUntouched DEF CallFails, Return, storeVars
<1>6. CASE ClusterListed
  BY <1>6, CopiesUntouched DEF ClusterListed, Goto, Return, storeVars
<1>7. CASE CreateAccepted
  BY <1>7, CopiesUntouched DEF CreateAccepted, Intend, storeVars
<1>8. CASE CreateAnswerLost
  BY <1>8, CopiesUntouched DEF CreateAnswerLost, Return, storeVars
<1>9. CASE ImportCluster
  BY <1>9, CopiesUntouched DEF ImportCluster, Goto, storeVars
<1>10. CASE WaitForCreationComplete
  BY <1>10, CopiesUntouched
     DEF WaitForCreationComplete, UpdateConfigStatus, Goto, Return, Intend, storeVars
<1>11. CASE CheckWaits
  BY <1>11, CopiesUntouched DEF CheckWaits, UpdateConfigStatus, Return, Intend, storeVars
<1>12. CASE CheckUpdates
  BY <1>12, CopiesUntouched DEF CheckUpdates, storeVars
<1>13. CASE SecretCreated
  BY <1>13, CopiesUntouched DEF SecretCreated, Intend, storeVars
<1>14. CASE SecretFails
  BY <1>14, CopiesUntouched DEF SecretFails, Return, storeVars
<1> QED BY <1>1, <1>2, <1>3, <1>4, <1>5, <1>6, <1>7, <1>8, <1>9, <1>10, <1>11,
           <1>12, <1>13, <1>14 DEF Changed

LEMMA UpdateCopies ==
    ASSUME CopiesInv, Update
    PROVE  CopiesInv'
<1> USE DEF ChangedCalls, RemovedCalls
<1>1. UNCHANGED << store, cache, stale, work >>
  BY DEF Update, VersionRejected, UpdateAccepted, UpdateFails, UpdateFailsHalfway,
         UpdateRetried, NothingToUpdate, EnqueueUpdate, UpdateConfigStatus, Return, Intend,
         storeVars
<1>2. pc \in ChangedCalls /\ pc' \in {"status", "record"}
  BY DEF Update, VersionRejected, UpdateAccepted, UpdateFails, UpdateFailsHalfway,
         UpdateRetried, NothingToUpdate, EnqueueUpdate, UpdateConfigStatus, Return, Intend,
         Updates
<1> QED BY <1>1, <1>2, CopiesUntouched

\* What recordError and UpdateStatus write is live if the worker's copy is.
LEMMA WritesLive ==
    ASSUME TypeOK
    PROVE  /\ Recorded.lifecycle = work.lifecycle
           /\ [work EXCEPT !.phase = intent.phase, !.message = intent.message].lifecycle
                = work.lifecycle
           /\ [work EXCEPT !.finalizer = TRUE].lifecycle = work.lifecycle
BY DEF Recorded, TypeOK, WorkerTypeOK, Configs

LEMMA RecordCopies ==
    ASSUME TypeOK, CopiesInv, Record
    PROVE  CopiesInv'
<1> USE DEF ChangedCalls, RemovedCalls
<1>1. CASE StatusWritten
  BY <1>1, WritesLive DEF StatusWritten, Write, Copies, CopiesInv
<1>9. CASE StatusAnswerLost \/ RecordAnswerLost
  BY <1>9, WritesLive DEF StatusAnswerLost, RecordAnswerLost, Write, Goto, Copies, CopiesInv
<1>2. CASE StatusFails
  BY <1>2, CopiesUntouched DEF StatusFails, storeVars
<1>3. CASE RecordUnchanged
  BY <1>3, CopiesUntouched DEF RecordUnchanged, Goto, storeVars
<1>4. CASE RecordWritten
  BY <1>4, WritesLive DEF RecordWritten, Write, Copies, CopiesInv
<1>5. CASE RecordFails
  BY <1>5, CopiesUntouched DEF RecordFails, Goto
<1>6. CASE Adopted \/ AdoptAnswerLost
  BY <1>6, CopiesReleased, WritesLive
     DEF Adopted, AdoptAnswerLost, FinishWith, Copies, CopiesInv
<1>7. CASE AdoptFails
  BY <1>7, CopiesReleased DEF AdoptFails, Finish
<1>8. CASE PassEnds
  BY <1>8, CopiesReleased DEF PassEnds, Finish
<1> QED BY <1>1, <1>2, <1>3, <1>4, <1>5, <1>6, <1>7, <1>8, <1>9 DEF Record

LEMMA RemovedCopies ==
    ASSUME TypeOK, CopiesInv, Removed
    PROVE  CopiesInv'
<1> USE DEF ChangedCalls, RemovedCalls
<1>1. CASE DeletionSkipped \/ DeletionBegins \/ DeleteAccepted \/ DeleteNotFound
  BY <1>1, CopiesUntouched
     DEF DeletionSkipped, DeletionBegins, DeleteAccepted, DeleteNotFound, Goto, storeVars
<1>2. CASE RemovalCredentialFails \/ DeleteGivesUp \/ DeleteAnswerLost \/ FinalizeFails
  <2>1. Finish(TRUE)
    BY <1>2 DEF RemovalCredentialFails, DeleteGivesUp, DeleteAnswerLost, FinalizeFails
  <2> QED BY <2>1, CopiesReleased DEF Finish
<1>3. CASE Finalized \/ FinalizeAnswerLost
  <2>1. [work EXCEPT !.lifecycle = "gone"].lifecycle = "gone"
    BY DEF TypeOK, WorkerTypeOK, Configs
  <2> QED BY <1>3, <2>1, CopiesReleased
          DEF Finalized, FinalizeAnswerLost, FinishWith, Copies
<1> QED BY <1>1, <1>2, <1>3 DEF Removed

LEMMA StoreCopies ==
    ASSUME TypeOK, CopiesInv, StoreStep
    PROVE  CopiesInv'
<1>1. CASE Watch
  BY <1>1 DEF Watch, StoreStep, workerVars, CopiesInv
<1>2. CASE TimerFires
  BY <1>2 DEF TimerFires, StoreStep, workerVars, CopiesInv
<1>3. CASE Edit \/ RequestDelete
  <2>1. store.lifecycle # "live" => store'.lifecycle # "live"
    BY <1>3 DEF Edit, RequestDelete, Write, TypeOK, StoreTypeOK, Configs
  <2>2. stale' = Copies /\ cache' = cache
    BY <1>3 DEF Edit, RequestDelete, Write, Copies
  <2> QED BY <2>1, <2>2 DEF StoreStep, workerVars, CopiesInv, Copies
<1> QED BY <1>1, <1>2, <1>3 DEF StoreStep, StoreNext

LEMMA CopiesStep ==
    ASSUME TypeOK, CopiesInv, [Next]_vars
    PROVE  CopiesInv'
<1>1. CASE Crash
  BY <1>1 DEF Crash, Relist, Release, NewConfig, CopiesInv, ChangedCalls, RemovedCalls
<1>2. CASE SecretCollected \/ ClusterStep \/ UNCHANGED vars
  BY <1>2, CopiesUntouched DEF SecretCollected, ClusterStep, vars, storeVars, workerVars
<1> QED BY <1>1, <1>2, ChangedCopies, UpdateCopies, RecordCopies, RemovedCopies,
           StoreCopies DEF Next

-----------------------------------------------------------------------------
(* The stored object *)

\* The steps that leave the stored object as it is.
LEMMA StoreStays ==
    ASSUME \/ Changed \/ Update \/ Crash \/ SecretCollected \/ ClusterStep \/ UNCHANGED vars
           \/ StatusFails \/ RecordUnchanged \/ RecordFails \/ AdoptFails \/ PassEnds
           \/ RemovalCredentialFails \/ DeletionSkipped \/ DeletionBegins \/ DeleteAccepted
           \/ DeleteNotFound \/ DeleteGivesUp \/ DeleteAnswerLost \/ FinalizeFails
           \/ Watch \/ TimerFires
    PROVE  store' = store
<1>1. CASE Changed
  BY <1>1 DEF Changed, TakeKey, DropKey, CredentialFails, Dispatch, CallFails, ClusterListed,
              CreateAccepted, CreateAnswerLost, ImportCluster, WaitForCreationComplete,
              CheckWaits, CheckUpdates, SecretCreated, SecretFails, UpdateConfigStatus,
              storeVars
<1>2. CASE Update
  BY <1>2 DEF Update, VersionRejected, UpdateAccepted, UpdateFails, UpdateFailsHalfway,
              UpdateRetried, NothingToUpdate, EnqueueUpdate, UpdateConfigStatus, storeVars
<1>3. CASE \/ Crash \/ SecretCollected \/ ClusterStep \/ UNCHANGED vars \/ Watch \/ TimerFires
  BY <1>3 DEF Crash, Relist, SecretCollected, ClusterStep, vars, storeVars, Watch, TimerFires
<1>4. CASE StatusFails \/ RecordUnchanged \/ RecordFails \/ AdoptFails \/ PassEnds
  BY <1>4 DEF StatusFails, RecordUnchanged, RecordFails, AdoptFails, PassEnds, Finish,
              storeVars
<1>5. CASE \/ RemovalCredentialFails \/ DeletionSkipped \/ DeletionBegins \/ DeleteAccepted
           \/ DeleteNotFound \/ DeleteGivesUp \/ DeleteAnswerLost \/ FinalizeFails
  BY <1>5 DEF RemovalCredentialFails, DeletionSkipped, DeletionBegins, DeleteAccepted,
              DeleteNotFound, DeleteGivesUp, DeleteAnswerLost, FinalizeFails, Finish,
              storeVars
<1> QED BY <1>1, <1>2, <1>3, <1>4, <1>5

\* The worker writes the object it holds, and only if that is the stored one.
StatusMove ==
    /\ StatusWritten \/ StatusAnswerLost
    /\ store = work /\ store.lifecycle = "live"
    /\ store' = [store EXCEPT !.phase = intent.phase, !.message = intent.message]

RecordMove ==
    /\ RecordWritten \/ RecordAnswerLost
    /\ store = work /\ store.lifecycle = "live"
    /\ store' = [store EXCEPT !.failure = err,
                              !.phase = IF err # NoError /\ @ = "active" THEN "updating" ELSE @]

AdoptMove ==
    /\ Adopted \/ AdoptAnswerLost
    /\ store.lifecycle = "live"
    /\ store' = [store EXCEPT !.finalizer = TRUE]

FinalMove ==
    /\ Finalized \/ FinalizeAnswerLost
    /\ store = work /\ store.lifecycle = "deleting"
    /\ store' = [store EXCEPT !.lifecycle = "gone"]

UserMove == StoreStep /\ (Edit \/ RequestDelete)

LEMMA StoreMoves ==
    ASSUME CopiesInv, [Next]_vars
    PROVE  \/ store' = store
           \/ StatusMove
           \/ RecordMove
           \/ AdoptMove
           \/ FinalMove
           \/ UserMove
<1>1. CASE StatusWritten \/ StatusAnswerLost
  BY <1>1 DEF StatusWritten, StatusAnswerLost, Write, CopiesInv, ChangedCalls, StatusMove
<1>2. CASE RecordWritten \/ RecordAnswerLost
  BY <1>2 DEF RecordWritten, RecordAnswerLost, Recorded, Write, CopiesInv, ChangedCalls,
              RecordMove
<1>3. CASE Adopted \/ AdoptAnswerLost
  BY <1>3 DEF Adopted, AdoptAnswerLost, FinishWith, CopiesInv, ChangedCalls, AdoptMove
<1>4. CASE Finalized \/ FinalizeAnswerLost
  BY <1>4 DEF Finalized, FinalizeAnswerLost, FinishWith, CopiesInv, RemovedCalls, FinalMove
<1>5. CASE StoreStep
  BY <1>5, StoreStays DEF StoreStep, StoreNext, UserMove
<1> QED BY <1>1, <1>2, <1>3, <1>4, <1>5, StoreStays DEF Next, Record, Removed

\* Nothing but UpdateStatus and recordError changes the phase, only a live config has
\* its phase changed, and a config under deletion does not live again.
LEMMA StoreLaws ==
    ASSUME TypeOK, CopiesInv, [Next]_vars
    PROVE  /\ store'.imported = store.imported
           /\ store.lifecycle # "live" =>
                store'.lifecycle # "live" /\ store'.phase = store.phase
           /\ store'.phase # store.phase => StatusMove \/ RecordMove
           /\ store.lifecycle = "gone" => store' = store
<1> USE DEF TypeOK, StoreTypeOK, Configs
<1>1. CASE StatusMove
  BY <1>1 DEF StatusMove
<1>2. CASE RecordMove
  BY <1>2 DEF RecordMove
<1>3. CASE AdoptMove
  BY <1>3 DEF AdoptMove
<1>4. CASE FinalMove
  BY <1>4 DEF FinalMove
<1>5. CASE UserMove
  BY <1>5 DEF UserMove, Edit, RequestDelete, Write
<1> QED BY <1>1, <1>2, <1>3, <1>4, <1>5, StoreMoves

-----------------------------------------------------------------------------
(* What the calls of a pass are made for *)

\* The phase of the worker's copy at each call, and the change of phase that an
\* UpdateStatus is made for.
PhaseSteps(imported) ==
    {<< "notCreated", IF imported THEN "importing" ELSE "creating" >>,
     << "importing", "active" >>, << "creating", "creating" >>, << "creating", "active" >>,
     << "active", "updating" >>, << "updating", "updating" >>, << "updating", "active" >>}

CallsInv ==
    /\ pc \in {"list", "create"} => work.phase = "notCreated" /\ ~work.imported
    /\ pc = "secret" => work.phase \in {"importing", "creating"}
    /\ pc = "update" => work.phase \in {"active", "updating"}
    /\ pc = "status" => << work.phase, intent.phase >> \in PhaseSteps(work.imported)

LEMMA CallsStep ==
    ASSUME TypeOK, CallsInv, [Next]_vars
    PROVE  CallsInv'
<1> USE DEF CallsInv, PhaseSteps
<1>1. CASE Changed
  BY <1>1 DEF Changed, TakeKey, DropKey, CredentialFails, Dispatch, CallFails, ClusterListed,
              CreateAccepted, CreateAnswerLost, ImportCluster, WaitForCreationComplete,
              CheckWaits, CheckUpdates, SecretCreated, SecretFails, UpdateConfigStatus,
              Goto, Return, Intend, workerVars
<1>2. CASE Update
  BY <1>2 DEF Update, VersionRejected, UpdateAccepted, UpdateFails, UpdateFailsHalfway,
              UpdateRetried, NothingToUpdate, EnqueueUpdate, UpdateConfigStatus, Updates,
              Return, Intend
<1>3. CASE Record
  BY <1>3 DEF Record, StatusWritten, StatusAnswerLost, StatusFails, RecordUnchanged,
              RecordWritten, RecordAnswerLost, RecordFails, Adopted, AdoptAnswerLost,
              AdoptFails, PassEnds, Goto, Finish, FinishWith, Release
<1>4. CASE Removed
  BY <1>4 DEF Removed, RemovalCredentialFails, DeletionSkipped, DeletionBegins, DeleteAccepted,
              DeleteNotFound, DeleteGivesUp, DeleteAnswerLost, Finalized, FinalizeAnswerLost,
              FinalizeFails, Goto, Finish, FinishWith, Release
<1>5. CASE Crash
  BY <1>5 DEF Crash, Release
<1>6. CASE SecretCollected \/ StoreStep \/ ClusterStep \/ UNCHANGED vars
  BY <1>6 DEF SecretCollected, StoreStep, ClusterStep, vars, workerVars
<1> QED BY <1>1, <1>2, <1>3, <1>4, <1>5, <1>6 DEF Next

LEMMA InitCalls ==
    ASSUME Init
    PROVE  CallsInv
BY DEF Init, CallsInv

-----------------------------------------------------------------------------
(* The cluster *)

\* GKE works on one thing at a time, shows it in the status unless it is a node
\* pool, and is asked to delete only for a config under deletion.
ClusterInv ==
    /\ gke.operation # NoOperation =>
            \/ gke.status = "RECONCILING"
            \/ gke.status = "RUNNING" /\ gke.operation = "nodePools"
    /\ gke.status = "STOPPING" => store.lifecycle # "live"
    /\ gke.status = "ABSENT" => gke.owner = "nobody"

LEMMA InitCluster ==
    ASSUME Init
    PROVE  ClusterInv
<1>1. CASE gke = Absent
  BY <1>1 DEF Absent, ClusterInv
<1>2. CASE gke = [Absent EXCEPT !.status = "RUNNING", !.owner = "others"]
  BY <1>2 DEF Absent, ClusterInv
<1> QED BY <1>1, <1>2 DEF Init, ClusterInit

\* The steps of the worker that ask GKE for something.
Requests ==
    \/ CreateAccepted \/ CreateAnswerLost
    \/ \E s \in Settings : UpdateAccepted(s) \/ UpdateFailsHalfway(s)
    \/ DeleteAccepted \/ DeleteAnswerLost

LEMMA ClusterMoves ==
    ASSUME [Next]_vars
    PROVE  \/ gke' = gke /\ created' = created
           \/ ClusterStep
           \/ Requests
<1>1. CASE Changed
  BY <1>1 DEF Changed, TakeKey, DropKey, CredentialFails, Dispatch, CallFails, ClusterListed,
              ImportCluster, WaitForCreationComplete, CheckWaits, CheckUpdates, SecretCreated,
              SecretFails, Environment, Requests
<1>2. CASE Update
  BY <1>2 DEF Update, VersionRejected, UpdateFails, UpdateRetried, NothingToUpdate,
              Environment, Requests
<1>3. CASE Record
  BY <1>3 DEF Record, StatusWritten, StatusAnswerLost, StatusFails, RecordUnchanged,
              RecordWritten, RecordAnswerLost, RecordFails, Adopted, AdoptAnswerLost,
              AdoptFails, PassEnds, Environment
<1>4. CASE Removed
  BY <1>4 DEF Removed, RemovalCredentialFails, DeletionSkipped, DeletionBegins,
              DeleteNotFound, DeleteGivesUp, Finalized, FinalizeAnswerLost, FinalizeFails,
              Environment, Requests
<1>5. CASE Crash \/ SecretCollected \/ StoreStep \/ UNCHANGED vars
  BY <1>5 DEF Crash, SecretCollected, StoreStep, vars, Environment
<1> QED BY <1>1, <1>2, <1>3, <1>4, <1>5 DEF Next

\* What GKE does by itself to a cluster.
LEMMA ClusterLaws ==
    ASSUME ClusterTypeOK, ClusterInv, ClusterNext
    PROVE  /\ gke.status # "STOPPING" => gke'.status # "STOPPING"
           /\ gke.status # "ABSENT" /\ gke.status # "STOPPING" =>
                gke'.status # "ABSENT" /\ gke'.owner = gke.owner
           /\ gke.status = "STOPPING" => gke'.status = "ABSENT"
           /\ gke.status = "ABSENT" => gke'.owner = "others" /\ gke'.status = "RUNNING"
           /\ gke'.operation # NoOperation =>
                \/ gke'.status = "RECONCILING"
                \/ gke'.status = "RUNNING" /\ gke'.operation = "nodePools"
           /\ gke'.status = "ABSENT" => gke'.owner = "nobody"
<1> USE DEF ClusterTypeOK, Clusters, ClusterInv
<1>1. CASE Provisioned
  BY <1>1 DEF Provisioned
<1>2. CASE ProvisionFails
  BY <1>2 DEF ProvisionFails
<1>3. CASE OperationDone
  <2>1. gke' = [Ended(gke) EXCEPT !.conf = gke'.conf]
    BY <1>3 DEF OperationDone, Ended
  <2>2. gke'.status = "RUNNING" /\ gke'.operation = NoOperation /\ gke'.owner = gke.owner
    BY <2>1 DEF Ended
  <2> QED BY <1>3, <2>2 DEF OperationDone
<1>4. CASE OperationFails
  BY <1>4 DEF OperationFails, Ended
<1>5. CASE Deleted
  BY <1>5 DEF Deleted, Absent
<1>6. CASE AutoUpgrade
  BY <1>6 DEF AutoUpgrade, Unoccupied
<1>7. CASE OthersCreate
  BY <1>7 DEF OthersCreate, Absent
<1> QED BY <1>1, <1>2, <1>3, <1>4, <1>5, <1>6, <1>7 DEF ClusterNext

LEMMA ClusterInvStep ==
    ASSUME TypeOK, CopiesInv, ClusterInv, [Next]_vars
    PROVE  ClusterInv'
<1>1. store.lifecycle # "live" => store'.lifecycle # "live"
  BY StoreLaws
<1>2. CASE gke' = gke
  BY <1>1, <1>2 DEF ClusterInv
<1>3. CASE ClusterStep
  BY <1>1, <1>3, ClusterLaws DEF ClusterStep, ClusterInv, TypeOK
<1>4. CASE CreateAccepted \/ CreateAnswerLost
  <2>1. gke'.status = "PROVISIONING" /\ gke'.operation = NoOperation
    BY <1>4 DEF CreateAccepted, CreateAnswerLost, ClusterCreate, Absent
  <2> QED BY <2>1 DEF ClusterInv
<1>5. ASSUME NEW s \in Settings, UpdateAccepted(s) \/ UpdateFailsHalfway(s)
      PROVE  ClusterInv'
  <2>1. gke' = [gke EXCEPT !.status = IF s = "nodePools" THEN "RUNNING" ELSE "RECONCILING",
                           !.operation = s, !.target = spec[s]]
    BY <1>5 DEF UpdateAccepted, UpdateFailsHalfway, StartOperation
  <2> QED BY <2>1 DEF ClusterInv, TypeOK, ClusterTypeOK, Clusters
<1>6. CASE DeleteAccepted \/ DeleteAnswerLost
  <2>1. store.lifecycle # "live"
    BY <1>6 DEF DeleteAccepted, DeleteAnswerLost, CopiesInv, RemovedCalls
  <2>2. CanDelete /\ gke' = [gke EXCEPT !.status = "STOPPING"]
    BY <1>6 DEF DeleteAccepted, DeleteAnswerLost, ClusterDelete
  <2>3. gke.operation = NoOperation
    BY <2>2 DEF CanDelete, Unoccupied, ClusterInv
  <2> QED BY <1>1, <2>1, <2>2, <2>3 DEF ClusterInv, TypeOK, ClusterTypeOK, Clusters
<1> QED BY <1>2, <1>3, <1>4, <1>5, <1>6, ClusterMoves DEF Requests

-----------------------------------------------------------------------------
(* The secret *)

HasSecret(config) == config.phase \in {"active", "updating"} => secret = "own"

\* No copy is active, and none is about to be, without a secret.
SecretInv ==
    /\ secret \in {"none", "own"}
    /\ HasSecret(store)
    /\ HasSecret(cache)
    /\ HasSecret(work)
    /\ pc = "status" /\ intent.phase \in {"active", "updating"} => secret = "own"

LEMMA InitSecret ==
    ASSUME LeftoverSecret = FALSE, Init
    PROVE  SecretInv
BY DEF Init, StoreInit, NewConfig, SecretInv, HasSecret

LEMMA SecretStep ==
    ASSUME TypeOK, CallsInv, SecretInv, [Next]_vars
    PROVE  SecretInv'
<1> USE DEF SecretInv, HasSecret
<1>1. CASE Changed
  BY <1>1 DEF Changed, TakeKey, DropKey, CredentialFails, Dispatch, CallFails, ClusterListed,
              CreateAccepted, CreateAnswerLost, ImportCluster, WaitForCreationComplete,
              CheckWaits, CheckUpdates, SecretCreated, SecretFails, UpdateConfigStatus,
              Goto, Return, Intend, storeVars, workerVars, Environment
<1>2. CASE Update
  <2>1. secret = "own"
    BY <1>2 DEF CallsInv, Update, VersionRejected, UpdateAccepted, UpdateFails,
                UpdateFailsHalfway, UpdateRetried, NothingToUpdate, Updates
  <2>2. UNCHANGED << store, cache, work, secret >>
    BY <1>2 DEF Update, VersionRejected, UpdateAccepted, UpdateFails, UpdateFailsHalfway,
                UpdateRetried, NothingToUpdate, EnqueueUpdate, UpdateConfigStatus, Return,
                Intend, storeVars, Environment
  <2> QED BY <2>1, <2>2
<1>3. CASE Record
  <2>1. secret' = secret /\ cache' = cache
    BY <1>3 DEF Record, StatusWritten, StatusAnswerLost, StatusFails, RecordUnchanged,
                RecordWritten, RecordAnswerLost, RecordFails, Adopted, AdoptAnswerLost,
                AdoptFails, PassEnds, Finish, FinishWith, storeVars, Environment
  <2>2. pc' # "status"
    BY <1>3 DEF Record, StatusWritten, StatusAnswerLost, StatusFails, RecordUnchanged,
                RecordWritten, RecordAnswerLost, RecordFails, Adopted, AdoptAnswerLost,
                AdoptFails, PassEnds, Goto, Finish, FinishWith, Release
  <2>3. CASE StatusWritten
    <3>1. work'.phase = intent.phase /\ store' = work'
      BY <2>3 DEF StatusWritten, Write, TypeOK, WorkerTypeOK, Configs
    <3> QED BY <2>1, <2>2, <2>3, <3>1 DEF StatusWritten
  <2>7. CASE StatusAnswerLost
    <3>1. work' = work /\ store'.phase = intent.phase
      BY <2>7 DEF StatusAnswerLost, Write, TypeOK, WorkerTypeOK, Configs
    <3> QED BY <2>1, <2>2, <2>7, <3>1 DEF StatusAnswerLost
  <2>8. CASE RecordAnswerLost
    <3>1. store'.phase \in {"active", "updating"} => work.phase \in {"active", "updating"}
      BY <2>8 DEF RecordAnswerLost, Recorded, Write, TypeOK, WorkerTypeOK, Configs
    <3>2. work' = work
      BY <2>8 DEF RecordAnswerLost, Goto
    <3> QED BY <2>1, <2>2, <3>1, <3>2
  <2>4. CASE RecordWritten
    <3>1. work'.phase \in {"active", "updating"} => work.phase \in {"active", "updating"}
      BY <2>4 DEF RecordWritten, Recorded, TypeOK, WorkerTypeOK, Configs
    <3>2. store' = work'
      BY <2>4 DEF RecordWritten, Write
    <3> QED BY <2>1, <2>2, <3>1, <3>2
  <2>5. CASE Adopted \/ AdoptAnswerLost
    <3>1. store'.phase = work.phase /\ work'.phase = "notCreated"
      BY <2>5 DEF Adopted, AdoptAnswerLost, FinishWith, Release, NewConfig, TypeOK,
                  WorkerTypeOK, Configs
    <3> QED BY <2>1, <2>2, <3>1
  <2>6. CASE StatusFails \/ RecordUnchanged \/ RecordFails \/ AdoptFails \/ PassEnds
    <3>1. store' = store
      BY <2>6, StoreStays
    <3>2. work' = work \/ work'.phase = "notCreated"
      BY <2>6 DEF StatusFails, RecordUnchanged, RecordFails, AdoptFails, PassEnds, Goto,
                  Finish, Release, NewConfig
    <3> QED BY <2>1, <2>2, <3>1, <3>2
  <2> QED BY <1>3, <2>3, <2>4, <2>5, <2>6, <2>7, <2>8 DEF Record
<1>4. CASE Removed
  <2>1. secret' = secret /\ cache' = cache /\ pc' # "status"
    BY <1>4 DEF Removed, RemovalCredentialFails, DeletionSkipped, DeletionBegins,
                DeleteAccepted, DeleteNotFound, DeleteGivesUp, DeleteAnswerLost, Finalized,
                FinalizeAnswerLost, FinalizeFails, Goto, Finish, FinishWith, Release,
                storeVars, Environment
  <2>2. work' = work \/ work'.phase = "notCreated"
    BY <1>4 DEF Removed, RemovalCredentialFails, DeletionSkipped, DeletionBegins,
                DeleteAccepted, DeleteNotFound, DeleteGivesUp, DeleteAnswerLost, Finalized,
                FinalizeAnswerLost, FinalizeFails, Goto, Finish, FinishWith, Release, NewConfig
  <2>3. store' = store \/ store'.phase = work.phase
    BY <1>4, StoreStays DEF Removed, Finalized, FinalizeAnswerLost, FinishWith, TypeOK,
                            WorkerTypeOK, Configs
  <2> QED BY <2>1, <2>2, <2>3
<1>5. CASE Crash
  BY <1>5 DEF Crash, Relist, Release, NewConfig
<1>6. CASE SecretCollected \/ ClusterStep \/ UNCHANGED vars
  BY <1>6 DEF SecretCollected, ClusterStep, vars, storeVars, workerVars
<1>7. CASE StoreStep
  <2>1. store'.phase = store.phase
    BY <1>7 DEF StoreStep, StoreNext, Watch, TimerFires, Edit, RequestDelete, Write,
                TypeOK, StoreTypeOK, Configs
  <2>2. cache' \in {cache, store}
    BY <1>7 DEF StoreStep, StoreNext, Watch, TimerFires, Edit, RequestDelete
  <2> QED BY <1>7, <2>1, <2>2 DEF StoreStep, workerVars, Environment
<1> QED BY <1>1, <1>2, <1>3, <1>4, <1>5, <1>6, <1>7 DEF Next

\* Where no secret of a predecessor is left behind, a config is active or updating
\* only once createCASecret has made its secret, whatever copies the worker acts on,
\* whichever writes fail and wherever the operator crashes.
THEOREM ActiveOnlyWithSecret ==
    ASSUME LeftoverSecret = FALSE
    PROVE  Spec => []ActiveHasSecret
<1> DEFINE Inv == TypeOK /\ CallsInv /\ SecretInv
<1>1. Init => Inv
  BY InitType, InitCalls, InitSecret
<1>2. Inv /\ [Next]_vars => Inv'
  BY TypeStep, CallsStep, SecretStep
<1>3. Inv => ActiveHasSecret
  BY DEF SecretInv, HasSecret, ActiveHasSecret
<1> QED BY <1>1, <1>2, <1>3, PTL DEF Spec

-----------------------------------------------------------------------------
(* What a pass has found out about the cluster *)

\* No operation of the operator is under way.
Undisturbed ==
    /\ gke.status # "ABSENT"
    /\ gke.operation \in {NoOperation, "kubernetesVersion"}

\* But for the version, which GKE raises by itself.
Agrees(conf) == \A s \in Settings \ {"kubernetesVersion"} : gke.conf[s] = conf[s]

Settled == Undisturbed /\ Synced

\* GKE by itself changes nothing but the version of a cluster nobody works on.
LEMMA ClusterKeeps ==
    ASSUME ClusterTypeOK, ClusterInv, Undisturbed, gke.status # "STOPPING", ClusterNext
    PROVE  Undisturbed' /\ \A s \in Settings \ {"kubernetesVersion"} : gke'.conf[s] = gke.conf[s]
<1> USE DEF ClusterTypeOK, Clusters, Undisturbed
<1>1. CASE Provisioned
  BY <1>1 DEF Provisioned
<1>2. CASE ProvisionFails
  BY <1>2 DEF ProvisionFails
<1>3. CASE OperationDone
  <2>1. gke.operation = "kubernetesVersion"
    BY <1>3 DEF OperationDone
  <2>2. gke'.conf = [gke.conf EXCEPT !["kubernetesVersion"] = gke.target]
    BY <1>3, <2>1 DEF OperationDone, Ended
  <2>3. gke'.status = "RUNNING" /\ gke'.operation = NoOperation
    BY <1>3 DEF OperationDone, Ended
  <2> QED BY <2>2, <2>3 DEF Confs
<1>4. CASE OperationFails
  BY <1>4 DEF OperationFails, Ended
<1>5. CASE Deleted
  BY <1>5 DEF Deleted
<1>6. CASE AutoUpgrade
  BY <1>6 DEF AutoUpgrade, Unoccupied
<1>7. CASE OthersCreate
  BY <1>7 DEF OthersCreate
<1> QED BY <1>1, <1>2, <1>3, <1>4, <1>5, <1>6, <1>7 DEF ClusterNext

LEMMA SettledStays ==
    ASSUME TypeOK, ClusterInv, Settled, store.lifecycle = "live", store' = store,
           gke' = gke \/ ClusterNext
    PROVE  Settled'
<1>1. gke.status # "STOPPING"
  BY DEF ClusterInv
<1>2. Undisturbed' /\ \A s \in Settings \ {"kubernetesVersion"} : gke'.conf[s] = gke.conf[s]
  BY <1>1, ClusterKeeps DEF Settled, TypeOK, Undisturbed
<1>3. Synced'
  BY <1>2 DEF Settled, Synced, Upstream, Outdated
<1> QED BY <1>2, <1>3 DEF Settled

\* The settings are numbered from 1 to 10.
LEMMA RankType ==
    ASSUME NEW s \in Settings
    PROVE  Rank(s) \in 1 .. 10
<1>1. PICK i \in 1 .. Len(UpdateOrder) : UpdateOrder[i] = s
  BY DEF Settings
<1>2. Rank(s) \in 1 .. Len(UpdateOrder)
  BY <1>1 DEF Rank
<1> QED BY <1>2 DEF UpdateOrder

\* Among settings there is one that comes first.
LEMMA FirstSetting ==
    ASSUME NEW S \in SUBSET Settings, S # {}
    PROVE  \E s \in S : \A t \in S : Rank(s) <= Rank(t)
<1> SUFFICES ASSUME \A s \in S : \E t \in S : Rank(t) < Rank(s) PROVE FALSE
  BY RankType
<1>1. \A s \in S : Rank(s) \in 1 .. 10
  BY RankType
<1>2. \A s \in S : Rank(s) > 4
  BY <1>1
<1>3. \A s \in S : Rank(s) > 8
  BY <1>1, <1>2
<1>4. \A s \in S : Rank(s) > 10
  BY <1>1, <1>3
<1>5. PICK s \in S : TRUE
  OBVIOUS
<1> QED BY <1>1, <1>4, <1>5

\* A pass that finds nothing to update has found the cluster in sync: that the add-on
\* waits for the policy means that the policy itself is out of date.
LEMMA NothingLeft ==
    ASSUME NEW sp \in Specs, NEW conf \in Confs, NextSettings(sp, conf) = {}
    PROVE  Outdated(sp, conf) = {}
<1>1. Ready(sp, conf) \in SUBSET Settings
  BY DEF Ready, Outdated
<1>2. Ready(sp, conf) = {}
  BY <1>1, FirstSetting DEF NextSettings
<1>3. CASE AddonsMustWait(sp, conf)
  <2>1. "networkPolicy" \in Settings
    BY DEF Settings, UpdateOrder
  <2>2. "networkPolicy" \in Outdated(sp, conf)
    BY <1>3, <2>1 DEF AddonsMustWait, Outdated, Unset
  <2> QED BY <1>2, <1>3, <2>2 DEF Ready
<1> QED BY <1>2, <1>3 DEF Ready

-----------------------------------------------------------------------------
(* What is left to come *)

\* A key that is queued, a timer, or an event on its way.
Pending == queued \/ timer \/ "cache" \in stale

\* A worker whose copy is out of date has another pass to come, and so has one that
\* has written a status.
PendingInv ==
    /\ pc # "idle" /\ "work" \in stale => Pending
    /\ pc \notin {"status", "record", "adopt"} => intent = NoIntent
    /\ pc = "record" /\ intent # NoIntent => Pending

LEMMA InitPending ==
    ASSUME Init
    PROVE  PendingInv
BY DEF Init, PendingInv

\* Only a worker that takes the key clears what is pending.
LEMMA PendingStays ==
    ASSUME [Next]_vars, Pending
    PROVE  TakeKey \/ DropKey \/ Pending'
<1> USE DEF Pending
<1>1. CASE Changed
  BY <1>1 DEF Changed, CredentialFails, Dispatch, CallFails, ClusterListed,
              CreateAccepted, CreateAnswerLost, ImportCluster, WaitForCreationComplete,
              CheckWaits, CheckUpdates, SecretCreated, SecretFails, UpdateConfigStatus,
              storeVars
<1>2. CASE Update
  BY <1>2 DEF Update, VersionRejected, UpdateAccepted, UpdateFails, UpdateFailsHalfway,
              UpdateRetried, NothingToUpdate, EnqueueUpdate, UpdateConfigStatus, storeVars
<1>3. CASE Record
  BY <1>3 DEF Record, StatusWritten, StatusAnswerLost, StatusFails, RecordUnchanged,
              RecordWritten, RecordAnswerLost, RecordFails, Adopted, AdoptAnswerLost,
              AdoptFails, PassEnds, Finish, FinishWith, Write, Copies, storeVars
<1>4. CASE Removed
  BY <1>4 DEF Removed, RemovalCredentialFails, DeletionSkipped, DeletionBegins, DeleteAccepted,
              DeleteNotFound, DeleteGivesUp, DeleteAnswerLost, Finalized, FinalizeAnswerLost,
              FinalizeFails, Finish, FinishWith, Copies, storeVars
<1>5. CASE Crash
  BY <1>5 DEF Crash, Relist
<1>6. CASE StoreStep
  BY <1>6 DEF StoreStep, StoreNext, Watch, TimerFires, Edit, RequestDelete, Write, Copies
<1>7. CASE SecretCollected \/ ClusterStep \/ UNCHANGED vars
  BY <1>7 DEF SecretCollected, ClusterStep, vars, storeVars
<1> QED BY <1>1, <1>2, <1>3, <1>4, <1>5, <1>6, <1>7 DEF Next

LEMMA PendingStep ==
    ASSUME TypeOK, PendingInv, [Next]_vars
    PROVE  PendingInv'
<1>1. pc' \notin {"status", "record", "adopt"} => intent' = NoIntent
  <2> USE DEF PendingInv
  <2>1. CASE Changed
    BY <2>1 DEF Changed, TakeKey, DropKey, CredentialFails, Dispatch, CallFails, ClusterListed,
                CreateAccepted, CreateAnswerLost, ImportCluster, WaitForCreationComplete,
                CheckWaits, CheckUpdates, SecretCreated, SecretFails, UpdateConfigStatus,
                Goto, Return, Intend, workerVars
  <2>2. CASE Update
    BY <2>2 DEF Update, VersionRejected, UpdateAccepted, UpdateFails, UpdateFailsHalfway,
                UpdateRetried, NothingToUpdate, EnqueueUpdate, UpdateConfigStatus, Updates,
                Return, Intend
  <2>3. CASE Record
    BY <2>3 DEF Record, StatusWritten, StatusAnswerLost, StatusFails, RecordUnchanged,
                RecordWritten, RecordAnswerLost, RecordFails, Adopted, AdoptAnswerLost,
                AdoptFails, PassEnds, Goto, Finish, FinishWith, Release
  <2>4. CASE Removed
    BY <2>4 DEF Removed, RemovalCredentialFails, DeletionSkipped, DeletionBegins,
                DeleteAccepted, DeleteNotFound, DeleteGivesUp, DeleteAnswerLost, Finalized,
                FinalizeAnswerLost, FinalizeFails, Goto, Finish, FinishWith, Release
  <2>5. CASE Crash
    BY <2>5 DEF Crash, Release
  <2>6. CASE SecretCollected \/ StoreStep \/ ClusterStep \/ UNCHANGED vars
    BY <2>6 DEF SecretCollected, StoreStep, ClusterStep, vars, workerVars
  <2> QED BY <2>1, <2>2, <2>3, <2>4, <2>5, <2>6 DEF Next
<1>2. pc' = "record" /\ intent' # NoIntent => Pending'
  <2>1. CASE pc = "record" /\ UNCHANGED << pc, intent >>
    <3>1. ~TakeKey /\ ~DropKey
      BY <2>1 DEF TakeKey, DropKey
    <3> QED BY <2>1, <3>1, PendingStays DEF PendingInv
  <2>2. CASE StatusWritten
    BY <2>2 DEF StatusWritten, Write, Copies, Pending
  <2>3. CASE Changed \/ Update
    <3>1. pc \notin {"status", "record", "adopt"} /\ (pc' = "record" => intent' = intent)
      BY <2>3 DEF Changed, TakeKey, DropKey, CredentialFails, Dispatch, CallFails,
                  ClusterListed, CreateAccepted, CreateAnswerLost, ImportCluster,
                  WaitForCreationComplete, CheckWaits, CheckUpdates, SecretCreated,
                  SecretFails, Update, VersionRejected, UpdateAccepted, UpdateFails,
                  UpdateFailsHalfway, UpdateRetried, NothingToUpdate, EnqueueUpdate,
                  UpdateConfigStatus, Updates, Goto, Return, Intend, workerVars
    <3> QED BY <3>1 DEF PendingInv
  <2>4. CASE SecretCollected \/ StoreStep \/ ClusterStep \/ UNCHANGED vars
    <3>1. UNCHANGED << pc, intent >>
      BY <2>4 DEF SecretCollected, StoreStep, ClusterStep, vars, workerVars
    <3> QED BY <2>1, <3>1
  <2>5. CASE \/ StatusAnswerLost \/ StatusFails
             \/ RecordUnchanged \/ RecordWritten \/ RecordAnswerLost \/ RecordFails
             \/ Adopted \/ AdoptAnswerLost \/ AdoptFails \/ PassEnds \/ Crash
    BY <2>5 DEF StatusAnswerLost, StatusFails, RecordUnchanged, RecordWritten,
                RecordAnswerLost, RecordFails, Adopted, AdoptAnswerLost, AdoptFails, PassEnds,
                Crash, Goto, Finish, FinishWith, Release
  <2>6. CASE Removed
    BY <2>6 DEF Removed, RemovalCredentialFails, DeletionSkipped, DeletionBegins,
                DeleteAccepted, DeleteNotFound, DeleteGivesUp, DeleteAnswerLost, Finalized,
                FinalizeAnswerLost, FinalizeFails, Goto, Finish, FinishWith, Release
  <2> QED BY <2>2, <2>3, <2>4, <2>5, <2>6 DEF Next, Record
<1>3. pc' # "idle" /\ "work" \in stale' => Pending'
  <2> SUFFICES ASSUME pc' # "idle", "work" \in stale' PROVE Pending'
    OBVIOUS
  <2>1. CASE TakeKey
    BY <2>1 DEF TakeKey, Pending
  <2>2. CASE pc # "idle" /\ "work" \in stale
    BY <2>2, PendingStays DEF PendingInv, TakeKey, DropKey
  <2>3. CASE RecordFails
    <3>1. CASE intent # NoIntent
      BY <2>3, <3>1, PendingStays DEF RecordFails, PendingInv, TakeKey, DropKey
    <3>2. CASE intent = NoIntent
      BY <2>3, <3>2, <2>2 DEF RecordFails
    <3> QED BY <3>1, <3>2
  <2>4. CASE UNCHANGED stale /\ pc # "idle"
    BY <2>4, <2>2
  <2>5. CASE Changed /\ ~TakeKey
    <3>1. UNCHANGED stale /\ (pc # "idle" \/ pc' = "idle")
      BY <2>5 DEF Changed, DropKey, CredentialFails, Dispatch, CallFails, ClusterListed,
                  CreateAccepted, CreateAnswerLost, ImportCluster, WaitForCreationComplete,
                  CheckWaits, CheckUpdates, SecretCreated, SecretFails, UpdateConfigStatus,
                  workerVars, storeVars
    <3> QED BY <2>4, <3>1
  <2>6. CASE Update
    <3>1. UNCHANGED stale /\ pc # "idle"
      BY <2>6 DEF Update, VersionRejected, UpdateAccepted, UpdateFails, UpdateFailsHalfway,
                  UpdateRetried, NothingToUpdate, EnqueueUpdate, UpdateConfigStatus, Updates,
                  storeVars
    <3> QED BY <2>4, <3>1
  <2>7. CASE Record /\ ~RecordFails
    <3>1. \/ UNCHANGED stale /\ pc # "idle"
          \/ "cache" \in stale'
      BY <2>7 DEF Record, StatusWritten, StatusAnswerLost, StatusFails, RecordUnchanged,
                  RecordWritten, RecordAnswerLost, Adopted, AdoptAnswerLost, AdoptFails,
                  PassEnds, Finish, FinishWith, Release, Write, Copies, storeVars
    <3> QED BY <2>4, <3>1 DEF Pending
  <2>8. CASE Removed
    <3>1. UNCHANGED stale /\ pc # "idle"
      BY <2>8 DEF Removed, RemovalCredentialFails, DeletionSkipped, DeletionBegins,
                  DeleteAccepted, DeleteNotFound, DeleteGivesUp, DeleteAnswerLost, Finalized,
                  FinalizeAnswerLost, FinalizeFails, Finish, FinishWith, Release, storeVars
    <3> QED BY <2>4, <3>1
  <2>9. CASE Crash
    BY <2>9 DEF Crash, Release
  <2>10. CASE StoreStep
    <3>1. Pending' \/ "work" \in stale
      BY <2>10 DEF StoreStep, StoreNext, Watch, TimerFires, Edit, RequestDelete, Write,
                   Copies, Pending
    <3>2. pc # "idle"
      BY <2>10 DEF StoreStep, workerVars
    <3> QED BY <2>2, <3>1, <3>2
  <2>11. CASE SecretCollected \/ ClusterStep \/ UNCHANGED vars
    <3>1. UNCHANGED stale /\ pc # "idle"
      BY <2>11 DEF SecretCollected, ClusterStep, vars, storeVars, workerVars
    <3> QED BY <2>4, <3>1
  <2> QED BY <2>1, <2>3, <2>5, <2>6, <2>7, <2>8, <2>9, <2>10, <2>11 DEF Next
<1> QED BY <1>1, <1>2, <1>3 DEF PendingInv

-----------------------------------------------------------------------------
(* Becoming active again *)

\* What was read of the cluster still holds while the object is the stored one, and
\* with it what a pass concludes from it.
LookedInv ==
    /\ pc = "update" /\ "work" \notin stale => Undisturbed /\ Agrees(snapshot.conf)
    /\ /\ pc = "status" /\ "work" \notin stale
       /\ intent.phase = "active" /\ work.phase = "updating"
       => Settled

LEMMA InitLooked ==
    ASSUME Init
    PROVE  LookedInv
BY DEF Init, LookedInv

\* Steps that are not the worker's.
Others == SecretCollected \/ StoreStep \/ ClusterStep \/ UNCHANGED vars

\* They leave the stored object alone if they leave the worker's copy up to date.
LEMMA OthersKeep ==
    ASSUME Others
    PROVE  /\ UNCHANGED workerVars
           /\ "work" \notin stale' => "work" \notin stale /\ store' = store
           /\ gke' = gke \/ ClusterNext
<1>1. CASE SecretCollected
  BY <1>1 DEF SecretCollected, storeVars
<1>2. CASE StoreStep
  BY <1>2 DEF StoreStep, StoreNext, Watch, TimerFires, Edit, RequestDelete, Write, Copies,
              Environment
<1>3. CASE ClusterStep
  BY <1>3 DEF ClusterStep, storeVars
<1>4. CASE UNCHANGED vars
  BY <1>4 DEF vars, storeVars
<1> QED BY <1>1, <1>2, <1>3, <1>4 DEF Others

\* A pass that finds nothing to update through an up-to-date copy.
LEMMA NothingMeansSettled ==
    ASSUME TypeOK, CopiesInv, LookedInv, NothingToUpdate, "work" \notin stale
    PROVE  Settled' /\ store' = store
<1>1. store = work /\ UNCHANGED << store, gke >>
  BY DEF CopiesInv, NothingToUpdate, storeVars, Environment
<1>2. Undisturbed /\ Agrees(snapshot.conf)
  BY DEF LookedInv, NothingToUpdate
<1>3. Outdated(spec, snapshot.conf) = {}
  BY NothingLeft, SpecOfWork DEF NothingToUpdate, TypeOK, WorkerTypeOK, Clusters
<1>4. \A s \in Settings \ {"kubernetesVersion"} : spec[s] \in {Unset, snapshot.conf[s]}
  BY <1>3 DEF Outdated
<1>5. \A s \in Settings \ {"kubernetesVersion"} : spec[s] \in {Unset, gke.conf[s]}
  BY <1>2, <1>4 DEF Agrees
<1>6. Outdated(Revision[store.generation], gke.conf) \subseteq {"kubernetesVersion"}
  BY <1>1, <1>5 DEF Outdated, spec
<1> QED BY <1>1, <1>2, <1>6 DEF Settled, Synced, Upstream, Undisturbed

\* The steps that lead to the calls in question.
LEMMA LookedMoves ==
    ASSUME TypeOK, CallsInv, [Next]_vars
    PROVE  /\ pc' = "update" => CheckUpdates \/ Others
           /\ pc' = "status" /\ intent'.phase = "active" /\ work'.phase = "updating"
                => NothingToUpdate \/ Others
<1>1. CASE Changed
  <2>1. pc' = "update" => CheckUpdates
    BY <1>1 DEF Changed, TakeKey, DropKey, CredentialFails, Dispatch, CallFails, ClusterListed,
                CreateAccepted, CreateAnswerLost, ImportCluster, WaitForCreationComplete,
                CheckWaits, SecretCreated, SecretFails, UpdateConfigStatus,
                Goto, Return, Intend, workerVars
  <2>2. pc' = "status" /\ intent'.phase = "active" => work'.phase \in {"importing", "creating"}
    BY <1>1 DEF Changed, TakeKey, DropKey, CredentialFails, Dispatch, CallFails, ClusterListed,
                CreateAccepted, CreateAnswerLost, ImportCluster, WaitForCreationComplete,
                CheckWaits, CheckUpdates, SecretCreated, SecretFails, UpdateConfigStatus,
                Goto, Return, Intend, workerVars, CallsInv
  <2> QED BY <2>1, <2>2
<1>2. CASE Update
  <2>1. ASSUME NEW s \in Settings,
               \/ UpdateAccepted(s) \/ UpdateFails(s) \/ UpdateFailsHalfway(s)
               \/ UpdateRetried(s)
        PROVE  pc' # "update" /\ ~(pc' = "status" /\ intent'.phase = "active")
    <3>1. \/ \E e \in {"upstream", NoError} : Return(e)
          \/ \E m \in Messages, again \in BOOLEAN : Intend("updating", m, again)
      <4>1. CASE UpdateAccepted(s)
        BY <4>1 DEF UpdateAccepted, EnqueueUpdate, Messages
      <4>2. CASE UpdateFails(s) \/ UpdateFailsHalfway(s)
        BY <4>2 DEF UpdateFails, UpdateFailsHalfway
      <4>3. CASE UpdateRetried(s)
        BY <4>3, NamedSettings DEF UpdateRetried, EnqueueUpdate, UpdateConfigStatus, Messages
      <4> QED BY <2>1, <4>1, <4>2, <4>3
    <3> QED BY <3>1 DEF Return, Intend
  <2>2. VersionRejected => pc' = "record"
    BY DEF VersionRejected, Return
  <2>3. NothingToUpdate => pc' # "update"
    BY DEF NothingToUpdate, Return, Intend
  <2> QED BY <1>2, <2>1, <2>2, <2>3 DEF Update
<1>3. CASE Record
  BY <1>3 DEF Record, StatusWritten, StatusAnswerLost, StatusFails, RecordUnchanged,
              RecordWritten, RecordAnswerLost, RecordFails, Adopted, AdoptAnswerLost,
              AdoptFails, PassEnds, Goto, Finish, FinishWith, Release
<1>4. CASE Removed
  BY <1>4 DEF Removed, RemovalCredentialFails, DeletionSkipped, DeletionBegins, DeleteAccepted,
              DeleteNotFound, DeleteGivesUp, DeleteAnswerLost, Finalized, FinalizeAnswerLost,
              FinalizeFails, Goto, Finish, FinishWith, Release
<1>5. CASE Crash
  BY <1>5 DEF Crash, Release
<1> QED BY <1>1, <1>2, <1>3, <1>4, <1>5 DEF Next, Others

LEMMA LookedStep ==
    ASSUME TypeOK, CopiesInv, CallsInv, ClusterInv, LookedInv, [Next]_vars
    PROVE  LookedInv'
<1>1. ASSUME pc' = "update", "work" \notin stale'
      PROVE  Undisturbed' /\ Agrees(snapshot.conf)'
  <2>1. CASE CheckUpdates
    <3>1. gke' = gke /\ snapshot' = gke
      BY <2>1 DEF CheckUpdates, Environment
    <3>2. gke.status # "ABSENT" /\ gke.operation = NoOperation
      BY <2>1 DEF CheckUpdates, NodePoolsBusy, ClusterInv
    <3> QED BY <3>1, <3>2 DEF Undisturbed, Agrees
  <2>2. CASE Others
    <3>1. /\ pc = "update" /\ snapshot' = snapshot
          /\ "work" \notin stale /\ store' = store
          /\ gke' = gke \/ ClusterNext
      BY <1>1, <2>2, OthersKeep DEF workerVars
    <3>2. Undisturbed /\ Agrees(snapshot.conf)
      BY <3>1 DEF LookedInv
    <3>3. gke.status # "STOPPING"
      BY <3>1 DEF CopiesInv, ChangedCalls, ClusterInv
    <3>4. Undisturbed' /\ \A s \in Settings \ {"kubernetesVersion"} : gke'.conf[s] = gke.conf[s]
      BY <3>1, <3>2, <3>3, ClusterKeeps DEF TypeOK, Undisturbed
    <3> QED BY <3>1, <3>2, <3>4 DEF Agrees
  <2> QED BY <1>1, <2>1, <2>2, LookedMoves
<1>2. ASSUME pc' = "status", "work" \notin stale', intent'.phase = "active",
             work'.phase = "updating"
      PROVE  Settled'
  <2>1. CASE NothingToUpdate
    <3>1. "work" \notin stale
      BY <1>2, <2>1 DEF NothingToUpdate, storeVars
    <3> QED BY <2>1, <3>1, NothingMeansSettled
  <2>2. CASE Others
    <3>1. /\ pc = "status" /\ intent' = intent /\ work' = work
          /\ "work" \notin stale /\ store' = store
          /\ gke' = gke \/ ClusterNext
      BY <1>2, <2>2, OthersKeep DEF workerVars
    <3>2. Settled /\ store.lifecycle = "live"
      BY <1>2, <3>1 DEF LookedInv, CopiesInv, ChangedCalls
    <3> QED BY <3>1, <3>2, SettledStays
  <2> QED BY <1>2, <2>1, <2>2, LookedMoves
<1> QED BY <1>1, <1>2 DEF LookedInv

\* When an updating config becomes active, its cluster has what the stored spec asks
\* for: no edit that the pass has not seen, no other operation and no answer that is
\* out of date comes between GetCluster and the write of the status.
THEOREM SettlesInSync == Spec => SettledMeansSynced
<1> DEFINE Inv == TypeOK /\ CopiesInv /\ CallsInv /\ ClusterInv /\ LookedInv
<1>1. Init => Inv
  BY InitType, InitCopies, InitCalls, InitCluster, InitLooked
<1>2. Inv /\ [Next]_vars => Inv'
  BY TypeStep, CopiesStep, CallsStep, ClusterInvStep, LookedStep
<1>3. Inv /\ [Next]_vars => [store.phase = "updating" /\ store'.phase = "active" => Synced]_vars
  <2> SUFFICES ASSUME Inv, [Next]_vars, store.phase = "updating", store'.phase = "active"
               PROVE  Synced
    OBVIOUS
  <2>1. StatusMove
    <3>1. StatusMove \/ RecordMove
      BY StoreLaws
    <3>2. ~RecordMove
      BY DEF RecordMove, TypeOK, StoreTypeOK, Configs
    <3> QED BY <3>1, <3>2
  <2>2. pc = "status" /\ "work" \notin stale /\ store = work /\ intent.phase = "active"
    BY <2>1 DEF StatusMove, StatusWritten, StatusAnswerLost, TypeOK, StoreTypeOK, Configs
  <2> QED BY <2>2 DEF LookedInv, Settled
<1> QED BY <1>1, <1>2, <1>3, PTL DEF Spec, SettledMeansSynced

-----------------------------------------------------------------------------
(* Nothing is forgotten *)

\* When nothing is left to come, a pass that went through has found the config active
\* and its cluster in sync, and so it stays.
QuietInv ==
    /\ pc \in {"record", "adopt"} /\ err = NoError /\ ~Pending
        => store.phase = "active" /\ Settled
    /\ pc = "idle" /\ ~Pending
        => \/ store.lifecycle = "gone"
           \/ store.lifecycle = "live" /\ store.phase = "active" /\ Settled

LEMMA InitQuiet ==
    ASSUME Init
    PROVE  QuietInv
BY DEF Init, StoreInit, Pending, QuietInv

\* The steps after which a pass has gone through and nothing is left to come.
LEMMA ThroughMoves ==
    ASSUME [Next]_vars, pc' \in {"record", "adopt"}, err' = NoError, ~Pending'
    PROVE  \/ NothingToUpdate /\ work.phase = "active"
           \/ RecordUnchanged
           \/ RecordFails
           \/ Others
<1> USE DEF Pending
<1>1. ~Changed
  <2>1. UpdateConfigStatus("creating", "finishCreating", TRUE) => pc' = "status"
    BY DEF UpdateConfigStatus, Intend
  <2>2. \A m \in Messages : UpdateConfigStatus("updating", m, TRUE) => pc' = "status"
    BY DEF UpdateConfigStatus, Intend
  <2>3. \A e \in Errors : ~Return(e)
    BY DEF Return, Errors, NoError
  <2>4. ~WaitForCreationComplete /\ ~CheckWaits
    BY <2>1, <2>2, <2>3 DEF WaitForCreationComplete, CheckWaits, Goto, Errors, Messages
  <2>5. /\ ~CredentialFails /\ ~CallFails /\ ~ClusterListed /\ ~CreateAnswerLost
        /\ ~SecretFails
    BY <2>3 DEF CredentialFails, CallFails, ClusterListed, CreateAnswerLost, SecretFails,
                Goto, Errors
  <2>6. /\ ~TakeKey /\ ~DropKey /\ ~Dispatch /\ ~CreateAccepted /\ ~ImportCluster
        /\ ~CheckUpdates /\ ~SecretCreated
    BY DEF TakeKey, DropKey, Dispatch, CreateAccepted, ImportCluster, CheckUpdates,
           SecretCreated, Goto, Intend, workerVars
  <2> QED BY <2>4, <2>5, <2>6 DEF Changed
<1>2. CASE Update
  <2>1. ASSUME NEW s \in Settings,
               \/ UpdateAccepted(s) \/ UpdateFails(s) \/ UpdateFailsHalfway(s)
               \/ UpdateRetried(s)
        PROVE  FALSE
    <3>1. \A m : EnqueueUpdate(m) => pc' = "status"
      BY DEF EnqueueUpdate, Intend
    <3>2. UpdateConfigStatus("updating", "finishRecreation", TRUE) => pc' = "status"
      BY DEF UpdateConfigStatus, Intend
    <3>3. ~Return("upstream")
      BY DEF Return, NoError
    <3>4. CASE UpdateAccepted(s)
      BY <3>1, <3>4 DEF UpdateAccepted
    <3>5. CASE UpdateFails(s) \/ UpdateFailsHalfway(s)
      BY <3>3, <3>5 DEF UpdateFails, UpdateFailsHalfway
    <3>6. CASE UpdateRetried(s)
      BY <3>1, <3>2, <3>6 DEF UpdateRetried
    <3> QED BY <2>1, <3>4, <3>5, <3>6
  <2>2. ~VersionRejected
    BY DEF VersionRejected, Return, NoError
  <2>3. NothingToUpdate => work.phase = "active"
    BY DEF NothingToUpdate, Intend
  <2> QED BY <1>2, <2>1, <2>2, <2>3 DEF Update
<1>3. CASE Record
  BY <1>3 DEF Record, StatusWritten, StatusAnswerLost, StatusFails, RecordWritten,
              RecordAnswerLost, Adopted, AdoptAnswerLost, AdoptFails, PassEnds, Finish,
              FinishWith, Release, Write, Copies, Unrecorded, NoError
<1>4. ~Removed
  BY DEF Removed, RemovalCredentialFails, DeletionSkipped, DeletionBegins, DeleteAccepted,
         DeleteNotFound, DeleteGivesUp, DeleteAnswerLost, Finalized, FinalizeAnswerLost,
         FinalizeFails, Goto, Finish, FinishWith, Release
<1>5. ~Crash
  BY DEF Crash, Release
<1> QED BY <1>1, <1>2, <1>3, <1>4, <1>5 DEF Next, Others

\* The steps after which the worker has nothing in its hands and nothing is left to come.
LEMMA IdleMoves ==
    ASSUME [Next]_vars, pc' = "idle", ~Pending'
    PROVE  \/ DropKey
           \/ PassEnds /\ err = NoError
           \/ Others
<1> USE DEF Pending
<1>1. CASE Changed
  BY <1>1 DEF Changed, TakeKey, CredentialFails, Dispatch, CallFails, ClusterListed,
              CreateAccepted, CreateAnswerLost, ImportCluster, WaitForCreationComplete,
              CheckWaits, CheckUpdates, SecretCreated, SecretFails, UpdateConfigStatus,
              Goto, Return, Intend
<1>2. ~Update
  BY DEF Update, VersionRejected, UpdateAccepted, UpdateFails, UpdateFailsHalfway,
         UpdateRetried, NothingToUpdate, EnqueueUpdate, UpdateConfigStatus, Return, Intend
<1>3. CASE Record
  BY <1>3 DEF Record, StatusWritten, StatusAnswerLost, StatusFails, RecordUnchanged,
              RecordWritten, RecordAnswerLost, RecordFails, Adopted, AdoptAnswerLost,
              AdoptFails, PassEnds, Goto, Finish, FinishWith, Copies
<1>4. ~Removed
  BY DEF Removed, RemovalCredentialFails, DeletionSkipped, DeletionBegins, DeleteAccepted,
         DeleteNotFound, DeleteGivesUp, DeleteAnswerLost, Finalized, FinalizeAnswerLost,
         FinalizeFails, Goto, Finish, FinishWith, Copies
<1>5. ~Crash
  BY DEF Crash, Relist
<1> QED BY <1>1, <1>2, <1>3, <1>4, <1>5 DEF Next, Others

\* Steps that are not the worker's and leave nothing to come.
LEMMA OthersQuiet ==
    ASSUME Others, ~Pending'
    PROVE  /\ UNCHANGED << pc, err >> /\ ~Pending
           /\ store' = store
           /\ gke' = gke \/ ClusterNext
<1>1. UNCHANGED workerVars /\ (gke' = gke \/ ClusterNext)
  BY OthersKeep
<1>2. ~StoreStep
  BY DEF StoreStep, StoreNext, Watch, TimerFires, Edit, RequestDelete, Write, Copies, Pending
<1>3. UNCHANGED storeVars
  BY <1>2 DEF Others, SecretCollected, ClusterStep, vars
<1> QED BY <1>1, <1>3 DEF workerVars, storeVars, Pending

LEMMA QuietStep ==
    ASSUME TypeOK, CopiesInv, ClusterInv, LookedInv, PendingInv, QuietInv, [Next]_vars
    PROVE  QuietInv'
<1>1. pc \in ChangedCalls /\ ~Pending => "work" \notin stale /\ store.lifecycle = "live"
  BY DEF PendingInv, CopiesInv, ChangedCalls
<1>2. ASSUME pc' \in {"record", "adopt"}, err' = NoError, ~Pending'
      PROVE  store'.phase = "active" /\ Settled'
  <2>1. ~Pending
    BY <1>2, PendingStays DEF TakeKey, DropKey, workerVars
  <2>2. CASE NothingToUpdate /\ work.phase = "active"
    <3>1. "work" \notin stale /\ store = work
      BY <1>1, <2>1, <2>2 DEF NothingToUpdate, CopiesInv, ChangedCalls
    <3> QED BY <2>2, <3>1, NothingMeansSettled
  <2>3. CASE RecordUnchanged \/ RecordFails \/ Others
    <3>1. /\ pc \in {"record", "adopt"} /\ err = NoError
          /\ store' = store /\ (gke' = gke \/ ClusterNext)
      BY <1>2, <2>3, OthersQuiet
         DEF RecordUnchanged, RecordFails, Goto, storeVars, Environment
    <3>2. store.phase = "active" /\ Settled
      BY <2>1, <3>1 DEF QuietInv
    <3> QED BY <1>1, <2>1, <3>1, <3>2, SettledStays DEF ChangedCalls
  <2> QED BY <1>2, <2>2, <2>3, ThroughMoves
<1>3. ASSUME pc' = "idle", ~Pending'
      PROVE  \/ store'.lifecycle = "gone"
             \/ store'.lifecycle = "live" /\ store'.phase = "active" /\ Settled'
  <2>1. CASE DropKey
    BY <1>3, <2>1 DEF DropKey, Pending, CopiesInv
  <2>2. CASE PassEnds /\ err = NoError
    <3>1. ~Pending
      BY <1>3, <2>2, PendingStays DEF PassEnds, TakeKey, DropKey
    <3>2. store.phase = "active" /\ Settled /\ store.lifecycle = "live"
      BY <1>1, <2>2, <3>1 DEF PassEnds, QuietInv, ChangedCalls
    <3>3. store' = store /\ gke' = gke
      BY <2>2 DEF PassEnds, Finish, Environment
    <3> QED BY <3>2, <3>3, SettledStays
  <2>3. CASE Others
    <3>1. pc = "idle" /\ ~Pending /\ store' = store /\ (gke' = gke \/ ClusterNext)
      BY <1>3, <2>3, OthersQuiet
    <3> QED BY <3>1, SettledStays DEF QuietInv
  <2> QED BY <1>3, <2>1, <2>2, <2>3, IdleMoves
<1> QED BY <1>2, <1>3 DEF QuietInv

\* When no event, queued key or timer is left that would bring the config back to a
\* worker, it is gone, or it is active and its cluster has what the stored spec asks
\* for: no pass ends without seeing to the next one while there is something to do.
THEOREM NothingForgotten == Spec => []QuietMeansSettled
<1> DEFINE Inv == /\ TypeOK /\ CopiesInv /\ CallsInv /\ ClusterInv
                  /\ LookedInv /\ PendingInv /\ QuietInv
<1>1. Init => Inv
  BY InitType, InitCopies, InitCalls, InitCluster, InitLooked, InitPending, InitQuiet
<1>2. Inv /\ [Next]_vars => Inv'
  BY TypeStep, CopiesStep, CallsStep, ClusterInvStep, LookedStep, PendingStep, QuietStep
<1>3. Inv => QuietMeansSettled
  BY DEF QuietInv, Pending, Settled, Quiet, QuietMeansSettled
<1> QED BY <1>1, <1>2, <1>3, PTL DEF Spec
=============================================================================
