------------------------ MODULE ConfigControllerProofs ------------------------
(***************************************************************************)
(* Theorems about ConfigController for every value of its constants.       *)
(***************************************************************************)
EXTENDS ConfigController, TLAPS

-----------------------------------------------------------------------------
(* The operators the model is built from *)

\* Node pools and the version, which the model names, are settings.
LEMMA NamedSettings ==
    /\ "kubernetesVersion" \in Settings
    /\ "clusterAddons" \in Settings
    /\ "nodePools" \in Settings
    /\ NoOperation \notin Settings
BY DEF Settings, UpdateOrder, NoOperation

\* A config's spec is one of the revisions.
LEMMA SpecType ==
    ASSUME NEW c \in Configs
    PROVE  Revision[c.generation] \in Specs
BY RevisionAssumption DEF Configs

\* A new cluster has a value for every setting.
LEMMA CreatedType ==
    ASSUME NEW sp \in Specs
    PROVE  Created(sp, Defaults) \in Confs
BY DefaultsAssumption DEF Created, Specs, Confs

\* Only settings that the spec sets are ever sent to GKE.
LEMMA UpdateType ==
    ASSUME NEW sp \in Specs, NEW conf \in Confs, NEW s \in NextSettings(sp, conf)
    PROVE  s \in Settings /\ sp[s] \in Values
BY DEF NextSettings, Ready, Outdated, Specs, Confs

LEMMA AbsentType == Absent \in Clusters
BY DefaultsAssumption, MaxValueAssumption, NamedSettings
   DEF Absent, Clusters, Statuses, Owners, Values

LEMMA NewConfigType ==
    ASSUME NEW b \in BOOLEAN
    PROVE  NewConfig(b) \in Configs
BY RevisionAssumption
   DEF NewConfig, Configs, Lifecycles, Phases

-----------------------------------------------------------------------------
(* What the steps of the worker have in common keeps the types *)

LEMMA GotoType ==
    ASSUME WorkerTypeOK, NEW call \in Calls \ {"record"}, Goto(call)
    PROVE  WorkerTypeOK'
BY DEF Goto, WorkerTypeOK

LEMMA ReturnType ==
    ASSUME WorkerTypeOK, NEW e \in Errors \cup {NoError}, Return(e)
    PROVE  WorkerTypeOK'
BY DEF Return, WorkerTypeOK, Calls, Failures, Errors, NoError, Unrecorded

LEMMA IntendType ==
    ASSUME WorkerTypeOK, NEW p \in Phases, NEW m \in Messages \cup {NoMessage},
           NEW a \in BOOLEAN, Intend(p, m, a)
    PROVE  WorkerTypeOK'
BY DEF Intend, WorkerTypeOK, Calls, Intents

LEMMA UpdateConfigStatusType ==
    ASSUME StoreTypeOK, WorkerTypeOK, NEW p \in Phases,
           NEW m \in Messages \cup {NoMessage}, NEW a \in BOOLEAN,
           UpdateConfigStatus(p, m, a)
    PROVE  StoreTypeOK' /\ WorkerTypeOK'
<1>1. CASE Intend(p, m, a) /\ UNCHANGED storeVars
  BY <1>1, IntendType DEF StoreTypeOK, storeVars
<1>2. CASE /\ Return(NoError)
           /\ timer' = (timer \/ a)
           /\ UNCHANGED << store, cache, stale, queued >>
  <2>1. WorkerTypeOK'
    BY <1>2, ReturnType
  <2>2. StoreTypeOK'
    BY <1>2 DEF StoreTypeOK
  <2> QED BY <2>1, <2>2
<1> QED BY <1>1, <1>2 DEF UpdateConfigStatus

LEMMA EnqueueUpdateType ==
    ASSUME StoreTypeOK, WorkerTypeOK, NEW m \in Messages, EnqueueUpdate(m)
    PROVE  StoreTypeOK' /\ WorkerTypeOK'
<1>1. CASE Intend("updating", m, FALSE) /\ UNCHANGED storeVars
  BY <1>1, IntendType DEF StoreTypeOK, storeVars, Phases
<1>2. CASE /\ Return(NoError)
           /\ queued' = TRUE
           /\ UNCHANGED << store, cache, stale, timer >>
  <2>1. WorkerTypeOK'
    BY <1>2, ReturnType
  <2>2. StoreTypeOK'
    BY <1>2 DEF StoreTypeOK
  <2> QED BY <2>1, <2>2
<1> QED BY <1>1, <1>2 DEF EnqueueUpdate

LEMMA ReleaseType ==
    ASSUME Release
    PROVE  WorkerTypeOK'
<1>1. NoIntent \in Intents
  BY DEF NoIntent, Intents, Phases
<1> QED BY <1>1, NewConfigType, AbsentType DEF Release, WorkerTypeOK, Calls, NoError

LEMMA FinishType ==
    ASSUME StoreTypeOK, NEW failed \in BOOLEAN, Finish(failed)
    PROVE  StoreTypeOK' /\ WorkerTypeOK'
BY ReleaseType DEF Finish, StoreTypeOK, Copies

LEMMA FinishWithType ==
    ASSUME StoreTypeOK, NEW config \in Configs, NEW failed \in BOOLEAN,
           FinishWith(config, failed)
    PROVE  StoreTypeOK' /\ WorkerTypeOK'
BY ReleaseType DEF FinishWith, StoreTypeOK, Copies

-----------------------------------------------------------------------------
(* The types of the store and of the cluster *)

\* A config stays one whatever status, finalizer or lifecycle it gets.
LEMMA ConfigUpdates ==
    ASSUME NEW c \in Configs
    PROVE  /\ \A p \in Phases, m \in Messages \cup {NoMessage} :
                [c EXCEPT !.phase = p, !.message = m] \in Configs
           /\ \A p \in Phases, e \in Errors \cup {NoError} :
                [c EXCEPT !.failure = e, !.phase = p] \in Configs
           /\ \A l \in Lifecycles : [c EXCEPT !.lifecycle = l] \in Configs
           /\ [c EXCEPT !.finalizer = TRUE] \in Configs
           /\ c.generation < LastGeneration
                => [c EXCEPT !.generation = @ + 1] \in Configs
<1>1. \A p \in Phases, m \in Messages \cup {NoMessage} :
        [c EXCEPT !.phase = p, !.message = m] \in Configs
  BY DEF Configs
<1>2. \A p \in Phases, e \in Errors \cup {NoError} :
        [c EXCEPT !.failure = e, !.phase = p] \in Configs
  BY DEF Configs
<1>3. \A l \in Lifecycles : [c EXCEPT !.lifecycle = l] \in Configs
  BY DEF Configs
<1>4. [c EXCEPT !.finalizer = TRUE] \in Configs
  BY DEF Configs
<1>5. ASSUME c.generation < LastGeneration
      PROVE  [c EXCEPT !.generation = @ + 1] \in Configs
  <2>1. c.generation + 1 \in 1 .. LastGeneration
    BY <1>5, RevisionAssumption DEF Configs
  <2> QED BY <2>1 DEF Configs
<1> QED BY <1>1, <1>2, <1>3, <1>4, <1>5

LEMMA StoreNextType ==
    ASSUME StoreTypeOK, StoreNext
    PROVE  StoreTypeOK'
<1>1. CASE Watch
  BY <1>1 DEF Watch, StoreTypeOK, Copies
<1>2. CASE TimerFires
  BY <1>2 DEF TimerFires, StoreTypeOK
<1>3. CASE Edit
  BY <1>3, ConfigUpdates DEF Edit, Write, StoreTypeOK, Copies
<1>4. CASE RequestDelete
  BY <1>4, ConfigUpdates DEF RequestDelete, Write, StoreTypeOK, Copies, Lifecycles
<1> QED BY <1>1, <1>2, <1>3, <1>4 DEF StoreNext

\* A cluster without its operation is a cluster still.
LEMMA EndedType ==
    ASSUME ClusterTypeOK
    PROVE  Ended(gke) \in Clusters
<1>1. 0 \in Values
  BY MaxValueAssumption DEF Values
<1> QED BY <1>1 DEF Ended, ClusterTypeOK, Clusters, Statuses

LEMMA ClusterNextType ==
    ASSUME ClusterTypeOK, ClusterNext
    PROVE  ClusterTypeOK'
<1>1. CASE Provisioned
  BY <1>1 DEF Provisioned, ClusterTypeOK, Clusters, Statuses
<1>2. CASE ProvisionFails
  BY <1>2 DEF ProvisionFails, ClusterTypeOK, Clusters, Statuses
<1>3. CASE OperationDone
  <2>1. gke.operation \in Settings /\ gke.target \in Values
    BY <1>3 DEF OperationDone, ClusterTypeOK, Clusters
  <2>2. [gke.conf EXCEPT ![gke.operation] = gke.target] \in Confs
    BY <2>1 DEF ClusterTypeOK, Clusters, Confs
  <2>3. Ended(gke).conf = gke.conf
    BY DEF Ended, ClusterTypeOK, Clusters
  <2>4. gke' = [Ended(gke) EXCEPT !.conf = [gke.conf EXCEPT ![gke.operation] = gke.target]]
    BY <1>3, <2>3 DEF OperationDone
  <2> QED BY <2>2, <2>4, EndedType DEF ClusterTypeOK, Clusters
<1>4. CASE OperationFails
  BY <1>4, EndedType DEF OperationFails, ClusterTypeOK
<1>5. CASE Deleted
  BY <1>5, AbsentType DEF Deleted, ClusterTypeOK
<1>6. CASE AutoUpgrade
  <2>1. gke.conf["kubernetesVersion"] + 1 \in Values
    BY <1>6, NamedSettings, MaxValueAssumption
       DEF AutoUpgrade, ClusterTypeOK, Clusters, Confs, Values
  <2> QED BY <1>6, <2>1, NamedSettings DEF AutoUpgrade, ClusterTypeOK, Clusters, Statuses
<1>7. CASE OthersCreate
  BY <1>7, AbsentType DEF OthersCreate, ClusterTypeOK, Clusters, Statuses, Owners
<1> QED BY <1>1, <1>2, <1>3, <1>4, <1>5, <1>6, <1>7 DEF ClusterNext

LEMMA ClusterCreateType ==
    ASSUME NEW sp \in Specs, ClusterCreate(sp)
    PROVE  ClusterTypeOK'
BY AbsentType, CreatedType DEF ClusterCreate, ClusterTypeOK, Clusters, Statuses, Owners

LEMMA ClusterDeleteType ==
    ASSUME ClusterTypeOK, ClusterDelete
    PROVE  ClusterTypeOK'
BY DEF ClusterDelete, ClusterTypeOK, Clusters, Statuses

LEMMA StartOperationType ==
    ASSUME ClusterTypeOK, NEW s \in Settings, NEW v \in Values, StartOperation(s, v)
    PROVE  ClusterTypeOK'
BY DEF StartOperation, ClusterTypeOK, Clusters, Statuses

-----------------------------------------------------------------------------
(* Every state of the controller has its type *)

LEMMA SpecOfWork ==
    ASSUME WorkerTypeOK
    PROVE  spec \in Specs
BY SpecType DEF spec, WorkerTypeOK

LEMMA ChangedType ==
    ASSUME TypeOK, Changed
    PROVE  TypeOK'
<1> USE DEF TypeOK
<1>1. CASE TakeKey
  BY <1>1 DEF TakeKey, Environment, StoreTypeOK, ClusterTypeOK, WorkerTypeOK, Calls, Copies
<1>2. CASE DropKey
  BY <1>2 DEF DropKey, Environment, workerVars, StoreTypeOK, ClusterTypeOK, WorkerTypeOK
<1>3. CASE CredentialFails
  <2>1. WorkerTypeOK'
    BY <1>3, ReturnType DEF CredentialFails, Errors
  <2> QED BY <1>3, <2>1 DEF CredentialFails, Environment, storeVars, StoreTypeOK, ClusterTypeOK
<1>4. CASE Dispatch
  <2>1. WorkerTypeOK'
    BY <1>4, GotoType, IntendType DEF Dispatch, Calls, Phases, Messages
  <2> QED BY <1>4, <2>1 DEF Dispatch, Environment, storeVars, StoreTypeOK, ClusterTypeOK
<1>5. CASE CallFails
  <2>1. WorkerTypeOK'
    BY <1>5, ReturnType DEF CallFails, Errors
  <2> QED BY <1>5, <2>1 DEF CallFails, Environment, storeVars, StoreTypeOK, ClusterTypeOK
<1>6. CASE ClusterListed
  <2>1. WorkerTypeOK'
    BY <1>6, GotoType, ReturnType DEF ClusterListed, Errors, Calls
  <2> QED BY <1>6, <2>1 DEF ClusterListed, Environment, storeVars, StoreTypeOK, ClusterTypeOK
<1>7. CASE CreateAccepted
  <2>1. WorkerTypeOK'
    BY <1>7, IntendType DEF CreateAccepted, Phases, Messages
  <2>2. ClusterTypeOK'
    BY <1>7, ClusterCreateType, SpecOfWork DEF CreateAccepted
  <2> QED BY <1>7, <2>1, <2>2 DEF CreateAccepted, storeVars, StoreTypeOK
<1>8. CASE CreateAnswerLost
  <2>1. WorkerTypeOK'
    BY <1>8, ReturnType DEF CreateAnswerLost, Errors
  <2>2. ClusterTypeOK'
    BY <1>8, ClusterCreateType, SpecOfWork DEF CreateAnswerLost
  <2> QED BY <1>8, <2>1, <2>2 DEF CreateAnswerLost, storeVars, StoreTypeOK
<1>9. CASE ImportCluster
  <2>1. WorkerTypeOK'
    BY <1>9, GotoType DEF ImportCluster, Calls
  <2> QED BY <1>9, <2>1 DEF ImportCluster, Environment, storeVars, StoreTypeOK, ClusterTypeOK
<1>10. CASE WaitForCreationComplete
  <2>1. StoreTypeOK' /\ WorkerTypeOK'
    <3>1. CASE Return("creationFailed") /\ UNCHANGED storeVars
      BY <3>1, ReturnType DEF Errors, storeVars, StoreTypeOK
    <3>2. CASE Goto("secret") /\ UNCHANGED storeVars
      BY <3>2, GotoType DEF Calls, storeVars, StoreTypeOK
    <3>3. CASE UpdateConfigStatus("creating", "finishCreating", TRUE)
      BY <3>3, UpdateConfigStatusType DEF Phases, Messages
    <3> QED BY <1>10, <3>1, <3>2, <3>3 DEF WaitForCreationComplete
  <2> QED BY <1>10, <2>1 DEF WaitForCreationComplete, Environment, ClusterTypeOK
<1>11. CASE CheckWaits
  <2>1. \E m \in Messages : UpdateConfigStatus("updating", m, TRUE)
    BY <1>11 DEF CheckWaits, Messages
  <2>2. StoreTypeOK' /\ WorkerTypeOK'
    BY <2>1, UpdateConfigStatusType DEF Phases
  <2> QED BY <1>11, <2>2 DEF CheckWaits, Environment, ClusterTypeOK
<1>12. CASE CheckUpdates
  BY <1>12 DEF CheckUpdates, Environment, storeVars, StoreTypeOK, ClusterTypeOK,
               WorkerTypeOK, Calls
<1>13. CASE SecretCreated
  <2>1. WorkerTypeOK'
    BY <1>13, IntendType DEF SecretCreated, Phases
  <2> QED BY <1>13, <2>1 DEF SecretCreated, storeVars, StoreTypeOK, ClusterTypeOK
<1>14. CASE SecretFails
  <2>1. WorkerTypeOK'
    BY <1>14, ReturnType DEF SecretFails, Errors
  <2> QED BY <1>14, <2>1 DEF SecretFails, Environment, storeVars, StoreTypeOK, ClusterTypeOK
<1> QED BY <1>1, <1>2, <1>3, <1>4, <1>5, <1>6, <1>7, <1>8, <1>9, <1>10, <1>11,
           <1>12, <1>13, <1>14 DEF Changed

LEMMA UpdateStepType ==
    ASSUME TypeOK, Update
    PROVE  TypeOK'
<1> USE DEF TypeOK
<1>0. snapshot.conf \in Confs
  BY DEF WorkerTypeOK, Clusters
<1>1. CASE VersionRejected
  <2>1. WorkerTypeOK'
    BY <1>1, ReturnType DEF VersionRejected, Errors
  <2> QED BY <1>1, <2>1 DEF VersionRejected, Environment, storeVars, StoreTypeOK, ClusterTypeOK
<1>2. ASSUME NEW s \in Settings, UpdateAccepted(s)
      PROVE  TypeOK'
  <2>1. spec[s] \in Values
    BY <1>0, <1>2, UpdateType, SpecOfWork DEF UpdateAccepted, Updates
  <2>2. ClusterTypeOK'
    BY <1>2, <2>1, StartOperationType DEF UpdateAccepted
  <2>3. StoreTypeOK' /\ WorkerTypeOK'
    BY <1>2, EnqueueUpdateType DEF UpdateAccepted, Messages
  <2> QED BY <1>2, <2>2, <2>3 DEF UpdateAccepted
<1>3. ASSUME NEW s \in Settings, UpdateFails(s)
      PROVE  TypeOK'
  <2>1. WorkerTypeOK'
    BY <1>3, ReturnType DEF UpdateFails, Errors
  <2> QED BY <1>3, <2>1 DEF UpdateFails, Environment, storeVars, StoreTypeOK, ClusterTypeOK
<1>4. ASSUME NEW s \in Settings, UpdateFailsHalfway(s)
      PROVE  TypeOK'
  <2>1. spec[s] \in Values
    BY <1>0, <1>4, UpdateType, SpecOfWork DEF UpdateFailsHalfway, Updates
  <2>2. ClusterTypeOK'
    BY <1>4, <2>1, StartOperationType DEF UpdateFailsHalfway
  <2>3. WorkerTypeOK'
    BY <1>4, ReturnType DEF UpdateFailsHalfway, Errors
  <2> QED BY <1>4, <2>2, <2>3 DEF UpdateFailsHalfway, storeVars, StoreTypeOK
<1>5. ASSUME NEW s \in Settings, UpdateRetried(s)
      PROVE  TypeOK'
  <2>1. \/ UpdateConfigStatus("updating", "finishRecreation", TRUE)
        \/ \E m \in Messages : EnqueueUpdate(m)
    BY <1>5, NamedSettings DEF UpdateRetried, Messages
  <2>2. StoreTypeOK' /\ WorkerTypeOK'
    BY <2>1, EnqueueUpdateType, UpdateConfigStatusType DEF Phases, Messages
  <2> QED BY <1>5, <2>2 DEF UpdateRetried, Environment, ClusterTypeOK
<1>6. CASE NothingToUpdate
  <2>1. WorkerTypeOK'
    BY <1>6, ReturnType, IntendType DEF NothingToUpdate, Phases
  <2> QED BY <1>6, <2>1 DEF NothingToUpdate, Environment, storeVars, StoreTypeOK, ClusterTypeOK
<1> QED BY <1>1, <1>2, <1>3, <1>4, <1>5, <1>6 DEF Update

\* What recordError writes is a config.
LEMMA RecordedType ==
    ASSUME WorkerTypeOK, pc = "record"
    PROVE  Recorded \in Configs
<1> DEFINE phase == IF err # NoError /\ work.phase = "active" THEN "updating" ELSE work.phase
<1>1. phase \in Phases
  BY DEF WorkerTypeOK, Configs, Phases
<1>2. err \in Errors \cup {NoError}
  BY DEF WorkerTypeOK, Failures
<1>3. Recorded = [work EXCEPT !.failure = err, !.phase = phase]
  BY DEF Recorded, WorkerTypeOK, Configs
<1> HIDE DEF phase
<1> QED BY <1>1, <1>2, <1>3, ConfigUpdates DEF WorkerTypeOK

LEMMA RecordType ==
    ASSUME TypeOK, Record
    PROVE  TypeOK'
<1> USE DEF TypeOK
<1>1. CASE StatusWritten
  <2>1. [work EXCEPT !.phase = intent.phase, !.message = intent.message] \in Configs
    BY ConfigUpdates DEF WorkerTypeOK, Intents
  <2> QED BY <1>1, <2>1 DEF StatusWritten, Write, Environment, StoreTypeOK, ClusterTypeOK,
                            WorkerTypeOK, Calls, Copies, Intents,
                            NoError, Unrecorded, Failures
<1>2. CASE StatusFails
  BY <1>2 DEF StatusFails, Environment, storeVars, StoreTypeOK, ClusterTypeOK,
              WorkerTypeOK, Calls, Failures
<1>3. CASE RecordUnchanged
  <2>1. WorkerTypeOK'
    BY <1>3, GotoType DEF RecordUnchanged, Calls
  <2> QED BY <1>3, <2>1 DEF RecordUnchanged, Environment, storeVars, StoreTypeOK, ClusterTypeOK
<1>4. CASE RecordWritten
  <2>1. Recorded \in Configs
    BY <1>4, RecordedType DEF RecordWritten
  <2> QED BY <1>4, <2>1 DEF RecordWritten, Write, Environment, StoreTypeOK, ClusterTypeOK,
                            WorkerTypeOK, Calls, Copies
<1>5. CASE RecordFails
  <2>1. WorkerTypeOK'
    BY <1>5, GotoType DEF RecordFails, Calls
  <2> QED BY <1>5, <2>1 DEF RecordFails, Environment, StoreTypeOK, ClusterTypeOK, Copies
<1>6. CASE Adopted
  <2>1. [work EXCEPT !.finalizer = TRUE] \in Configs
    BY ConfigUpdates DEF WorkerTypeOK
  <2> QED BY <1>6, <2>1, FinishWithType DEF Adopted, Environment, ClusterTypeOK
<1>7. CASE AdoptFails
  BY <1>7, FinishType DEF AdoptFails, Environment, ClusterTypeOK
<1>8. CASE PassEnds
  BY <1>8, FinishType DEF PassEnds, Environment, ClusterTypeOK
<1>9. CASE StatusAnswerLost
  <2>1. [work EXCEPT !.phase = intent.phase, !.message = intent.message] \in Configs
    BY ConfigUpdates DEF WorkerTypeOK, Intents
  <2> QED BY <1>9, <2>1 DEF StatusAnswerLost, Write, Environment, StoreTypeOK, ClusterTypeOK,
                            WorkerTypeOK, Calls, Copies, Failures
<1>10. CASE RecordAnswerLost
  <2>1. Recorded \in Configs
    BY <1>10, RecordedType DEF RecordAnswerLost
  <2>2. WorkerTypeOK'
    BY <1>10, GotoType DEF RecordAnswerLost, Calls
  <2> QED BY <1>10, <2>1, <2>2 DEF RecordAnswerLost, Write, Environment, StoreTypeOK,
                                   ClusterTypeOK, Copies
<1>11. CASE AdoptAnswerLost
  <2>1. [work EXCEPT !.finalizer = TRUE] \in Configs
    BY ConfigUpdates DEF WorkerTypeOK
  <2> QED BY <1>11, <2>1, FinishWithType DEF AdoptAnswerLost, Environment, ClusterTypeOK
<1> QED BY <1>1, <1>2, <1>3, <1>4, <1>5, <1>6, <1>7, <1>8, <1>9, <1>10, <1>11 DEF Record

LEMMA RemovedType ==
    ASSUME TypeOK, Removed
    PROVE  TypeOK'
<1> USE DEF TypeOK
<1>1. CASE RemovalCredentialFails
  BY <1>1, FinishType DEF RemovalCredentialFails, Environment, ClusterTypeOK
<1>2. CASE DeletionSkipped
  <2>1. WorkerTypeOK'
    BY <1>2, GotoType DEF DeletionSkipped, Calls
  <2> QED BY <1>2, <2>1 DEF DeletionSkipped, Environment, storeVars, StoreTypeOK, ClusterTypeOK
<1>3. CASE DeletionBegins
  <2>1. WorkerTypeOK'
    BY <1>3, GotoType DEF DeletionBegins, Calls
  <2> QED BY <1>3, <2>1 DEF DeletionBegins, Environment, storeVars, StoreTypeOK, ClusterTypeOK
<1>4. CASE DeleteAccepted
  <2>1. WorkerTypeOK'
    BY <1>4, GotoType DEF DeleteAccepted, Calls
  <2> QED BY <1>4, <2>1, ClusterDeleteType DEF DeleteAccepted, storeVars, StoreTypeOK
<1>5. CASE DeleteNotFound
  <2>1. WorkerTypeOK'
    BY <1>5, GotoType DEF DeleteNotFound, Calls
  <2> QED BY <1>5, <2>1 DEF DeleteNotFound, Environment, storeVars, StoreTypeOK, ClusterTypeOK
<1>6. CASE DeleteGivesUp
  BY <1>6, FinishType DEF DeleteGivesUp, Environment, ClusterTypeOK
<1>7. CASE DeleteAnswerLost
  BY <1>7, FinishType, ClusterDeleteType DEF DeleteAnswerLost
<1>8. CASE Finalized
  <2>1. [work EXCEPT !.lifecycle = "gone"] \in Configs
    BY ConfigUpdates DEF WorkerTypeOK, Lifecycles
  <2> QED BY <1>8, <2>1, FinishWithType DEF Finalized, Environment, ClusterTypeOK
<1>9. CASE FinalizeFails
  BY <1>9, FinishType DEF FinalizeFails, Environment, ClusterTypeOK
<1>10. CASE FinalizeAnswerLost
  <2>1. [work EXCEPT !.lifecycle = "gone"] \in Configs
    BY ConfigUpdates DEF WorkerTypeOK, Lifecycles
  <2> QED BY <1>10, <2>1, FinishWithType DEF FinalizeAnswerLost, Environment, ClusterTypeOK
<1> QED BY <1>1, <1>2, <1>3, <1>4, <1>5, <1>6, <1>7, <1>8, <1>9, <1>10 DEF Removed

LEMMA TypeStep ==
    ASSUME TypeOK, [Next]_vars
    PROVE  TypeOK'
<1>1. CASE Crash
  <2>1. WorkerTypeOK'
    BY <1>1, ReleaseType DEF Crash
  <2> QED BY <1>1, <2>1 DEF Crash, Relist, TypeOK, StoreTypeOK, ClusterTypeOK, Copies
<1>2. CASE SecretCollected
  BY <1>2 DEF SecretCollected, storeVars, workerVars, TypeOK, StoreTypeOK,
              ClusterTypeOK, WorkerTypeOK
<1>3. CASE StoreStep
  BY <1>3, StoreNextType DEF StoreStep, Environment, workerVars, TypeOK,
                             ClusterTypeOK, WorkerTypeOK
<1>4. CASE ClusterStep
  BY <1>4, ClusterNextType DEF ClusterStep, storeVars, workerVars, TypeOK,
                               StoreTypeOK, WorkerTypeOK
<1>5. CASE UNCHANGED vars
  BY <1>5 DEF vars, storeVars, workerVars, TypeOK, StoreTypeOK, ClusterTypeOK, WorkerTypeOK
<1> QED BY <1>1, <1>2, <1>3, <1>4, <1>5, ChangedType, UpdateStepType, RecordType,
           RemovedType DEF Next

LEMMA InitType ==
    ASSUME Init
    PROVE  TypeOK
<1>1. NoIntent \in Intents
  BY DEF NoIntent, Intents, Phases
<1>2. StoreTypeOK
  BY NewConfigType DEF Init, StoreInit, StoreTypeOK, Copies
<1>3. ClusterTypeOK
  BY AbsentType DEF Init, ClusterInit, ClusterTypeOK, Clusters, Statuses, Owners
<1>4. WorkerTypeOK
  BY <1>1, NewConfigType, AbsentType DEF Init, WorkerTypeOK, Calls
<1> QED BY <1>2, <1>3, <1>4 DEF Init, TypeOK

\* Whatever GKE, the users and the failures do, every part of the state keeps
\* its type: above all, only values a spec really sets are sent to GKE.
THEOREM TypeCorrect == Spec => []TypeOK
<1>1. Init => TypeOK
  BY InitType
<1>2. TypeOK /\ [Next]_vars => TypeOK'
  BY TypeStep
<1> QED BY <1>1, <1>2, PTL DEF Spec

-----------------------------------------------------------------------------
(* The operator deletes only what it has created *)

\* No step of OnGkeConfigChanged before its writes takes a copy where it must not be.
LEMMA ChangedOwnership ==
    ASSUME Ownership, Changed
    PROVE  Ownership'
<1> USE DEF Ownership, HasOwnCluster
<1>1. CASE TakeKey
  BY <1>1 DEF TakeKey, Environment
<1>2. CASE DropKey
  BY <1>2 DEF DropKey, Environment, workerVars
<1>3. CASE CredentialFails
  BY <1>3 DEF CredentialFails, Return, Environment, storeVars
<1>4. CASE Dispatch
  BY <1>4 DEF Dispatch, Goto, Intend, Environment, storeVars
<1>5. CASE CallFails
  BY <1>5 DEF CallFails, Return, Environment, storeVars
<1>6. CASE ClusterListed
  BY <1>6 DEF ClusterListed, Goto, Return, Environment, storeVars
<1>7. CASE CreateAccepted
  BY <1>7 DEF CreateAccepted, Intend, storeVars
<1>8. CASE CreateAnswerLost
  BY <1>8 DEF CreateAnswerLost, Return, storeVars
<1>9. CASE ImportCluster
  BY <1>9 DEF ImportCluster, Goto, Environment, storeVars
<1>10. CASE WaitForCreationComplete
  BY <1>10 DEF WaitForCreationComplete, UpdateConfigStatus, Goto, Return, Intend,
               Environment, storeVars
<1>11. CASE CheckWaits
  BY <1>11 DEF CheckWaits, UpdateConfigStatus, Return, Intend, Environment, storeVars
<1>12. CASE CheckUpdates
  BY <1>12 DEF CheckUpdates, Environment, storeVars
<1>13. CASE SecretCreated
  BY <1>13 DEF SecretCreated, Intend, storeVars
<1>14. CASE SecretFails
  BY <1>14 DEF SecretFails, Return, Environment, storeVars
<1> QED BY <1>1, <1>2, <1>3, <1>4, <1>5, <1>6, <1>7, <1>8, <1>9, <1>10, <1>11,
           <1>12, <1>13, <1>14 DEF Changed

LEMMA UpdateOwnership ==
    ASSUME Ownership, Update
    PROVE  Ownership'
<1> USE DEF Ownership, HasOwnCluster
<1>1. CASE VersionRejected
  BY <1>1 DEF VersionRejected, Return, Environment, storeVars
<1>2. ASSUME NEW s \in Settings, UpdateAccepted(s)
      PROVE  Ownership'
  BY <1>2 DEF UpdateAccepted, Updates, EnqueueUpdate, Return, Intend, storeVars
<1>3. ASSUME NEW s \in Settings, UpdateFails(s)
      PROVE  Ownership'
  BY <1>3 DEF UpdateFails, Updates, Return, Environment, storeVars
<1>4. ASSUME NEW s \in Settings, UpdateFailsHalfway(s)
      PROVE  Ownership'
  BY <1>4 DEF UpdateFailsHalfway, Updates, Return, storeVars
<1>5. ASSUME NEW s \in Settings, UpdateRetried(s)
      PROVE  Ownership'
  BY <1>5 DEF UpdateRetried, Updates, UpdateConfigStatus, EnqueueUpdate, Return, Intend,
              Environment, storeVars
<1>6. CASE NothingToUpdate
  BY <1>6 DEF NothingToUpdate, Return, Intend, Environment, storeVars
<1> QED BY <1>1, <1>2, <1>3, <1>4, <1>5, <1>6 DEF Update

\* A pass that ends leaves copies behind that are as entitled as the worker's.
LEMMA FinishOwnership ==
    ASSUME Ownership, created' = created,
           \/ \E failed \in BOOLEAN : Finish(failed)
           \/ \E config \in Configs, failed \in BOOLEAN :
                /\ FinishWith(config, failed)
                /\ config.imported = work.imported
                /\ config.phase = work.phase
    PROVE  Ownership'
<1>1. HasOwnCluster(work)'
  BY DEF Finish, FinishWith, Release, HasOwnCluster, NewConfig
<1> QED BY <1>1 DEF Finish, FinishWith, Release, Ownership, HasOwnCluster

LEMMA RecordOwnership ==
    ASSUME TypeOK, Ownership, Record
    PROVE  Ownership'
<1>1. CASE StatusWritten
  BY <1>1 DEF StatusWritten, Write, Environment, Ownership, HasOwnCluster, TypeOK,
              WorkerTypeOK, Configs
<1>2. CASE StatusFails
  BY <1>2 DEF StatusFails, Environment, storeVars, Ownership, HasOwnCluster
<1>3. CASE RecordUnchanged
  BY <1>3 DEF RecordUnchanged, Goto, Environment, storeVars, Ownership, HasOwnCluster
<1>4. CASE RecordWritten
  <2>1. Recorded.imported = work.imported
    BY DEF Recorded, TypeOK, WorkerTypeOK, Configs
  <2>2. Recorded.phase = "notCreated" <=> work.phase = "notCreated"
    BY DEF Recorded, TypeOK, WorkerTypeOK, Configs
  <2> QED BY <1>4, <2>1, <2>2 DEF RecordWritten, Write, Environment, Ownership, HasOwnCluster
<1>5. CASE RecordFails
  BY <1>5 DEF RecordFails, Goto, Environment, Ownership, HasOwnCluster
<1>6. CASE Adopted
  <2> DEFINE config == [work EXCEPT !.finalizer = TRUE]
  <2>1. config \in Configs /\ config.imported = work.imported /\ config.phase = work.phase
    BY ConfigUpdates DEF TypeOK, WorkerTypeOK, Configs
  <2> QED BY <1>6, <2>1, FinishOwnership DEF Adopted, Environment
<1>7. CASE AdoptFails
  BY <1>7, FinishOwnership DEF AdoptFails, Environment
<1>8. CASE PassEnds
  BY <1>8, FinishOwnership DEF PassEnds, Environment
<1>9. CASE StatusAnswerLost
  BY <1>9 DEF StatusAnswerLost, Write, Environment, Ownership, HasOwnCluster, TypeOK,
              WorkerTypeOK, Configs
<1>10. CASE RecordAnswerLost
  <2>1. Recorded.imported = work.imported
    BY DEF Recorded, TypeOK, WorkerTypeOK, Configs
  <2>2. Recorded.phase = "notCreated" <=> work.phase = "notCreated"
    BY DEF Recorded, TypeOK, WorkerTypeOK, Configs
  <2> QED BY <1>10, <2>1, <2>2
          DEF RecordAnswerLost, Write, Goto, Environment, Ownership, HasOwnCluster
<1>11. CASE AdoptAnswerLost
  <2> DEFINE config == [work EXCEPT !.finalizer = TRUE]
  <2>1. config \in Configs /\ config.imported = work.imported /\ config.phase = work.phase
    BY ConfigUpdates DEF TypeOK, WorkerTypeOK, Configs
  <2> QED BY <1>11, <2>1, FinishOwnership DEF AdoptAnswerLost, Environment
<1> QED BY <1>1, <1>2, <1>3, <1>4, <1>5, <1>6, <1>7, <1>8, <1>9, <1>10, <1>11 DEF Record

LEMMA RemovedOwnership ==
    ASSUME TypeOK, Ownership, Removed
    PROVE  Ownership'
<1>1. CASE RemovalCredentialFails
  BY <1>1, FinishOwnership DEF RemovalCredentialFails, Environment
<1>2. CASE DeletionSkipped
  BY <1>2 DEF DeletionSkipped, Goto, Environment, storeVars, Ownership, HasOwnCluster
<1>3. CASE DeletionBegins
  BY <1>3 DEF DeletionBegins, Goto, Environment, storeVars, Ownership, HasOwnCluster
<1>4. CASE DeleteAccepted
  BY <1>4 DEF DeleteAccepted, Goto, storeVars, Ownership, HasOwnCluster
<1>5. CASE DeleteNotFound
  BY <1>5 DEF DeleteNotFound, Goto, Environment, storeVars, Ownership, HasOwnCluster
<1>6. CASE DeleteGivesUp
  BY <1>6, FinishOwnership DEF DeleteGivesUp, Environment
<1>7. CASE DeleteAnswerLost
  BY <1>7, FinishOwnership DEF DeleteAnswerLost
<1>8. CASE Finalized
  <2> DEFINE config == [work EXCEPT !.lifecycle = "gone"]
  <2>1. config \in Configs /\ config.imported = work.imported /\ config.phase = work.phase
    BY ConfigUpdates DEF TypeOK, WorkerTypeOK, Configs, Lifecycles
  <2> QED BY <1>8, <2>1, FinishOwnership DEF Finalized, Environment
<1>9. CASE FinalizeFails
  BY <1>9, FinishOwnership DEF FinalizeFails, Environment
<1>10. CASE FinalizeAnswerLost
  <2> DEFINE config == [work EXCEPT !.lifecycle = "gone"]
  <2>1. config \in Configs /\ config.imported = work.imported /\ config.phase = work.phase
    BY ConfigUpdates DEF TypeOK, WorkerTypeOK, Configs, Lifecycles
  <2> QED BY <1>10, <2>1, FinishOwnership DEF FinalizeAnswerLost, Environment
<1> QED BY <1>1, <1>2, <1>3, <1>4, <1>5, <1>6, <1>7, <1>8, <1>9, <1>10 DEF Removed

LEMMA StoreOwnership ==
    ASSUME TypeOK, Ownership, StoreStep
    PROVE  Ownership'
<1> USE DEF Ownership, HasOwnCluster
<1>1. CASE Watch
  BY <1>1 DEF Watch, StoreStep, Environment, workerVars
<1>2. CASE TimerFires
  BY <1>2 DEF TimerFires, StoreStep, Environment, workerVars
<1>3. CASE Edit \/ RequestDelete
  <2>1. store'.imported = store.imported /\ store'.phase = store.phase
    BY <1>3 DEF Edit, RequestDelete, Write, TypeOK, StoreTypeOK, Configs
  <2> QED BY <1>3, <2>1 DEF Edit, RequestDelete, StoreStep, Environment, workerVars
<1> QED BY <1>1, <1>2, <1>3 DEF StoreStep, StoreNext

LEMMA OwnershipStep ==
    ASSUME TypeOK, Ownership, [Next]_vars
    PROVE  Ownership'
<1>1. CASE Crash
  <2>1. HasOwnCluster(work)'
    BY <1>1 DEF Crash, Release, HasOwnCluster, NewConfig
  <2> QED BY <1>1, <2>1 DEF Crash, Relist, Release, Ownership, HasOwnCluster
<1>2. CASE SecretCollected
  BY <1>2 DEF SecretCollected, storeVars, workerVars, Ownership, HasOwnCluster
<1>3. CASE ClusterStep
  BY <1>3 DEF ClusterStep, storeVars, workerVars, Ownership, HasOwnCluster
<1>4. CASE UNCHANGED vars
  BY <1>4 DEF vars, storeVars, workerVars, Ownership, HasOwnCluster
<1> QED BY <1>1, <1>2, <1>3, <1>4, ChangedOwnership, UpdateOwnership, RecordOwnership,
           RemovedOwnership, StoreOwnership DEF Next

LEMMA InitOwnership ==
    ASSUME Init
    PROVE  Ownership
BY DEF Init, StoreInit, NewConfig, Ownership, HasOwnCluster

\* OnGkeConfigRemoved calls RemoveCluster only for a config that is not imported
\* and whose own ClusterCreate GKE has accepted, however stale the copy is that
\* it decides on and wherever the operator crashed before.
THEOREM DeletionIsOwn == Spec => []DeletesOnlyWhatItCreated
<1>1. Init => TypeOK /\ Ownership
  BY InitType, InitOwnership
<1>2. TypeOK /\ Ownership /\ [Next]_vars => (TypeOK /\ Ownership)'
  BY TypeStep, OwnershipStep
<1>3. Ownership => DeletesOnlyWhatItCreated
  BY DEF Ownership, HasOwnCluster, DeletesOnlyWhatItCreated
<1> QED BY <1>1, <1>2, <1>3, PTL DEF Spec
=============================================================================
