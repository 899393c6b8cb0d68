------------------------- MODULE ConfigLifecycleProofs -------------------------
(***************************************************************************)
(* The controller implements ConfigLifecycle, for every value of the       *)
(* constants: what users see of a config and its cluster goes through the  *)
(* phases in order, a cluster is created once and given up once, and its   *)
(* network policy never outlives the add-on for it.                        *)
(***************************************************************************)
EXTENDS ConfigSettlingProofs

-----------------------------------------------------------------------------
(* The invariant *)

\* Only imported configs are importing, and only the others are creating.
PhaseFits(config) ==
    /\ config.phase = "importing" => config.imported
    /\ config.phase = "creating" => ~config.imported

\* Nobody who takes the config for a live one is left when its cluster is given up.
GivenUpSeen == OwnCluster = "givenUp" => cache.lifecycle # "live" /\ pc \notin ChangedCalls

\* All copies agree on whether the config is imported, and on its phase once they
\* know of its deletion.
DeletionSeen ==
    /\ cache.lifecycle # "live" => cache.phase = store.phase
    /\ work.lifecycle # "live" => work.phase = store.phase
    /\ cache.imported = store.imported
    /\ pc # "idle" => work.imported = store.imported

\* A config that its handler lets go of has no cluster to give up any more, nor has
\* one that is gone and was seen under deletion.
MayGo(config) == config.imported \/ config.phase = "notCreated" \/ OwnCluster = "givenUp"

LetGo ==
    /\ pc = "finalize" => MayGo(work)
    /\ store.lifecycle = "gone" /\ "deleting" \in {cache.lifecycle, work.lifecycle}
        => store.imported \/ store.phase = "notCreated" \/ OwnCluster # "kept"

LifecycleInv ==
    /\ PhaseFits(store) /\ PhaseFits(cache) /\ PhaseFits(work)
    /\ GivenUpSeen
    /\ DeletionSeen
    /\ LetGo

Context == TypeOK /\ Ownership /\ CopiesInv /\ CallsInv /\ ClusterInv

LEMMA InitContext ==
    ASSUME Init
    PROVE  Context
BY InitType, InitOwnership, InitCopies, InitCalls, InitCluster DEF Context

LEMMA ContextStep ==
    ASSUME Context, [Next]_vars
    PROVE  Context'
BY TypeStep, OwnershipStep, CopiesStep, CallsStep, ClusterInvStep DEF Context

LEMMA InitLifecycle ==
    ASSUME Init
    PROVE  LifecycleInv
BY DEF Init, StoreInit, NewConfig, LifecycleInv, PhaseFits, GivenUpSeen, DeletionSeen, LetGo,
       OwnCluster

-----------------------------------------------------------------------------
(* How copies, calls and the cluster move *)

LEMMA CacheMoves ==
    ASSUME [Next]_vars
    PROVE  cache' = cache \/ (cache' = store /\ store' = store)
<1>1. CASE Changed \/ Update
  BY <1>1 DEF Changed, TakeKey, DropKey, CredentialFails, Dispatch, CallFails, ClusterListed,
              CreateAccepted, CreateAnswerLost, ImportCluster, WaitForCreationComplete,
              CheckWaits, CheckUpdates, SecretCreated, SecretFails, Update, VersionRejected,
              UpdateAccepted, UpdateFails, UpdateFailsHalfway, UpdateRetried, NothingToUpdate,
              EnqueueUpdate, UpdateConfigStatus, storeVars
<1>2. CASE Record \/ Removed
  BY <1>2 DEF Record, StatusWritten, StatusAnswerLost, StatusFails, RecordUnchanged,
              RecordWritten, RecordAnswerLost, RecordFails, Adopted, AdoptAnswerLost,
              AdoptFails, PassEnds, Removed, RemovalCredentialFails, DeletionSkipped,
              DeletionBegins, DeleteAccepted, DeleteNotFound, DeleteGivesUp, DeleteAnswerLost,
              Finalized, FinalizeAnswerLost, FinalizeFails, Finish, FinishWith, storeVars
<1>3. CASE Crash \/ SecretCollected \/ StoreStep \/ ClusterStep \/ UNCHANGED vars
  BY <1>3 DEF Crash, Relist, SecretCollected, StoreStep, StoreNext, Watch, TimerFires, Edit,
              RequestDelete, ClusterStep, vars, storeVars
<1> QED BY <1>1, <1>2, <1>3 DEF Next

\* The worker takes the copy of the cache, keeps it, writes it while it is live, or
\* lets go of it.
Written ==
    /\ pc \in {"status", "record"}
    /\ work'.lifecycle = work.lifecycle
    /\ work'.imported = work.imported
    /\ work' = store'

LEMMA WorkMoves ==
    ASSUME TypeOK, [Next]_vars
    PROVE  \/ work' = work /\ (pc' = "idle" <=> pc = "idle")
           \/ TakeKey
           \/ work' = NewConfig(FALSE) /\ pc' = "idle"
           \/ Written
<1>1. CASE Changed
  BY <1>1 DEF Changed, DropKey, CredentialFails, Dispatch, CallFails, ClusterListed,
              CreateAccepted, CreateAnswerLost, ImportCluster, WaitForCreationComplete,
              CheckWaits, CheckUpdates, SecretCreated, SecretFails, UpdateConfigStatus,
              Goto, Return, Intend, workerVars
<1>2. CASE Update
  BY <1>2 DEF Update, VersionRejected, UpdateAccepted, UpdateFails, UpdateFailsHalfway,
              UpdateRetried, NothingToUpdate, EnqueueUpdate, UpdateConfigStatus, Updates,
              Return, Intend
<1>3. CASE StatusWritten
  BY <1>3 DEF StatusWritten, Write, Written, TypeOK, WorkerTypeOK, Configs
<1>4. CASE RecordWritten
  BY <1>4 DEF RecordWritten, Recorded, Write, Written, TypeOK, WorkerTypeOK, Configs
<1>5. CASE \/ StatusAnswerLost \/ StatusFails
           \/ RecordUnchanged \/ RecordAnswerLost \/ RecordFails
           \/ Adopted \/ AdoptAnswerLost \/ AdoptFails \/ PassEnds \/ Removed \/ Crash
  BY <1>5 DEF StatusAnswerLost, RecordAnswerLost, StatusFails, RecordUnchanged, RecordFails,
              Adopted, AdoptAnswerLost, AdoptFails, PassEnds, Removed, RemovalCredentialFails,
              DeletionSkipped, DeletionBegins, DeleteAccepted, DeleteNotFound, DeleteGivesUp,
              DeleteAnswerLost, Finalized, FinalizeAnswerLost, FinalizeFails, Crash, Goto,
              Finish, FinishWith, Release
<1>6. CASE SecretCollected \/ StoreStep \/ ClusterStep \/ UNCHANGED vars
  BY <1>6 DEF SecretCollected, StoreStep, ClusterStep, vars, workerVars
<1> QED BY <1>1, <1>2, <1>3, <1>4, <1>5, <1>6 DEF Next, Record

\* A worker gets to the calls of OnGkeConfigChanged only through a live copy.
LEMMA ChangedMoves ==
    ASSUME [Next]_vars, pc' \in ChangedCalls
    PROVE  pc \in ChangedCalls \/ (TakeKey /\ cache.lifecycle = "live")
<1> USE DEF ChangedCalls
<1>1. CASE Changed
  BY <1>1 DEF Changed, TakeKey, DropKey, CredentialFails, Dispatch, CallFails, ClusterListed,
              CreateAccepted, CreateAnswerLost, ImportCluster, WaitForCreationComplete,
              CheckWaits, CheckUpdates, SecretCreated, SecretFails, workerVars
<1>2. CASE Update
  BY <1>2 DEF Update, VersionRejected, UpdateAccepted, UpdateFails, UpdateFailsHalfway,
              UpdateRetried, NothingToUpdate, Updates
<1>3. CASE Record
  BY <1>3 DEF Record, StatusWritten, StatusAnswerLost, StatusFails, RecordUnchanged,
              RecordWritten, RecordAnswerLost, RecordFails, Adopted, AdoptAnswerLost,
              AdoptFails, PassEnds
<1>4. CASE Removed
  BY <1>4 DEF Removed, RemovalCredentialFails, DeletionSkipped, DeletionBegins, DeleteAccepted,
              DeleteNotFound, DeleteGivesUp, DeleteAnswerLost, Finalized, FinalizeAnswerLost,
              FinalizeFails, Goto, Finish, FinishWith, Release
<1>5. CASE Crash \/ SecretCollected \/ StoreStep \/ ClusterStep \/ UNCHANGED vars
  BY <1>5 DEF Crash, Release, SecretCollected, StoreStep, ClusterStep, vars, workerVars
<1> QED BY <1>1, <1>2, <1>3, <1>4, <1>5 DEF Next

\* The steps after which the worker is about to remove the finalizer.
LEMMA FinalizeMoves ==
    ASSUME [Next]_vars, pc' = "finalize"
    PROVE  \/ DeletionSkipped \/ DeleteAccepted \/ DeleteNotFound
           \/ pc = "finalize" /\ work' = work
<1>1. ~Changed
  BY DEF Changed, TakeKey, DropKey, CredentialFails, Dispatch, CallFails, ClusterListed,
         CreateAccepted, CreateAnswerLost, ImportCluster, WaitForCreationComplete,
         CheckWaits, CheckUpdates, SecretCreated, SecretFails, UpdateConfigStatus,
         Goto, Return, Intend, workerVars
<1>2. ~Update
  BY DEF Update, VersionRejected, UpdateAccepted, UpdateFails, UpdateFailsHalfway,
         UpdateRetried, NothingToUpdate, EnqueueUpdate, UpdateConfigStatus, Return, Intend
<1>3. ~Record
  BY DEF Record, StatusWritten, StatusAnswerLost, StatusFails, RecordUnchanged, RecordWritten,
         RecordAnswerLost, RecordFails, Adopted, AdoptAnswerLost, AdoptFails, PassEnds, Goto,
         Finish, FinishWith, Release
<1>4. CASE Removed
  BY <1>4 DEF Removed, RemovalCredentialFails, DeletionBegins, DeleteGivesUp,
              DeleteAnswerLost, Finalized, FinalizeAnswerLost, FinalizeFails, Goto, Finish,
              FinishWith, Release
<1>5. CASE Crash \/ SecretCollected \/ StoreStep \/ ClusterStep \/ UNCHANGED vars
  BY <1>5 DEF Crash, Release, SecretCollected, StoreStep, ClusterStep, vars, workerVars
<1> QED BY <1>1, <1>2, <1>3, <1>4, <1>5 DEF Next

Creates == CreateAccepted \/ CreateAnswerLost

Deletes == DeleteAccepted \/ DeleteAnswerLost

\* The operator's own cluster is created when there is none yet, and given up once.
LEMMA OwnMoves ==
    ASSUME Context, GivenUpSeen, [Next]_vars
    PROVE  \/ OwnCluster' = OwnCluster
           \/ Creates /\ OwnCluster = "none" /\ OwnCluster' = "kept"
           \/ Deletes /\ OwnCluster = "kept" /\ OwnCluster' = "givenUp"
<1> USE DEF Context, OwnCluster
<1>1. CASE gke' = gke /\ created' = created
  BY <1>1
<1>2. CASE ClusterStep
  <2>1. created' = created /\ ClusterNext
    BY <1>2 DEF ClusterStep
  <2>2. gke.owner = "operator" => gke.status # "ABSENT"
    BY DEF ClusterInv
  <2>3. gke.owner = "operator" /\ gke.status # "STOPPING"
        <=> gke'.owner = "operator" /\ gke'.status # "STOPPING"
    BY <2>1, <2>2, ClusterLaws DEF TypeOK
  <2> QED BY <2>1, <2>3
<1>3. CASE Creates
  <2>1. pc \in ChangedCalls /\ gke.status = "ABSENT" /\ created'
        /\ gke'.owner = "operator" /\ gke'.status = "PROVISIONING"
    BY <1>3 DEF Creates, CreateAccepted, CreateAnswerLost, ClusterCreate, Absent, ChangedCalls
  <2>2. OwnCluster = "none"
    BY <2>1 DEF GivenUpSeen, ClusterInv
  <2> QED BY <1>3, <2>1, <2>2
<1>4. ASSUME NEW s \in Settings, UpdateAccepted(s) \/ UpdateFailsHalfway(s)
      PROVE  OwnCluster' = OwnCluster
  <2>1. /\ gke.status = "RUNNING"
        /\ gke' = [gke EXCEPT !.status = IF s = "nodePools" THEN "RUNNING" ELSE "RECONCILING",
                              !.operation = s, !.target = spec[s]]
        /\ created' = created
    BY <1>4 DEF UpdateAccepted, UpdateFailsHalfway, StartOperation, Unoccupied
  <2>2. gke'.status \in {"RUNNING", "RECONCILING"} /\ gke'.owner = gke.owner
    BY <2>1 DEF TypeOK, ClusterTypeOK, Clusters
  <2> QED BY <2>1, <2>2
<1>5. CASE Deletes
  <2>1. created /\ created' = created
    BY <1>5 DEF Deletes, DeleteAccepted, DeleteAnswerLost, Ownership, HasOwnCluster
  <2>2. gke'.status = "STOPPING"
    BY <1>5 DEF Deletes, DeleteAccepted, DeleteAnswerLost, ClusterDelete, TypeOK,
                ClusterTypeOK, Clusters
  <2> QED BY <1>5, <2>1, <2>2
<1> QED BY <1>1, <1>2, <1>3, <1>4, <1>5, ClusterMoves DEF Requests, Creates, Deletes

-----------------------------------------------------------------------------
(* The invariant is inductive *)

LEMMA FitsStep ==
    ASSUME Context, LifecycleInv, [Next]_vars
    PROVE  PhaseFits(store)' /\ PhaseFits(cache)' /\ PhaseFits(work)'
<1> USE DEF PhaseFits
<1>1. PhaseFits(store)'
  <2> USE DEF LifecycleInv
  <2>1. CASE StatusMove
    <3>1. pc = "status" /\ store = work
      BY <2>1 DEF StatusMove, StatusWritten, StatusAnswerLost
    <3>2. << store.phase, intent.phase >> \in PhaseSteps(store.imported)
      BY <3>1 DEF Context, CallsInv
    <3>3. store'.phase = intent.phase /\ store'.imported = store.imported
      BY <2>1 DEF StatusMove, Context, TypeOK, StoreTypeOK, Configs
    <3>4. /\ intent.phase = "importing" => store.imported
          /\ intent.phase = "creating" => ~store.imported
      BY <3>2 DEF PhaseSteps, LifecycleInv
    <3> QED BY <3>3, <3>4
  <2>2. CASE RecordMove
    BY <2>2 DEF RecordMove, Context, TypeOK, StoreTypeOK, Configs
  <2>3. CASE ~StatusMove /\ ~RecordMove
    BY <2>3, StoreLaws DEF Context
  <2> QED BY <2>1, <2>2, <2>3
<1>2. PhaseFits(cache)'
  BY <1>1, CacheMoves DEF LifecycleInv
<1>3. PhaseFits(work)'
  <2>1. CASE work' = work
    BY <2>1 DEF LifecycleInv
  <2>2. CASE TakeKey
    BY <2>2 DEF TakeKey, LifecycleInv
  <2>3. CASE work' = NewConfig(FALSE)
    BY <2>3 DEF NewConfig
  <2>4. CASE Written
    BY <1>1, <2>4 DEF Written
  <2> QED BY <2>1, <2>2, <2>3, <2>4, WorkMoves DEF Context
<1> QED BY <1>1, <1>2, <1>3

LEMMA GivenUpStep ==
    ASSUME Context, LifecycleInv, [Next]_vars
    PROVE  GivenUpSeen'
<1> SUFFICES ASSUME OwnCluster' = "givenUp"
             PROVE  cache'.lifecycle # "live" /\ pc' \notin ChangedCalls
  BY DEF GivenUpSeen
<1>1. CASE OwnCluster = "givenUp"
  <2>1. cache.lifecycle # "live" /\ pc \notin ChangedCalls
    BY <1>1 DEF LifecycleInv, GivenUpSeen
  <2>2. store.lifecycle # "live"
    BY <2>1 DEF Context, CopiesInv
  <2> QED BY <2>1, <2>2, CacheMoves, ChangedMoves
<1>2. CASE OwnCluster # "givenUp"
  <2>1. Deletes
    BY <1>2, OwnMoves DEF LifecycleInv
  <2>2. pc = "delete" /\ pc' \in {"finalize", "idle"} /\ cache' = cache
    BY <2>1 DEF Deletes, DeleteAccepted, DeleteAnswerLost, Goto, Finish, Release, storeVars
  <2> QED BY <2>2 DEF Context, CopiesInv, ChangedCalls, RemovedCalls
<1> QED BY <1>1, <1>2

LEMMA DeletionSeenStep ==
    ASSUME Context, LifecycleInv, [Next]_vars
    PROVE  DeletionSeen'
<1> USE DEF LifecycleInv, DeletionSeen, Context
<1>1. /\ store'.imported = store.imported
      /\ store.lifecycle # "live" => store'.phase = store.phase
  BY StoreLaws
<1>2. cache'.imported = store'.imported
  BY <1>1, CacheMoves
<1>3. ASSUME cache'.lifecycle # "live"
      PROVE  cache'.phase = store'.phase
  BY <1>1, <1>3, CacheMoves DEF CopiesInv
<1>4. ASSUME work'.lifecycle # "live"
      PROVE  work'.phase = store'.phase
  <2>1. CASE work' = work
    BY <1>1, <1>4, <2>1 DEF CopiesInv
  <2>2. CASE TakeKey
    BY <1>1, <1>4, <2>2 DEF TakeKey, CopiesInv
  <2>3. CASE work' = NewConfig(FALSE)
    BY <1>4, <2>3 DEF NewConfig
  <2>4. CASE Written
    BY <2>4 DEF Written
  <2> QED BY <2>1, <2>2, <2>3, <2>4, WorkMoves
<1>5. ASSUME pc' # "idle"
      PROVE  work'.imported = store'.imported
  <2>1. CASE work' = work /\ (pc' = "idle" <=> pc = "idle")
    BY <1>1, <1>5, <2>1
  <2>2. CASE TakeKey
    BY <1>1, <2>2 DEF TakeKey
  <2>3. CASE Written
    BY <2>3 DEF Written
  <2> QED BY <1>5, <2>1, <2>2, <2>3, WorkMoves
<1> QED BY <1>2, <1>3, <1>4, <1>5

LEMMA LetGoStep ==
    ASSUME Context, LifecycleInv, [Next]_vars
    PROVE  LetGo'
<1> USE DEF LifecycleInv, Context
<1>1. OwnCluster = "givenUp" => OwnCluster' = "givenUp"
  BY OwnMoves
<1>2. ASSUME pc' = "finalize"
      PROVE  MayGo(work)'
  <2>1. CASE DeletionSkipped
    BY <2>1 DEF DeletionSkipped, Goto, MayGo
  <2>2. CASE DeleteAccepted
    <3>1. created' /\ gke'.status = "STOPPING"
      BY <2>2 DEF DeleteAccepted, ClusterDelete, Ownership, HasOwnCluster, TypeOK,
                  ClusterTypeOK, Clusters
    <3> QED BY <3>1 DEF MayGo, OwnCluster
  <2>3. CASE DeleteNotFound
    <3>1. created /\ gke.status = "ABSENT" /\ created' = created /\ gke' = gke
      BY <2>3 DEF DeleteNotFound, Ownership, HasOwnCluster, Environment
    <3> QED BY <3>1 DEF MayGo, OwnCluster, ClusterInv
  <2>4. CASE pc = "finalize" /\ work' = work
    BY <1>1, <2>4 DEF LetGo, MayGo
  <2> QED BY <1>2, <2>1, <2>2, <2>3, <2>4, FinalizeMoves
<1>3. ASSUME store'.lifecycle = "gone", "deleting" \in {cache'.lifecycle, work'.lifecycle}
      PROVE  store'.imported \/ store'.phase = "notCreated" \/ OwnCluster' # "kept"
  <2>1. CASE store.lifecycle = "gone"
    <3>1. store' = store
      BY <2>1, StoreLaws
    <3>2. "deleting" \in {cache.lifecycle, work.lifecycle}
      <4>1. cache'.lifecycle = "deleting" => cache.lifecycle = "deleting"
        BY <2>1, CacheMoves
      <4>2. work'.lifecycle = "deleting" =>
              work.lifecycle = "deleting" \/ cache.lifecycle = "deleting"
        <5>1. NewConfig(FALSE).lifecycle = "live"
          BY DEF NewConfig
        <5> QED BY <5>1, WorkMoves DEF TakeKey, Written
      <4> QED BY <1>3, <4>1, <4>2
    <3>3. store.imported \/ store.phase = "notCreated" \/ OwnCluster # "kept"
      BY <2>1, <3>2 DEF LetGo
    <3>4. Creates => OwnCluster # "none" \/ store.imported \/ store.phase = "notCreated"
      BY DEF OwnCluster, Ownership, HasOwnCluster
    <3> QED BY <3>1, <3>3, <3>4, OwnMoves
  <2>2. CASE FinalMove
    <3>1. pc = "finalize" /\ store = work /\ gke' = gke /\ created' = created
      BY <2>2 DEF FinalMove, Finalized, FinalizeAnswerLost, Environment
    <3>2. store'.imported = store.imported /\ store'.phase = store.phase
      BY <2>2 DEF FinalMove, TypeOK, StoreTypeOK, Configs
    <3> QED BY <3>1, <3>2 DEF LetGo, MayGo, OwnCluster
  <2>3. CASE UserMove /\ store.lifecycle = "live"
    <3>1. cache' = cache /\ work' = work
      BY <2>3 DEF UserMove, Edit, RequestDelete, StoreStep, workerVars
    <3> QED BY <1>3, <2>3, <3>1 DEF CopiesInv
  <2>4. CASE UserMove /\ store.lifecycle = "deleting"
    <3>1. store'.lifecycle = "deleting"
      BY <2>4 DEF UserMove, Edit, RequestDelete, Write, TypeOK, StoreTypeOK, Configs
    <3> QED BY <1>3, <3>1
  <2>5. CASE StatusMove \/ RecordMove \/ AdoptMove
    BY <1>3, <2>5 DEF StatusMove, RecordMove, AdoptMove, TypeOK, StoreTypeOK, Configs
  <2>6. store.lifecycle \in {"live", "deleting", "gone"}
    BY DEF TypeOK, StoreTypeOK, Configs, Lifecycles
  <2> QED BY <1>3, <2>1, <2>2, <2>3, <2>4, <2>5, <2>6, StoreMoves
<1> QED BY <1>2, <1>3 DEF LetGo

-----------------------------------------------------------------------------
(* The refinement *)

\* A worker that is about to write a status has the cluster it writes about.
LEMMA ClusterKept ==
    ASSUME Context, LifecycleInv, pc = "status"
    PROVE  work.imported \/ OwnCluster = "kept"
BY DEF Context, LifecycleInv, GivenUpSeen, Ownership, OwnCluster, ChangedCalls

LEMMA InitMaps ==
    ASSUME Init
    PROVE  Lifecycle!Init
BY DEF Init, StoreInit, NewConfig, Lifecycle!Init, OwnCluster

\* A step changes the cluster or the stored object, not both.
LEMMA OneAtATime ==
    ASSUME [Next]_vars
    PROVE  store' = store \/ (gke' = gke /\ created' = created)
BY StoreStays
   DEF Next, Record, Removed, StatusWritten, StatusAnswerLost, RecordWritten,
       RecordAnswerLost, Adopted, AdoptAnswerLost, Finalized, FinalizeAnswerLost, StoreStep,
       Environment

LEMMA StepMaps ==
    ASSUME Context, LifecycleInv, [Next]_vars
    PROVE  [Lifecycle!Next]_(Lifecycle!vars)
<1> USE DEF Context
<1>1. CASE store' = store
  <2>1. CASE OwnCluster' = OwnCluster
    BY <1>1, <2>1 DEF Lifecycle!vars
  <2>2. CASE Creates /\ OwnCluster = "none" /\ OwnCluster' = "kept"
    <3>1. pc = "create"
      BY <2>2 DEF Creates, CreateAccepted, CreateAnswerLost
    <3>2. ~store.imported
      BY <3>1 DEF CallsInv, LifecycleInv, DeletionSeen
    <3>3. store.phase = "notCreated"
      BY <2>2, <3>2 DEF OwnCluster, Ownership, HasOwnCluster
    <3>4. Lifecycle!Create
      BY <1>1, <2>2, <3>2, <3>3 DEF Lifecycle!Create
    <3> QED BY <3>4 DEF Lifecycle!Next
  <2>3. CASE Deletes /\ OwnCluster = "kept" /\ OwnCluster' = "givenUp"
    <3>1. /\ pc = "delete" /\ work.lifecycle = "deleting"
          /\ ~work.imported /\ work.phase # "notCreated"
      BY <2>3 DEF Deletes, DeleteAccepted, DeleteAnswerLost, Ownership, CopiesInv, RemovedCalls
    <3>2. ~store.imported /\ store.phase # "notCreated" /\ store.lifecycle # "live"
      BY <3>1 DEF LifecycleInv, DeletionSeen, CopiesInv
    <3>3. store.lifecycle = "deleting"
      BY <2>3, <3>1, <3>2 DEF LifecycleInv, LetGo, TypeOK, StoreTypeOK, Configs, Lifecycles
    <3>4. Lifecycle!GiveUpCluster
      BY <1>1, <2>3, <3>2, <3>3 DEF Lifecycle!GiveUpCluster
    <3> QED BY <3>4 DEF Lifecycle!Next
  <2> QED BY <2>1, <2>2, <2>3, OwnMoves DEF LifecycleInv
<1>2. CASE store' # store
  <2>1. OwnCluster' = OwnCluster
    BY <1>2, OneAtATime DEF OwnCluster
  <2>2. CASE StatusMove
    <3>1. /\ pc = "status" /\ store = work /\ store.lifecycle = "live"
          /\ store'.phase = intent.phase /\ store'.imported = store.imported
          /\ store'.lifecycle = store.lifecycle
      BY <2>2 DEF StatusMove, StatusWritten, StatusAnswerLost, TypeOK, StoreTypeOK, Configs
    <3>2. << store.phase, store'.phase >> \in PhaseSteps(store.imported)
      BY <3>1 DEF CallsInv
    <3>3. store.imported \/ OwnCluster = "kept"
      BY <3>1, ClusterKept
    <3>4. PhaseFits(store)
      BY DEF LifecycleInv
    <3> USE <2>1, <3>1, <3>3 DEF Lifecycle!Advance
    <3>5. CASE store.phase = "notCreated" /\ store.imported /\ store'.phase = "importing"
      BY <3>5 DEF Lifecycle!Next, Lifecycle!Import
    <3>6. CASE store.phase = "notCreated" /\ ~store.imported /\ store'.phase = "creating"
      BY <3>6 DEF Lifecycle!Next, Lifecycle!AwaitCreation
    <3>7. CASE store.phase = "importing" /\ store'.phase = "active"
      BY <3>4, <3>7 DEF PhaseFits, Lifecycle!Next, Lifecycle!Adopt
    <3>8. CASE store.phase = "creating" /\ store'.phase = "active"
      BY <3>4, <3>8 DEF PhaseFits, Lifecycle!Next, Lifecycle!Complete
    <3>9. CASE store.phase = "active" /\ store'.phase = "updating"
      BY <3>9 DEF Lifecycle!Next, Lifecycle!Update
    <3>10. CASE store.phase = "updating" /\ store'.phase = "active"
      BY <3>10 DEF Lifecycle!Next, Lifecycle!Settle
    <3>11. CASE store'.phase = store.phase
      BY <3>11 DEF Lifecycle!vars
    <3> QED BY <3>2, <3>5, <3>6, <3>7, <3>8, <3>9, <3>10, <3>11 DEF PhaseSteps
  <2>3. CASE RecordMove
    <3>1. /\ store.lifecycle = "live"
          /\ store'.imported = store.imported /\ store'.lifecycle = store.lifecycle
          /\ \/ store'.phase = store.phase
             \/ store.phase = "active" /\ store'.phase = "updating"
      BY <2>3 DEF RecordMove, TypeOK, StoreTypeOK, Configs
    <3> QED BY <2>1, <3>1
            DEF Lifecycle!Next, Lifecycle!Update, Lifecycle!Advance, Lifecycle!vars
  <2>4. CASE AdoptMove
    <3>1. /\ store'.imported = store.imported /\ store'.lifecycle = store.lifecycle
          /\ store'.phase = store.phase
      BY <2>4 DEF AdoptMove, TypeOK, StoreTypeOK, Configs
    <3> QED BY <2>1, <3>1 DEF Lifecycle!vars
  <2>5. CASE FinalMove
    <3>1. /\ pc = "finalize" /\ store = work /\ store.lifecycle = "deleting"
          /\ store'.imported = store.imported /\ store'.lifecycle = "gone"
          /\ store'.phase = store.phase
      BY <2>5 DEF FinalMove, Finalized, FinalizeAnswerLost, TypeOK, StoreTypeOK, Configs
    <3>2. store.imported \/ store.phase = "notCreated" \/ OwnCluster = "givenUp"
      BY <3>1 DEF LifecycleInv, LetGo, MayGo
    <3>3. Lifecycle!Finalize
      BY <2>1, <3>1, <3>2 DEF Lifecycle!Finalize
    <3> QED BY <3>3 DEF Lifecycle!Next
  <2>6. CASE UserMove /\ Edit
    <3>1. /\ store'.imported = store.imported /\ store'.lifecycle = store.lifecycle
          /\ store'.phase = store.phase
      BY <2>6 DEF Edit, Write, TypeOK, StoreTypeOK, Configs
    <3> QED BY <2>1, <3>1 DEF Lifecycle!vars
  <2>7. CASE UserMove /\ RequestDelete
    <3>1. /\ store'.imported = store.imported /\ store'.phase = store.phase
          /\ store.lifecycle = "live" /\ store'.lifecycle \in {"deleting", "gone"}
      BY <2>7 DEF RequestDelete, Write, TypeOK, StoreTypeOK, Configs
    <3>2. Lifecycle!RequestDelete
      BY <2>1, <3>1 DEF Lifecycle!RequestDelete
    <3> QED BY <3>2 DEF Lifecycle!Next
  <2> QED BY <1>2, <2>2, <2>3, <2>4, <2>5, <2>6, <2>7, StoreMoves DEF UserMove
<1> QED BY <1>1, <1>2

\* Whatever fails, crashes or is out of date, the controller keeps to the lifecycle:
\* phases follow their order, a config's cluster is created at most once, only a
\* config under deletion gives its cluster up, and only one that has given it up, or
\* never got to creating one that it knows of, is let go.
THEOREM KeepsLifecycle == Spec => ImplementsLifecycle
<1>1. Init => Context /\ LifecycleInv
  BY InitContext, InitLifecycle
<1>2. Context /\ LifecycleInv /\ [Next]_vars => (Context /\ LifecycleInv)'
  <2> SUFFICES ASSUME Context, LifecycleInv, [Next]_vars
               PROVE  (Context /\ LifecycleInv)'
    OBVIOUS
  <2>1. Context'
    BY ContextStep
  <2>2. LifecycleInv'
    BY FitsStep, GivenUpStep, DeletionSeenStep, LetGoStep DEF LifecycleInv
  <2> QED BY <2>1, <2>2
<1>3. Init => Lifecycle!Init
  BY InitMaps
<1>4. Context /\ LifecycleInv /\ [Next]_vars => [Lifecycle!Next]_(Lifecycle!vars)
  BY StepMaps
<1> QED BY <1>1, <1>2, <1>3, <1>4, PTL DEF Spec, ImplementsLifecycle, Lifecycle!Spec

-----------------------------------------------------------------------------
(* The network policy add-on outlives the network policy, for every value of   *)
(* the constants in which no spec asks for the policy without the add-on       *)

\* What a pass has read of its cluster holds when it asks for an update, also where
\* the config was edited or deleted since; and the add-on is being switched off only
\* while the policy is off.
PolicyInv ==
    /\ gke.status = "STOPPING" => created
    /\ pc = "update" => Undisturbed /\ Agrees(snapshot.conf)
    /\ gke.operation = "clusterAddons" /\ gke.target = 0 => Upstream["networkPolicy"] = 0

LEMMA PolicySettings ==
    /\ "networkPolicy" \in Settings
    /\ "clusterAddons" \in Settings
    /\ NoOperation # "clusterAddons"
BY DEF Settings, UpdateOrder, NoOperation

LEMMA InitPolicy ==
    ASSUME Init
    PROVE  PolicyInv
<1>1. CASE gke = Absent
  BY <1>1 DEF Init, Absent, PolicyInv, NoOperation
<1>2. CASE gke = [Absent EXCEPT !.status = "RUNNING", !.owner = "others"]
  BY <1>2 DEF Init, Absent, PolicyInv, NoOperation
<1> QED BY <1>1, <1>2 DEF Init, ClusterInit

\* A pass goes on only while nobody deletes the cluster.
LEMMA PassGoesOn ==
    ASSUME Context, LifecycleInv, PolicyInv, pc = "update"
    PROVE  gke.status # "STOPPING"
BY DEF LifecycleInv, GivenUpSeen, PolicyInv, OwnCluster, ChangedCalls

\* An update of the add-ons that switches the policy's off finds the policy off.
LEMMA AddonsLast ==
    ASSUME Context, PolicyInv, NEW s \in Settings, Updates(s), s = "clusterAddons",
           \A g \in 1 .. LastGeneration :
                Revision[g]["clusterAddons"] = 0 => Revision[g]["networkPolicy"] = 0,
           spec[s] = 0
    PROVE  Upstream["networkPolicy"] = 0
<1>1. Agrees(snapshot.conf)
  BY DEF PolicyInv, Updates
<1>2. spec["networkPolicy"] = 0
  BY DEF spec, Context, TypeOK, WorkerTypeOK, Configs
<1>3. "clusterAddons" \in Ready(spec, snapshot.conf)
  BY DEF Updates, NextSettings
<1>4. ~AddonsMustWait(spec, snapshot.conf)
  BY <1>3 DEF Ready
<1>5. snapshot.conf["networkPolicy"] = 0
  BY <1>2, <1>4 DEF AddonsMustWait
<1> QED BY <1>1, <1>5, PolicySettings DEF Agrees, Upstream

LEMMA PolicyStep ==
    ASSUME \A g \in 1 .. LastGeneration :
                Revision[g]["clusterAddons"] = 0 => Revision[g]["networkPolicy"] = 0,
           Context, LifecycleInv, PolicyInv, [Next]_vars
    PROVE  PolicyInv'
<1> USE DEF Context
<1>1. gke'.status = "STOPPING" => created'
  <2>1. CASE gke' = gke /\ created' = created
    BY <2>1 DEF PolicyInv
  <2>2. CASE ClusterStep
    BY <2>2, ClusterLaws DEF ClusterStep, PolicyInv, TypeOK
  <2>3. CASE Creates
    BY <2>3 DEF Creates, CreateAccepted, CreateAnswerLost
  <2>4. CASE Deletes
    BY <2>4 DEF Deletes, DeleteAccepted, DeleteAnswerLost, Ownership, HasOwnCluster
  <2>5. ASSUME NEW s \in Settings, UpdateAccepted(s) \/ UpdateFailsHalfway(s)
        PROVE  gke'.status # "STOPPING"
    BY <2>5 DEF UpdateAccepted, UpdateFailsHalfway, StartOperation, TypeOK, ClusterTypeOK,
                Clusters
  <2> QED BY <2>1, <2>2, <2>3, <2>4, <2>5, ClusterMoves DEF Requests, Creates, Deletes
<1>2. ASSUME pc' = "update"
      PROVE  Undisturbed' /\ Agrees(snapshot.conf)'
  <2>1. CASE CheckUpdates
    <3>1. gke' = gke /\ snapshot' = gke
      BY <2>1 DEF CheckUpdates, Environment
    <3>2. gke.status # "ABSENT" /\ gke.operation = NoOperation
      BY <2>1 DEF CheckUpdates, NodePoolsBusy, ClusterInv
    <3> QED BY <3>1, <3>2 DEF Undisturbed, Agrees
  <2>2. CASE Others
    <3>1. pc = "update" /\ snapshot' = snapshot /\ (gke' = gke \/ ClusterNext)
      BY <1>2, <2>2, OthersKeep DEF workerVars
    <3>2. Undisturbed /\ Agrees(snapshot.conf)
      BY <3>1 DEF PolicyInv
    <3>3. Undisturbed' /\ \A s \in Settings \ {"kubernetesVersion"} : gke'.conf[s] = gke.conf[s]
      BY <3>1, <3>2, PassGoesOn, ClusterKeeps DEF TypeOK, Undisturbed
    <3> QED BY <3>1, <3>2, <3>3 DEF Agrees
  <2> QED BY <1>2, <2>1, <2>2, LookedMoves
<1>3. ASSUME gke'.operation = "clusterAddons", gke'.target = 0
      PROVE  gke'.conf["networkPolicy"] = 0
  <2> USE DEF Upstream, TypeOK, ClusterTypeOK, Clusters
  <2>1. CASE gke' = gke
    BY <1>3, <2>1 DEF PolicyInv
  <2>2. CASE ClusterStep
    <3>1. CASE Provisioned
      BY <1>3, <3>1 DEF Provisioned, PolicyInv
    <3>2. CASE ProvisionFails
      BY <1>3, <3>2 DEF ProvisionFails, PolicyInv
    <3>3. ~OperationDone /\ ~OperationFails
      BY <1>3, PolicySettings DEF OperationDone, OperationFails, Ended
    <3>4. ~Deleted
      BY <1>3, PolicySettings DEF Deleted, Absent
    <3>5. ~AutoUpgrade
      BY <1>3 DEF AutoUpgrade
    <3>6. ~OthersCreate
      BY <1>3, PolicySettings DEF OthersCreate, Absent
    <3> QED BY <2>2, <3>1, <3>2, <3>3, <3>4, <3>5, <3>6 DEF ClusterStep, ClusterNext
  <2>3. ~Creates
    BY <1>3, PolicySettings DEF Creates, CreateAccepted, CreateAnswerLost, ClusterCreate, Absent
  <2>4. CASE Deletes
    BY <1>3, <2>4 DEF Deletes, DeleteAccepted, DeleteAnswerLost, ClusterDelete, PolicyInv
  <2>5. ASSUME NEW s \in Settings, UpdateAccepted(s) \/ UpdateFailsHalfway(s)
        PROVE  gke'.conf["networkPolicy"] = 0
    <3>1. Updates(s) /\ StartOperation(s, spec[s])
      BY <2>5 DEF UpdateAccepted, UpdateFailsHalfway
    <3>2. s = "clusterAddons" /\ spec[s] = 0 /\ gke'.conf = gke.conf
      BY <1>3, <3>1 DEF StartOperation
    <3> QED BY <3>1, <3>2, AddonsLast
  <2> QED BY <2>1, <2>2, <2>3, <2>4, <2>5, ClusterMoves DEF Requests, Creates, Deletes
<1> QED BY <1>1, <1>2, <1>3 DEF PolicyInv, Upstream

\* The network policy add-on is switched off only after the network policy, although
\* the two are asked for by different passes, which may be cut off anywhere.  For a spec
\* that wants the policy without its add-on UpdateClusterAddons does not wait, so there
\* must not be any.
THEOREM AddonGoesLast ==
    ASSUME \A g \in 1 .. LastGeneration :
                Revision[g]["clusterAddons"] = 0 => Revision[g]["networkPolicy"] = 0
    PROVE  Spec => AddonOutlivesPolicy
<1> DEFINE Inv == Context /\ LifecycleInv /\ PolicyInv
<1>1. Init => Inv
  BY InitContext, InitLifecycle, InitPolicy
<1>2. Inv /\ [Next]_vars => Inv'
  <2> SUFFICES ASSUME Inv, [Next]_vars
               PROVE  Inv'
    OBVIOUS
  <2>1. Context' /\ PolicyInv'
    BY ContextStep, PolicyStep
  <2>2. LifecycleInv'
    BY FitsStep, GivenUpStep, DeletionSeenStep, LetGoStep DEF LifecycleInv
  <2> QED BY <2>1, <2>2
<1>3. Inv /\ [Next]_vars =>
        [gke.status = "RECONCILING"
            /\ Upstream["clusterAddons"] # 0 /\ gke'.conf["clusterAddons"] = 0
         => Upstream["networkPolicy"] = 0]_vars
  <2> SUFFICES ASSUME Inv, [Next]_vars, gke.status = "RECONCILING",
                      Upstream["clusterAddons"] # 0, gke'.conf["clusterAddons"] = 0
               PROVE  Upstream["networkPolicy"] = 0
    OBVIOUS
  <2> USE DEF Context, TypeOK, ClusterTypeOK, Clusters, Upstream
  <2>1. gke'.conf # gke.conf
    OBVIOUS
  <2>2. ~Requests
    BY <2>1 DEF Requests, CreateAccepted, CreateAnswerLost, ClusterCreate, UpdateAccepted,
                UpdateFailsHalfway, StartOperation, DeleteAccepted, DeleteAnswerLost,
                ClusterDelete
  <2>3. ClusterStep
    BY <2>1, <2>2, ClusterMoves
  <2>4. OperationDone
    BY <2>1, <2>3 DEF ClusterStep, ClusterNext, Provisioned, ProvisionFails, OperationFails,
                      Ended, Deleted, AutoUpgrade, Unoccupied, OthersCreate
  <2>5. gke'.conf = [gke.conf EXCEPT ![gke.operation] = gke.target]
    BY <2>4 DEF OperationDone, Ended
  <2>6. gke.operation = "clusterAddons" /\ gke.target = 0
    BY <2>5, PolicySettings DEF Confs
  <2> QED BY <2>6 DEF PolicyInv
<1> QED BY <1>1, <1>2, <1>3, PTL DEF Spec, AddonOutlivesPolicy
=============================================================================
