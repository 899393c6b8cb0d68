# A TLA+ model of the GKE operator

The operator keeps one Google Kubernetes Engine cluster in line with each
`GKEClusterConfig` object: it creates or imports the cluster, polls it, sends
one update after the other until it has what the spec asks for, and deletes it
with the config. This directory models that controller, checks the model with
TLC and proves theorems about it with TLAPS.

## The system: inventory

| Part | Source | State it keeps | Operations | What is hard | What makes it correct |
|---|---|---|---|---|---|
| Controller | `controller/gke-cluster-config-handler.go` | phase, message and failureMessage in the status of the config; the Handler's `gkeClient` and `gkeClientCtx` | `OnGkeConfigChanged` (`create`, `importCluster`, `waitForCreationComplete`, `checkAndUpdate`), `recordError`, `OnGkeConfigRemoved` | works on cached copies; two status writes per pass; crash between a call to GKE and the write that records it; nothing but events and timers brings a config back; workers share the client | phases in order, only own clusters deleted, active only when in sync, no config forgotten |
| Upstream update | `pkg/gke/update.go` | none | nine `Update*` functions on the cluster, in a fixed order, one request per pass | order of dependent settings, settings that GKE changes by itself, nil against empty | reaches the spec, does not oscillate |
| Node pool update | `pkg/gke/update.go`, handler lines 440-543 | none | five updates per pool, create, remove | map order, error half-way, busy pools | every pool reaches its spec, none is removed by mistake, none runs ahead of the control plane |
| Creation | `pkg/gke/create.go` | writes the derived release channel into the spec it is given | `Create`, `validateCreateRequest`, `CreateNodePool` | list-then-create race, lost answer, choice of a channel, pointers checked far from their use | never creates twice, asks only for what was checked |
| Deletion | `pkg/gke/delete.go` | none | `RemoveCluster` (12 attempts, 30 s apart), `RemoveNodePool` | busy cluster, cluster already gone, worker held for minutes | ends, releases nothing that is not deleted |
| API type | `pkg/apis/gke.cattle.io/v1/types.go` | spec and status | - | optional fields | - |
| Credentials, client | `controller/external.go`, `pkg/gke/client.go` | none | `GetSecret`, `GetGKEClusterClient` | secret may be missing | the client of a pass is that of its config |
| API server, informer, work queue | Kubernetes, wrangler (external) | stored object, cache, queue, timers, finalizer | watch, update with resource version, delayed keys | stale cache, conflicts, restart | - |
| GKE | Google (external; `pkg/gke/services/gke.go` forwards the calls) | the cluster, its node pools and their pending operations | create, update, delete | one operation at a time, asynchronous, may fail, upgrades by itself | - |
| Start-up | `main.go` | - | three workers over one Handler | - | - |
| Generated code, charts, scripts | `pkg/generated`, `zz_generated_deepcopy.go`, ... | - | - | - | not modelled |

The controller is called with one key at a time per config (the work queue), by
three workers for all configs (`main.go:66`). It talks to GKE over HTTP, to the
API server through wrangler clients, and reads configs from the informer cache.

Four specifications look at it, each with the state its questions need:

| Specification | One pass is | In detail | Left to the others |
|---|---|---|---|
| `ConfigController` | one step per call | the object, its cache and queue, both status writes, deletion, crashes | what exactly an update sends |
| `UpstreamSync` | one step per call of GKE | the nine updates, the node pools, what a spec may leave out | how the object is stored and cached |
| `ClusterCreation` | one step per call | every check, the release channel, the object in the cache | what follows an accepted creation |
| `SharedHandler` | one step per call | several workers, the shared client and context, the attempts of a deletion | what is called |

## Modules

- `ClusterSettings`: what a spec asks and a cluster has, setting by setting; the
  order of the updates (`UpdateOrder`), what is out of date (`Outdated`), the add-on
  that waits (`AddonsMustWait`), and what the next request changes (`NextSettings`).
  A value is a number: a version, 0 for a switch that is off, or a payload.
- `GKECluster` (external): the cluster of the name in the config, with its status,
  configuration, owner and pending operation. An operation on the control plane
  shows in the cluster's status, one on the pools only in the pools.
- `ConfigStore` (external): the stored object, the informer's copy, the queued
  key and the pending timer. Of resource versions only equality with the stored
  one matters, so they are kept as the set `stale` of copies that are behind.
- `ConfigController`: extends both and adds the worker. `pc` names the call the
  worker makes next; every call is a step, with a step for its failure, so that
  users, GKE, the informer and a crash can come in between. `work` is the `config`
  variable the handlers pass along, `intent` the status about to be written,
  `err` what `onChange` returns. `created` is a history variable: GKE has accepted a
  `ClusterCreate` for this config.
- `ConfigLifecycle`: the abstract specification, which `ConfigController`
  implements under the mapping in `Lifecycle`.
- `ConfigControllerProofs`, `ConfigSettlingProofs` and `ConfigLifecycleProofs`, each
  extending the one before: the theorems.
  `MCConfigController`: the instances.

For the passes over an existing cluster:

- `ReleaseChannels`: the names of channels in specs and at GKE and the two mappings.
- `ClusterUpdates`: the nine update functions. Each takes the spec and what
  `buildUpstreamClusterState` reports, and gives the fields that its request changes, as
  a function with an empty domain where the code answers `NotChanged`. `FirstUpdate`
  is the one whose turn it is.
- `NodePoolUpdates`: `buildNodePoolMap`, the five functions for a pool, and what
  validates and builds a new one.
- `UpstreamSync`: the passes made of them, over the stored spec, the phase, the cluster,
  its pools and what GKE works on.
- `Reconciliation`: what these passes promise for a spec that stays; `UpstreamSync`
  implements it with `OutOfSync` for `lacking` and `Overlooked` for `overlooked`.
- `NodePoolUpdatesProofs`, `UpstreamSyncProofs` and `UpstreamSettlingProofs`, each extending the
  one before: the theorems. `MCUpstreamSync`: the instances.

For creation: `ClusterCreation`, `ClusterCreationProofs`, `MCClusterCreation`. For the
workers: `SharedHandler`, `SharedHandlerProofs`, `MCSharedHandler`.

`ConfigController`:

| Source | Actions |
|---|---|
| `OnGkeConfigChanged` | `TakeKey`, `DropKey`, `CredentialFails`, `Dispatch` |
| `create`, `gke.Create` | `Dispatch` (import), `ClusterListed`, `CreateAccepted`, `CreateAnswerLost`, `CallFails` |
| `importCluster`, `waitForCreationComplete`, `createCASecret` | `ImportCluster`, `WaitForCreationComplete`, `SecretCreated`, `SecretFails` |
| `checkAndUpdate` | `CheckWaits`, `CheckUpdates` |
| `updateUpstreamClusterState` | `VersionRejected`, `UpdateAccepted`, `UpdateFails`, `UpdateFailsHalfway`, `UpdateRetried`, `NothingToUpdate` |
| `updateConfigStatus`, `enqueueUpdate`, `UpdateStatus` | `UpdateConfigStatus`, `EnqueueUpdate` (used in actions), `StatusWritten`, `StatusAnswerLost`, `StatusFails` |
| `recordError` | `RecordUnchanged`, `RecordWritten`, `RecordAnswerLost`, `RecordFails` |
| wrangler's remove handler | `Adopted`, `AdoptAnswerLost`, `AdoptFails`, `PassEnds`, `Finalized`, `FinalizeAnswerLost`, `FinalizeFails` |
| `OnGkeConfigRemoved`, `RemoveCluster` | `RemovalCredentialFails`, `DeletionSkipped`, `DeletionBegins`, `DeleteAccepted`, `DeleteNotFound`, `DeleteGivesUp`, `DeleteAnswerLost` |

`UpstreamSync`:

| Source | Actions |
|---|---|
| `checkAndUpdate` | `CheckWaits`, `CheckUpdates` |
| `updateUpstreamClusterState`, the cluster | `UpdateCluster`, `SetLabels`, `ClusterCallRefused` |
| `updateUpstreamClusterState`, the pools | `UpdatePool`, `CreatePool`, `RemovePool`, `PoolsDone`, `PoolCallRefused` |
| `updateConfigStatus`, `enqueueUpdate`, `recordError` | `Settles`, `Waits`, `Fails` (used in actions) |
| GKE, its other clients, users, restarts | `OperationDone`, `OperationFails`, `PoolDone`, `PoolFails`, `AutoUpgrade`, `PoolAutoUpgrade`, `OthersLabel`, `OthersRemove`, `Edit`, `Restart` |

`ClusterCreation`:

| Source | Actions |
|---|---|
| `create`, checks before the first call | `Begin` |
| `ClusterList` and the checks after it | `List` |
| `ServerConfigGet`, `validateVersionForReleaseChannel` or `resolveReleaseChannelFromVersion` | `CheckChannel`, `DeriveChannel` |
| the other checks, `newClusterCreateRequest` | `CheckFields` |
| `ClusterCreate` | `Create` |
| `recordError` | `Fails` (used in actions) |
| wrangler's remove handler | `HandsOn` (used in actions), `Adopt`, `AdoptRefused`, `AdoptFails` |
| informer, users, GKE, restarts | `Watch`, `Edit`, `CallFails`, `OthersChange`, `Restart` |

`SharedHandler`:

| Source | Actions |
|---|---|
| `OnGkeConfigChanged`, `OnGkeConfigRemoved`, their first lines | `Take`, `ClientMade` |
| a call into package gke, its answer | `Call`, `Answered`, `CallCancelled`, `CallFails` |
| the rest of `OnGkeConfigRemoved` | `DeletionSkipped` |
| `RemoveCluster` | `DeleteAccepted`, `DeleteAcceptedOnly`, `DeleteNotFound`, `DeleteWaits`, `DeleteGivesUp` |
| work queue, users, GKE | `Queue`, `Event`, `RequestDelete`, `Operation` |

wrangler calls the handlers in the order of their registration: the remove handler
adds its finalizer to a live config after the change handler is through, and
removes it after `OnGkeConfigRemoved` returns without error. A handler whose
`UpdateStatus` failed hands on the object its pass began with.

Definitions introduced by "A slip for the runs to catch" are not part of the
specification. Each is a variant of the definition after it with a plausible
bug; substituted for it, it makes the property named for it in `PROJECT.json` fail.

### Abstractions

Of `ConfigController`:

- A setting is one value. The whole pass over the node pools is one setting,
  `nodePools`, that may be started, retried, or fail after something was started.
- A spec that sets the add-ons off also sets the network policy
  (`RevisionAssumption`): the code dereferences that field.
- `imported` never changes (`norman:"noupdate"`, types.go:63). Other than
  by this config, the cluster is neither deleted nor changed, but for upgrades of
  the control plane by GKE (`AutoUpgrade`); others may create one while there is none.
- Operations on the control plane show as RECONCILING as soon as the request is
  accepted, which is what `checkAndUpdate` relies on.
- `RemoveCluster`'s attempts are one step that succeeds at a moment GKE accepts,
  or gives up. Periodic resynchronisation of the informer is left out:
  the properties must hold without it.
- Every write to the API server and every request to GKE either happens and is answered, or does not
  happen, or happens and its answer is lost, which is an error for the handlers.
- Error and status messages are told apart only as far as the code compares them.

Of `UpstreamSync` and the modules it uses:

- The object is the stored one, a key that is due is taken in the end, and a status
  write made after an edit is refused (`Written`). What a lagging cache, a lost write
  and a crash between calls do is in `ConfigController`.
- Messages and whether an error is already on record are not kept: `recordError` may or
  may not move the phase (`Fails`).
- GKE takes an autoscaling or management message as a whole: the Go client leaves out
  fields that are false or zero, and the fields left out are reset. Under the other
  reading (left out means unchanged) nothing could ever be switched off.
- GKE reports a pool as RECONCILING, PROVISIONING or STOPPING from the moment it accepts
  a request for it, and the size of a pool as the count last set. Its clusters always have a management message and a config
  per pool, as the code takes for granted.
- Locations are sorted before they are compared, so their order is left out, but not how
  often a spec lists one: a location listed twice never compares equal and is sent on
  every pass. An image type is compared in lower case, so it is one value; blocks are
  lists, because they are compared as lists.
- GKE reports an AddonsConfig for every cluster. Of a cluster without one,
  `buildUpstreamClusterState` would report all three add-ons as off (handler.go:624-641);
  with one it reports as on an add-on that is not mentioned, which is modelled.
- The lists of pools and of authorized blocks have no nil entries. The code does not check
  that (create.go:143-147 dereferences them), but the CRD has no such entry nullable, and
  the API server refuses one.
- Versions are major and minor numbers. GKE accepts no lower minor version and nothing
  across majors.
- Others label the cluster and remove pools the spec does not list. They do not
  add pools, nor remove those it lists.

Of `ClusterCreation`:

- The handler works on the object in the informer's cache, not on a copy: it copies it
  itself (`DeepCopy`) wherever it means to change it, and `validateCreateRequest` does not.
  An event replaces the object in the cache; an attempt keeps the one it has.
- Until the stored object has its finalizer, wrangler's remove handler writes back the object
  each attempt leaves. After an error that was recorded that is the stored one; if it was
  not recorded, because it is on record already or the write failed, it is the attempt's
  own, and a derived channel gets into the stored spec. From then on it counts
  as requested. `Creates` is about the stored spec, whoever wrote it.
- A refused `ServerConfigGet` is reported as an unresolved channel while one is derived
  (create.go:257-259), and as what it is otherwise.
- `RecordsFail` says whether the API server may refuse to record a failure. The run
  has it FALSE, because `Creates` needs it: it is the event of that write that takes a
  derived channel out of the cache. With TRUE, and when the same failure is on record already, a
  derived channel that its version has left since stays in the cache until the
  process restarts or the object changes. The theorems hold for both values.
- Of the request, the module keeps the version, the channel and the pools, and which
  pointers building it dereferences. Fields that are only copied are left out.

Of `SharedHandler`:

- The two fields are written and read as wholes. All their values have one dynamic type,
  and a worker reads only after it has written. What a pass asks of GKE is a number of
  calls.
- A call with a cancelled context fails; whether GKE had accepted it is the subject
  of `ConfigController`.
- GKE may answer the client of another config that there is no such cluster, which
  `RemoveCluster` takes for a deletion done (delete.go:32). Mostly it refuses such a client
  instead. `Hidden` is the set of configs for whose clusters it does answer so;
  `ReleasedMeansDeleted` excepts them, since for them it is false.

## Runs

| Run | Instance | Shows |
|---|---|---|
| `edits` | two revisions (version; version and pools), imported or not, one cluster in the way or none | types, `DeletesOnlyWhatItCreated`, `ActiveHasSecret`, `QuietMeansSettled`, `SettledMeansSynced`, refinement of `ConfigLifecycle` |
| `policy` | one revision switching off policy and add-on and changing labels; a leftover secret that is collected | `AddonOutlivesPolicy`, `QuietMeansSettled` over the retries |
| `progress` | one revision of the node pools | `Converges`, `Released` |
| `passes` | six revisions: policy on, policy off (with a block listed twice, and an image for a pool without a version), upgrade with a second pool, a name listed twice, add-ons without a policy setting, a pool without a config and one without a name; two pool names; GKE upgrades, others label and remove | types, `QuietMeansInSync`, `NodesFollowControlPlane`, `KeepsListedPools`, `PolicyHasItsAddon`, `PanicsOnlyOnIncomplete` |
| `catchup` | one revision in which all nine updates and all five of a pool have something to do; three pool names: one to change, one to create, one to remove | `Converges`, refinement of `Reconciliation` |
| `creation` | some 40 specs, each failing one check or passing in its own way, all of which may be edited to a good one; two states of the channels | types, `CreationNeverPanics`, `AsksSupportedChannel`, `CacheStraysByChannelOnly`, `Creates` |
| `workers` | two workers, three configs of which one keeps its cluster, one credential; one call per pass, two attempts per deletion | `ReleasedMeansDeleted`, `EventuallyServed` |
| `orphan`, `stale_failure`, `old_secret` | one revision | what comments of the code say and a run of it refutes |
| `empty_channel` | one revision, a cluster in STABLE | the same for release channels |
| `one_client` | two workers, two configs with a credential each, one of which GKE hides from the other; two calls per pass | the same for credentials |

Bounds of `ConfigController`: two values per setting (`MaxValue = 1`) are enough for a setting to be
right or wrong, and for GKE's upgrade to overtake the spec. Two generations
(`LastGeneration`) let an edit fall between any two steps, with the handler
working from the older one. Crashes, failures, conflicts and retries are not
bounded, because no counter is part of the state. There is one config and one
worker: the work queue never gives a key to two workers.

Bounds of the others: edits, failures and restarts are not bounded either. Two
versions are enough for a spec, a pool and a control plane to be behind one another.
Two pool names let the pass over a map be cut between them, a third lets a pool be
created while one is removed. Attempts are counted by the code: two of twelve
are one that is followed by a wait and the last. Two workers are enough for one to come
between any two steps of the other, and with two configs to delete both can be held by
deletions that GKE does not accept, while the third config waits for one to give up. One
call per pass is enough there, since more of them only lengthen a pass; credentials are the
subject of `one_client`, which has two.

Runs do not check for deadlock, because a system with nothing left to do stops, which
is what `QuietMeansSettled` and `QuietMeansInSync` are about.

What the properties say:

- `DeletesOnlyWhatItCreated`: `RemoveCluster` is reached only for a config that is
  not imported and whose own `ClusterCreate` was accepted. Whether the cluster of the name
  is still that one neither the operator nor the property asks.
- `QuietMeansSettled`: when no event, key or timer is left, the config is gone, or
  active with its cluster in sync. It fails as soon as one waiting path
  forgets to come back.
- `SettledMeansSynced`: whenever a config goes from updating to active, the cluster
  has what the *stored* spec asks for at that moment, although the handler
  compared an earlier copy with an earlier answer. Only the version may differ
  again, by GKE's own upgrade.
- `ImplementsLifecycle`: phases only move along the diagram of
  `ConfigLifecycle`, at most one cluster is created, and a config past its first
  phase that carries the finalizer goes only after its cluster's deletion was accepted.
- `AddonOutlivesPolicy`, `ActiveHasSecret`: orders that hold across passes.
- `QuietMeansInSync`: the same for passes in detail: with nothing left to bring the
  config back, it is active and the cluster has what the *stored* spec asks for, but for
  what GKE and its other clients change by themselves and what the comparisons overlook
  (`Overlooked`: blocks beyond those of a list that repeats one, the image of a pool
  without a version). A refusal forgotten at one of
  several pools, an edit taken for done, or a comparison that misses a difference breaks it.
- `ImplementsReconciliation`: for a spec that stays, no step takes the cluster further
  away from it, whatever part of a pass was lost, and the config is left alone only with
  nothing lacking but what the comparisons overlook.
- `NodesFollowControlPlane`: no pool runs or is on its way to a newer minor version than
  its control plane. It needs that the version comes first, that a refused request ends
  the pass, and that specs do not ask for the contrary (`SpecsAssumption`).
- `KeepsListedPools`: a pool that every revision lists is never removed. (Of one that only
  the present revision lists it says nothing: a removal asked for before the edit goes on.) Pools are removed for not
  being in a map, which is incomplete for a list with a name twice.
- `PolicyHasItsAddon`: also between two passes the policy is not on without its add-on.
- `PanicsOnlyOnIncomplete`: which specs end the process, and that no others do, nil
  entries of lists apart (see Abstractions).
- `Converges` of `UpstreamSync`: all that `catchup` has to do gets done. It does not hold of every spec: the
  instance has no empty channel, no empty or repeated list of locations and no pool that is to have one of
  two settings of a message in addition to the other (see What the code does not do).
- `CreationNeverPanics`: the checks of `validateCreateRequest` and of the pools cover all the
  pointers that building the request dereferences.
- `AsksSupportedChannel`, `CacheStraysByChannelOnly`, `Creates`: the life of a derived channel
  across attempts, also where the remove handler has written it into the stored spec: what it may do to the cache, and that it does not end in a request for
  an unsupported version, or in no request.
- `ReleasedMeansDeleted`: a cancelled or foreign context makes a deletion fail, never
  succeed without a deletion; nor does a foreign client, unless GKE answers it that there is no
  such cluster.
- `EventuallyServed`: a config gets a new pass after each event, although deletions may keep
  all workers at once: they give up after their attempts.
- `Converges`, `Released`: progress, see below.

### Fairness

`FairSpec` assumes that the worker, the informer, the timers and GKE go on (weak
fairness: they are goroutines, a watch, a delaying queue and a service that ends
its operations), and that from some point on nothing fails
(`<>[][~Fault]_vars`): API calls succeed, the credential can be read, GKE's
operations take effect and the operator does not crash. A write through an old
copy and a request to a busy cluster are not faults and may happen
forever. Users and other tenants owe nothing. Without the last
assumption a retry may fail each time and nothing can be promised. `Converges` leaves out
the cases in which the code gives no way out (`Excused`): nothing to import, a
cluster in the way, a failed creation, a control plane ahead of the spec.

In `UpstreamSync`, `FairSpec` has the pass, the queue and GKE go on (`WF` of `Pass`,
`OperationDone` and `PoolDone`) and a process that panicked restarted (by its
deployment). `Converges` further assumes that from some point on there are only such steps
(`<>[][Progress]_vars`): no more edits, refusals, failures and changes by others, for each
of which could come once per pass. In `ClusterCreation` a failed key comes
back and the informer catches up; `Creates` assumes an end of changes in the same way, and
that the spec is acceptable. In `SharedHandler` the workers run and the delays of the
queue end; GKE owes nothing, and need not ever end an operation.

### What the code does not do

- `orphan`: a cluster whose creation was accepted but never written to the status is
  taken for a foreign one, on every later pass and at the removal of the config
  (handler.go:230-234).
- `stale_failure`: a failing write of `failureMessage` is logged and forgotten
  (handler.go:171-175). A config that has become active again keeps its old failure.
- `old_secret`: `createCASecret` takes any secret of the name for its own
  (handler.go:790-793), also that of a deleted config of the same name.

- `empty_channel`: an empty release channel, or one the code does not know, is sent as
  REGULAR by the updates (update.go:92), though creation derives a channel for the first
  and refuses the second; for an empty one on every pass, so that the config stays in updating.
- `one_client`: a call may be made with the client of another config, whose pass has begun
  in between on another worker (handler.go:117 and 224). Where GKE answers that client that there
  is no such cluster, the config is let go and its cluster stays (delete.go:32).

The first two of these are in the instance of `passes`, and `QuietMeansInSync` excepts them
(without the exceptions TLC finds it violated). Most of the others break `Converges`
when the model is given specs that the instances leave out:

- A list of authorized blocks with a repeated block equals any list of its length that has
  its blocks: an additional block stays authorized (update.go:655-675; types.go:363 has
  the list be the blocks that are authorized).
- A pool without a version keeps its image, whatever image its spec names
  (update.go:455, against the comment at 444).
- A pool that has auto-repair and is to have auto-upgrade too is given the one and the other in
  turns, and so on for ever (update.go:588-599, with the reading of partial messages
  above); the same goes for the two bounds of autoscaling (540-557).
- A list of locations that names one twice, or an empty one for a cluster in several
  zones, is sent on every pass, and the config stays in updating (update.go:346-357).
- A pool without a config, or add-ons without a setting for the network policy, end the
  process (update.go:468, 626 and 160), although types.go has them optional.
  `PanicsOnlyOnIncomplete` says that these are all.
- A control plane that GKE took past the spec's version ends every pass in an error, and no
  other setting is updated (update.go:61).
- A channel derived by an attempt that failed is taken for a requested one by the next attempt,
  also when a more stable one supports the version by then (create.go:260); it may even be
  written into the stored spec, with the finalizer (handler.go:89-90 and 156-158).

The mapping of `ConfigLifecycle` also allows a live config to be gone at once while
its cluster is kept: a config without finalizer, because the change handler
runs first.

## Proofs

`ConfigControllerProofs` proves for every value of the constants (any number of
revisions and values, any defaults), from the assumptions named in the modules:

- `TypeCorrect`: `Spec => []TypeOK`. `TypeOK` is inductive. The weight is in
  the lemmas about the operators (`CreatedType`, `UpdateType`, `ConfigUpdates`): a value
  reaches GKE only if some spec sets it, so `Unset` never does; and an
  error of `UpdateStatus` is never what `recordError` records.
- `DeletionIsOwn`: `Spec => []DeletesOnlyWhatItCreated`. The property is not
  inductive: the decision is taken on a cached copy, and the phase it reads was
  written passes earlier. `Ownership` strengthens it: the stored object,
  the cache and the worker's copy all satisfy `HasOwnCluster`, a status is about to be
  written only for an imported config or one with an accepted creation, and the
  calls after `GetCluster` are reached only from a later phase. `created` never turns
  false, so no copy loses its justification by growing old: freshness is
  not needed.

Each action is a step of the proof, and the steps that all actions share (`Goto`,
`Return`, `Intend`, `Finish`) have lemmas of their own. TLC has checked this invariant and
those of the next two modules on the instances of `edits` and `policy`.

`ConfigSettlingProofs` builds on it. Here freshness of copies is what counts:

- `CopiesInv`: a copy that is not in `stale` is the stored object; a deletion is known to the
  store before the cache and to the cache before the worker; each handler works on what it
  is for. `CallsInv`: which phases each call is reached from. `ClusterInv`: an
  operation is under way only at a cluster whose status shows it, or whose pools do.
- `ActiveOnlyWithSecret`: `Spec => []ActiveHasSecret`, where `LeftoverSecret = FALSE`. No secret is
  assumed left of a config of the same name, because with one the property is false: that is
  what `old_secret` shows. `SecretInv` has it for all three copies, and for the
  status about to be written.
- `SettlesInSync`: `Spec => SettledMeansSynced`. `LookedInv` follows a pass from `GetCluster` to
  its write: while its copy is fresh, the cluster is as it was read but for GKE's upgrade, and
  a pass that intends to go from updating to active has found nothing to do. If the copy is
  not fresh any more, the API server refuses the write.
- `NothingForgotten`: `Spec => []QuietMeansSettled`. `PendingInv` says who brings the config back if
  the worker's copy is stale or its write was not made. `QuietInv` has the property one
  step earlier, while the pass ends and `recordError` and the remove handler still run:
  there, an error is itself what brings the config back.

`ConfigLifecycleProofs`:

- `KeepsLifecycle`: `Spec => ImplementsLifecycle`, the refinement. `StepMaps` maps every step to one of
  `ConfigLifecycle` or to a stutter. What has to be known for it is `LifecycleInv`: only imported
  configs are importing; nobody who takes the config for a live one is left when its
  cluster is given up (so that no late pass creates another); and the remove handler lets go only of a
  config that has no cluster to give up.
- `AddonGoesLast`: `Spec => AddonOutlivesPolicy`, for specs none of which wants the policy with its add-on
  off: for such a spec the add-ons do not wait (update.go:160), and the property is false.
  `PolicyInv`: what a pass has read of the settings still holds when it asks for an update,
  even where its copy of the config is stale; and an operation that switches the add-on off runs only
  with the policy off.

`UpstreamSyncProofs`, for any names, versions, revisions and pools with
`VersionsAssumption` (versions have numbers, GKE upgrades to no older one) and
`SpecsAssumption` (no spec names a version for a pool without one for the control plane
that is not older; the same of the pools found at first):

- `NodesFollow`: `Spec => []NodesFollowControlPlane`, `ListedPoolsStay`: `Spec =>
  []KeepsListedPools` and `CompleteSpecsAreSafe`: `Spec => []PanicsOnlyOnIncomplete`.
  One invariant, `Inv`, carries the three. None is inductive, since a pass decides on what it
  read when it began. `PassInv` says what of that still counts: the version it found
  is not newer than the present one (control planes only go up), and a pass that has
  come to the pools found the version that its spec asks for, which is what
  `VersionReached` shows of the nine updates, and a list without duplicates.
  `ClusterInv` and `PoolInv` say that no operation under way breaks the order, so that
  its end does not either. `NodePoolUpdatesProofs` has the lemmas on the operators:
  what is in a pool map (`PoolMap`), and which versions a pool's request may carry
  (`VersionAsked`).
- `PolicyKeepsAddon`: `Spec => []PolicyHasItsAddon`. The operations GKE works on have to be
  known, not only the cluster, and why a pass asked for them: `RequestInv` says that the
  operator's request is under way only between passes, so that what a pass read of the
  settings still holds when it decides (`ReadInv`); that requests have the types of the
  settings (`ClusterFits`); and that none would take the add-on from under the policy
  (`PolicyInv`).
- `TypeCorrect`: `Spec => []TypeOK`, with the types of the requests for pools (`Typed`).

Beyond the two assumptions above these rest on `SettingsAssumption` (the types of
types.go, and what GKE reports of a cluster) and, for `PolicyKeepsAddon`,
`PolicyAssumption`: a spec that asks for the policy asks for the add-on. The code leaves
that to GKE, which refuses a policy without it.

`UpstreamSettlingProofs`, from the same assumptions and for any specs, those with repeated
blocks and images without versions included:

- `NothingLacking` and `PoolNothingLacking`: what the comparisons are worth together. If none of the nine
  functions finds anything to change, nothing of the cluster is lacking, version and labels
  included, but what `ClusterOverlooked` names: blocks beyond those of a list that has one
  twice. If none of the five finds anything in a pool, nothing is lacking but what
  `PoolOverlooked` names: its image, where the spec gives it no version. `Lacking` compares each setting with the spec as a whole,
  the code compares lengths, single blocks, switches and defaults;
  `SameBlocks`, that lists of one length are equal as sets if one without repetition
  is within the other, is what its comparison of blocks is worth. `NothingElseLacking` is the same
  for a cluster whose version GKE has raised and whose labels others have changed since it was read.
- `QuietPassesAreInSync`: `Spec => []QuietMeansInSync`. `QuietInv` says what a pass knows while the key is
  not due: its spec is the stored one; the pools it has been at are as the spec
  asks, or it has asked for something and will come back (`sent`); and those ahead of it are
  as it read them but for GKE's upgrades, since the key is due while anything of the
  operator's is under way at a listed pool. A pass that ends quietly therefore ends with everything in
  sync but what it overlooks, and nothing changes that but GKE's upgrades and labels.
- `UpdatesRepair`, `PoolRequestRepairs`, `CreatedAsAsked`: done, none of the nine requests for a cluster, of
  the five for a pool or of the creations leaves anything lacking that was not lacking before. This has to be
  proved for what is asked on the ground of what a pass read, and applied to what the
  cluster has when the operation ends.
- `KeepsReconciliation`: `Spec /\ [][UNCHANGED spec]_vars => ImplementsReconciliation`, the refinement.
  The hypothesis is that of `Reconciliation` itself: after an edit, requests that are still under way
  are for the old spec. `SteadyInv` says that the pass has the stored spec and that each
  operation under way repairs, of the cluster (`OperationRepairs`) and of every pool
  (`PoolsRepair`); `StepMaps` maps every step to one of `Reconciliation` or to a stutter.

TLC has checked `RequestInv`, `Typed`, `QuietInv` and `SteadyInv` on the instances of `passes`
and `catchup` (`SteadyInv` where the spec stays).

`ClusterCreationProofs`, for any specs, channels and edits and both values of
`RecordsFail`:

- `CreationIsSafe`: `Spec => []CreationNeverPanics`. `AllPassed` opens the lists of checks,
  `FieldsGiven` and `PoolGiven` say what a spec that passed them has, and
  `RequestBuilds` that this is all the request needs, for any number of pools.
- `ChannelIsSupported`: `Spec => []AsksSupportedChannel`. The invariant ties the channel of an attempt
  to the configuration it looked at (`ValidatedSupports`, `DerivedSupports`), not to the
  present one, which may have changed.
- `CacheKeepsSpec`: `Spec => []CacheStraysByChannelOnly`, wherever the stored spec has its channel from. An attempt that works on the object of the
  informer sees what it writes there (`CacheInv`); it derives a channel only for a spec that
  names none, and once an event replaces the object the attempt goes on with its own.
- `CreationTypes`: `Spec => []TypeOK`. `TypeInv` has that whatever was derived on top of, cached,
  edited or written back, a spec is one somebody wrote or such a one with a channel (`Derivable`). `FailedHandsOn` says
  which object a failed attempt leaves to the remove handler.

`SharedHandlerProofs`: `Releases`, `Spec => []ReleasedMeansDeleted`, for any number of
workers, configs and attempts, but for `Hidden` clusters. `life` and `clusters` are changed together or by steps that
let nothing go.

With these, every invariant, action property and refinement that a passing run checks is a
theorem. Model-checked only is liveness (both `Converges`, `Released`, `Creates`,
`EventuallyServed`): that and ENABLED are outside what TLAPS proves.

## Plan

Done: the controller, the passes in detail, creation and the shared handler, with the
proofs of all their safety properties. Left, in this order:

1. Progress, step by step: that each request of a pass, done, leaves strictly less lacking,
   and for which specs; what remains of `Converges` is then fairness alone.
2. `ConfigController` over `UpstreamSync`: that `ClusterSettings` is what the nine
   updates look like from outside.

## Not modelled

- Formatting of resource names and paths, log messages, the texts of errors.
- Fields that are only copied into a request: descriptions, disks, machine types,
  scopes, taints, address ranges, encryption keys (beyond their check).
- `external.go`'s functions for other programs (`BuildUpstreamClusterState`,
  `GetCluster`): the operator does not call them.
- Flags, signals and the construction of clients in `main.go`.
- Generated clients, deep copies and mocks, code generation, charts, scripts and
  end-to-end tests: no behaviour of the operator.
