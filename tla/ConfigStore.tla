----------------------------- MODULE ConfigStore -----------------------------
(***************************************************************************)
(* One GKEClusterConfig object at the Kubernetes API server, the informer  *)
(* cache the controller reads it from, and the work queue entry that makes *)
(* the controller look at it.  A resource version is only ever compared    *)
(* with the current one, so it is kept as the set of copies that are out   *)
(* of date: a write through such a copy is a conflict.                     *)
(***************************************************************************)
EXTENDS ClusterSettings

CONSTANTS LastGeneration, Revision

\* The specs the user gives the config, one after the other.  A spec that turns
\* add-ons off says whether it wants the network policy: UpdateClusterAddons
\* dereferences that field.
ASSUME RevisionAssumption ==
    /\ LastGeneration \in Nat \ {0}
    /\ Revision \in [1 .. LastGeneration -> Specs]
    /\ \A g \in 1 .. LastGeneration :
         Revision[g]["clusterAddons"] = 0 => Revision[g]["networkPolicy"] # Unset

\* What can end in failureMessage, told apart as far as recordError compares it.
NoError == ""

Errors == {"credential", "exists", "upstream", "creationFailed", "versionBlocked"}

\* Status messages, told apart as far as enqueueUpdate and updateConfigStatus
\* compare them: the name of a setting is the message about its update.
NoMessage == ""

Messages == Settings \cup
    {"importing", "creating", "finishCreating", "finishUpdating", "finishNodePool",
     "finishRecreation", "retryingLabels"}

VARIABLES store, cache, stale, queued, timer

storeVars == << store, cache, stale, queued, timer >>

\* The phases of a config; the first is the empty string in the code.
Phases == {"notCreated", "importing", "creating", "active", "updating"}

Lifecycles == {"live", "deleting", "gone"}

Configs == [generation : 1 .. LastGeneration, imported : BOOLEAN,
            lifecycle : Lifecycles, finalizer : BOOLEAN,
            phase : Phases, message : Messages \cup {NoMessage},
            failure : Errors \cup {NoError}]

Copies == {"cache", "work"}

NewConfig(imported) ==
    [generation |-> 1, imported |-> imported, lifecycle |-> "live",
     finalizer |-> FALSE, phase |-> "notCreated", message |-> NoMessage, failure |-> NoError]

StoreInit ==
    /\ store \in { NewConfig(imported) : imported \in BOOLEAN }
    /\ cache = store
    /\ stale = {"work"}
    /\ queued = TRUE
    /\ timer = FALSE

StoreTypeOK ==
    /\ store \in Configs
    /\ cache \in Configs
    /\ stale \subseteq Copies
    /\ queued \in BOOLEAN
    /\ timer \in BOOLEAN

-----------------------------------------------------------------------------

\* A write by whoever holds the copy "by" leaves the other copies behind.
Write(config, by) ==
    /\ store' = config
    /\ stale' = Copies \ {by}

\* The informer delivers the current object and queues its key; the versions
\* in between may be skipped.
Watch ==
    /\ "cache" \in stale
    /\ cache' = store
    /\ stale' = stale \ {"cache"}
    /\ queued' = TRUE
    /\ UNCHANGED << store, timer >>

\* A delayed entry (EnqueueAfter, or the rate limiter after an error) is due.
TimerFires ==
    /\ timer
    /\ timer' = FALSE
    /\ queued' = TRUE
    /\ UNCHANGED << store, cache, stale >>

\* A user moves the spec to its next revision.
Edit ==
    /\ store.lifecycle # "gone"
    /\ store.generation < LastGeneration
    /\ Write([store EXCEPT !.generation = @ + 1], "user")
    /\ UNCHANGED << cache, queued, timer >>

\* A user deletes the config: an object without finalizer is gone at once.
RequestDelete ==
    /\ store.lifecycle = "live"
    /\ Write([store EXCEPT !.lifecycle = IF store.finalizer THEN "deleting" ELSE "gone"],
             "user")
    /\ UNCHANGED << cache, queued, timer >>

\* A restarted process lists the objects afresh and has lost its timers.
Relist ==
    /\ cache' = store
    /\ stale' = {"work"}
    /\ queued' = TRUE
    /\ timer' = FALSE
    /\ UNCHANGED store

StoreNext ==
    \/ Watch
    \/ TimerFires
    \/ Edit
    \/ RequestDelete

StoreSpec == StoreInit /\ [][StoreNext]_storeVars
=============================================================================
