--------------------------- MODULE ConfigLifecycle ---------------------------
(***************************************************************************)
(* What the controller promises of one config and its cluster, without     *)
(* caches, conflicts, failures and crashes: the order of the phases, which *)
(* of them belong to imported configs, that the operator creates a cluster *)
(* at most once, deletes it only for a config under deletion, and lets a   *)
(* config that got past "notCreated" go only after that.                   *)
(***************************************************************************)

VARIABLES
    imported,
    lifecycle,  \* live, under deletion, or gone
    phase,
    cluster     \* the operator's own cluster: none yet, kept, or given up

vars == << imported, lifecycle, phase, cluster >>

Init ==
    /\ imported \in BOOLEAN
    /\ lifecycle = "live"
    /\ phase = "notCreated"
    /\ cluster = "none"

Advance(from, to) ==
    /\ lifecycle = "live"
    /\ phase = from
    /\ phase' = to
    /\ UNCHANGED << imported, lifecycle, cluster >>

Import == imported /\ Advance("notCreated", "importing")

Adopt == imported /\ Advance("importing", "active")

\* The config may have been deleted since the operator last looked at it.
Create ==
    /\ ~imported
    /\ phase = "notCreated"
    /\ cluster = "none"
    /\ cluster' = "kept"
    /\ UNCHANGED << imported, lifecycle, phase >>

AwaitCreation == cluster = "kept" /\ Advance("notCreated", "creating")

Complete == cluster = "kept" /\ Advance("creating", "active")

Update == Advance("active", "updating")

Settle == Advance("updating", "active")

\* Without the operator's finalizer a config is gone the moment it is deleted.
RequestDelete ==
    /\ lifecycle = "live"
    /\ lifecycle' \in {"deleting", "gone"}
    /\ UNCHANGED << imported, phase, cluster >>

GiveUpCluster ==
    /\ lifecycle = "deleting"
    /\ phase # "notCreated"
    /\ cluster = "kept"
    /\ cluster' = "givenUp"
    /\ UNCHANGED << imported, lifecycle, phase >>

Finalize ==
    /\ lifecycle = "deleting"
    /\ \/ imported
       \/ phase = "notCreated"
       \/ cluster = "givenUp"
    /\ lifecycle' = "gone"
    /\ UNCHANGED << imported, phase, cluster >>

Next ==
    \/ Import
    \/ Adopt
    \/ Create
    \/ AwaitCreation
    \/ Complete
    \/ Update
    \/ Settle
    \/ RequestDelete
    \/ GiveUpCluster
    \/ Finalize

Spec == Init /\ [][Next]_vars
=============================================================================
