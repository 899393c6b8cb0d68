---------------------------- MODULE Reconciliation ----------------------------
(***************************************************************************)
(* What the passes over an existing cluster promise for a spec that stays  *)
(* as it is: whatever fails or restarts, no step takes the cluster further *)
(* away from the spec, work is only done while a pass is under way or to   *)
(* come, and the config is left alone only when nothing is lacking but     *)
(* what its spec makes the passes overlook.  GKE and its other clients may *)
(* undo what is in Drifting at any time.                                   *)
(***************************************************************************)
CONSTANT Drifting   \* what changes at GKE without being asked

VARIABLES
    lacking,    \* what of the cluster is not as the spec asks
    overlooked, \* what the passes do not look at for that spec
    phase,      \* the phase of the config
    watched     \* a pass over the config is under way or to come

vars == << lacking, overlooked, phase, watched >>

Init == phase = "active" /\ watched = TRUE

Repair ==
    /\ watched
    /\ lacking' \subseteq lacking
    /\ UNCHANGED << overlooked, phase, watched >>

Drift ==
    /\ lacking' \ Drifting = lacking \ Drifting
    /\ UNCHANGED << overlooked, phase, watched >>

Await ==
    /\ watched
    /\ phase' = "updating"
    /\ UNCHANGED << lacking, overlooked, watched >>

Settle ==
    /\ lacking \subseteq Drifting \cup overlooked
    /\ phase' = "active"
    /\ watched' = FALSE
    /\ UNCHANGED << lacking, overlooked >>

Wake ==
    /\ watched' = TRUE
    /\ UNCHANGED << lacking, overlooked, phase >>

Next == Repair \/ Drift \/ Await \/ Settle \/ Wake

Spec == Init /\ [][Next]_vars
=============================================================================
