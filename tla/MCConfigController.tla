-------------------------- MODULE MCConfigController --------------------------
(***************************************************************************)
(* Small instances of ConfigController: the constants its runs share.      *)
(***************************************************************************)
EXTENDS ConfigController

\* A spec that sets what update says and leaves the rest to GKE.
Asks(update) ==
    [s \in Settings |-> IF s \in DOMAIN update THEN update[s] ELSE Unset]

AllOff == [s \in Settings |-> 0]

\* The user asks for a version first and then for a change of the node pools too.
TwoRevisions == << Asks([kubernetesVersion |-> 0]),
                   Asks([kubernetesVersion |-> 0, nodePools |-> 1]) >>

\* One spec that upgrades the control plane and the node pools.
OneRevision == << Asks([kubernetesVersion |-> 1, nodePools |-> 1]) >>

\* One spec that changes the node pools of a cluster nobody upgrades.
PoolRevision == << Asks([nodePools |-> 1]) >>

Upgraded == [AllOff EXCEPT !["kubernetesVersion"] = 1]

\* One spec that switches off what GKE has on, and changes the labels.
PolicyRevision == << Asks([clusterAddons |-> 0, networkPolicy |-> 0, labels |-> 1]) >>

PolicyOn == [Upgraded EXCEPT !["clusterAddons"] = 1, !["networkPolicy"] = 1]
=============================================================================
