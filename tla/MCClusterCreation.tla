--------------------------- MODULE MCClusterCreation ---------------------------
(***************************************************************************)
(* Small instances of ClusterCreation: a spec that passes every check, and *)
(* those that leave out one of its fields.                                 *)
(***************************************************************************)
EXTENDS ClusterCreation

Pool ==
    [name |-> "p", version |-> "v", initialNodeCount |-> 1, maxPodsConstraint |-> 110,
     autoscaling |-> [enabled |-> TRUE, maxNodeCount |-> 2, minNodeCount |-> 1],
     management |-> [autoRepair |-> TRUE, autoUpgrade |-> TRUE],
     config |-> [imageType |-> "cos", labels |-> Nil, serviceAccount |-> "default"]]

Whole ==
    [projectID |-> "project", zone |-> "", region |-> "r", clusterName |-> "name",
     autopilot |-> FALSE, nodePools |-> << Pool >>, encryptionKey |-> Nil,
     enableKubernetesAlpha |-> FALSE, kubernetesVersion |-> "v", releaseChannel |-> "",
     clusterIpv4CidrBlock |-> "", clusterAddons |-> [a \in Addons |-> TRUE],
     ipAllocationPolicy |-> [useIPAliases |-> TRUE], loggingService |-> "", network |-> "",
     subnetwork |-> "", networkPolicyEnabled |-> FALSE,
     privateClusterConfig |-> [endpoint |-> FALSE, nodes |-> FALSE],
     masterAuthorizedNetworks |-> [enabled |-> FALSE, cidrBlocks |-> << >>],
     monitoringService |-> "", locations |-> << >>, maintenanceWindow |-> "", labels |-> {}]

Pools(pools) == [Whole EXCEPT !.nodePools = pools]

Nilable == {"enableKubernetesAlpha", "kubernetesVersion", "releaseChannel"}
                \cup { RequiredFields[i] : i \in 1 .. 13 }

\* Every way to fail a check, one at a time.
Spoiled ==
    { [Whole EXCEPT ![f] = Nil] : f \in Nilable }
    \cup { [Whole EXCEPT ![f] = ""] : f \in {"projectID", "region", "clusterName"} }
    \cup { [Whole EXCEPT !.zone = "z"], [Whole EXCEPT !.autopilot = TRUE],
           [Whole EXCEPT !.encryptionKey = [ringName |-> "ring", keyName |-> ""]],
           [Whole EXCEPT !.releaseChannel = "foo"],
           [Whole EXCEPT !.kubernetesVersion = "retired"],
           [Whole EXCEPT !.privateClusterConfig = [endpoint |-> TRUE, nodes |-> FALSE]] }
    \cup { Pools(<< [Pool EXCEPT ![f] = Nil] >>) : f \in DOMAIN Pool }
    \cup { Pools(<< Pool, Pool >>),
           Pools(<< [Pool EXCEPT !.autoscaling.minNodeCount = 0] >>),
           Pools(<< [Pool EXCEPT !.autoscaling.maxNodeCount = 0] >>),
           Pools(<< [Pool EXCEPT !.config.serviceAccount = "malformed"] >>) }

\* Those besides that pass every check.
Passing ==
    { Whole, [Whole EXCEPT !.autopilot = TRUE, !.nodePools = << >>],
      [Whole EXCEPT !.releaseChannel = "Rapid"], [Whole EXCEPT !.releaseChannel = "Stable"],
      [Whole EXCEPT !.ipAllocationPolicy = [useIPAliases |-> FALSE],
                    !.nodePools = << [Pool EXCEPT !.maxPodsConstraint = Nil] >>] }

AllSpecs == Spoiled \cup Passing

Unnamed == { Whole }

\* Channels that support the version or none.
In(channels) == [c \in GKEChannels |-> IF c \in channels THEN {"v"} ELSE {}]

Moving == { In({"STABLE", "RAPID"}), In({"RAPID", "EXTENDED"}) }
=============================================================================
