--------------------------- MODULE ClusterCreation ----------------------------
(***************************************************************************)
(* create and gke.Create: what a config must give before a cluster is      *)
(* asked for, the calls on the way, and the release channel that is        *)
(* derived for a config that names none.  The derived channel is written   *)
(* into the object the handler was given, which is the one in the cache of *)
(* the informer; it stays there for the next attempt until an event brings *)
(* the stored object again.  It may even get into the stored object: until *)
(* the config has its finalizer, wrangler's remove handler, next in line   *)
(* after each attempt, writes back the object that the attempt leaves.     *)
(***************************************************************************)
EXTENDS NodePoolUpdates

CONSTANTS
    Specs,          \* the specs a user may write
    Edits,          \* those among them that a spec may be changed to
    ServerConfigs,  \* what channels may support: functions from GKEChannels to versions
    RecordsFail     \* whether the API server may refuse to record a failure

ASSUME SpecsAssumption ==
    /\ Edits \subseteq Specs
    /\ \A spec \in Specs :
            {"enableKubernetesAlpha", "kubernetesVersion", "releaseChannel"} \subseteq DOMAIN spec

\* What an attempt may fail with: what is wrong with the spec, its channel or its
\* pools, or an answer of GKE.
Problems ==
    {"projectID", "location", "locations", "clusterName", "autopilot", "nodePools", "encryptionKey",
     "enableKubernetesAlpha", "kubernetesVersion",
     "invalidChannel", "unresolved", "not in Rapid", "not in Regular", "not in Stable",
     "not in Extended",
     "clusterIpv4CidrBlock", "clusterAddons", "ipAllocationPolicy", "loggingService", "network",
     "subnetwork", "networkPolicyEnabled", "privateClusterConfig", "privateEndpoint",
     "masterAuthorizedNetworks", "monitoringService", "maintenanceWindow", "labels",
     "exists", "alreadyExists", "gke"} \cup PoolProblems

ASSUME NilAssumption == Nil \notin Problems

VARIABLES
    stored,     \* the spec in the API server
    cached,     \* the spec in the informer's cache
    behind,     \* an event with the stored object is on its way
    failure,    \* status.failureMessage, Nil if empty
    adopted,    \* the stored object has the remove handler's finalizer
    supported,  \* the versions that each channel supports, at GKE
    taken,      \* somebody else has a cluster of the name
    cluster,    \* the cluster that was asked for, Nil before
    pass        \* the attempt a worker is in, Nil if none

vars == << stored, cached, behind, failure, adopted, supported, taken, cluster, pass >>

-----------------------------------------------------------------------------
(* validateCreateRequest: what it checks before, between and after its calls *)

\* The name of the first check that a spec fails, Nil if it passes them all.
FirstFailed(checks) ==
    LET failed == { i \in DOMAIN checks : ~checks[i].passed }
    IN  IF failed = {} THEN Nil ELSE checks[CHOOSE i \in failed : \A j \in failed : i <= j].name

Check(name, passed) == [name |-> name, passed |-> passed]

ScalesSensibly(np) ==
    np.autoscaling # Nil /\ np.autoscaling.enabled =>
        /\ np.autoscaling.minNodeCount >= 1
        /\ np.autoscaling.maxNodeCount >= np.autoscaling.minNodeCount

\* The checks before the first call.  Those of the pools are made pool by pool.
AddressProblem(spec) ==
    FirstFailed(<<
        Check("projectID", spec.projectID # ""),
        Check("location", spec.zone # "" \/ spec.region # ""),
        Check("locations", spec.zone = "" \/ spec.region = ""),
        Check("clusterName", spec.clusterName # ""),
        Check("autopilot", spec.nodePools = << >> \/ ~spec.autopilot),
        Check("nodePools", /\ \A np \in Range(spec.nodePools) : np.name # Nil /\ ScalesSensibly(np)
                           /\ ~Duplicates(spec.nodePools)),
        Check("encryptionKey", spec.encryptionKey # Nil => "" \notin Range(spec.encryptionKey)) >>)

\* The checks between ClusterList and ServerConfigGet.
VersionProblem(spec) ==
    FirstFailed(<< Check("enableKubernetesAlpha", spec.enableKubernetesAlpha # Nil),
                   Check("kubernetesVersion", spec.kubernetesVersion # Nil) >>)

RequiredFields == <<
    "clusterIpv4CidrBlock", "clusterAddons", "ipAllocationPolicy", "loggingService", "network",
    "subnetwork", "networkPolicyEnabled", "privateClusterConfig", "masterAuthorizedNetworks",
    "monitoringService", "locations", "maintenanceWindow", "labels" >>

PrivateEndpointAllowed(spec) ==
    spec.privateClusterConfig # Nil /\ spec.privateClusterConfig.endpoint =>
        spec.privateClusterConfig.nodes

\* The code reports the first of them.
PoolProblem(spec) ==
    LET problems == { validateNodePoolCreateRequest(np, spec) : np \in Range(spec.nodePools) }
    IN  IF problems \subseteq {Nil} THEN Nil ELSE CHOOSE p \in problems : p # Nil

\* A slip for the runs to catch: the pools are not looked at.
FieldProblemOfCluster(spec) ==
    FirstFailed([i \in 1 .. 13 |-> Check(RequiredFields[i], spec[RequiredFields[i]] # Nil)])

\* The checks after the last call.  A private endpoint is looked at after the
\* eighth field.
FieldProblem(spec) ==
    LET Required(f) == Check(f, spec[f] # Nil)
        checks == [i \in 1 .. 14 |->
                      CASE i < 9 -> Required(RequiredFields[i])
                        [] i = 9 -> Check("privateEndpoint", PrivateEndpointAllowed(spec))
                        [] i > 9 -> Required(RequiredFields[i - 1])]
    IN  IF FirstFailed(checks) # Nil THEN FirstFailed(checks) ELSE PoolProblem(spec)

-----------------------------------------------------------------------------
(* The release channel *)

PriorityOrder == << "Stable", "Regular", "Rapid", "Extended" >>

supportsVersionInChannel(config, channel, version) == version \in config[channel]

NoneSupports == "none supports it"

\* A slip for the runs to catch: the channel is named as GKE names it.
resolveGKEChannel(config, version) ==
    LET able == { c \in GKEChannels : supportsVersionInChannel(config, c, version) }
    IN  IF able = {} THEN NoneSupports ELSE CHOOSE c \in able : TRUE

\* The most stable channel that supports a version.
resolveReleaseChannelFromVersion(config, version) ==
    LET able == { i \in 1 .. 4 : supportsVersionInChannel(
                        config, specToGKEReleaseChannel[PriorityOrder[i]], version) }
    IN  IF able = {} THEN NoneSupports
        ELSE PriorityOrder[CHOOSE i \in able : \A j \in able : i <= j]

\* The error names the channel, so that it differs from one channel to another.
Unsupported ==
    [Rapid |-> "not in Rapid", Regular |-> "not in Regular",
     Stable |-> "not in Stable", Extended |-> "not in Extended"]

\* A slip for the runs to catch: the versions of the channel are not looked at.
validateChannelOnly(config, channel, version) ==
    IF validateAndMapReleaseChannel(channel) = InvalidChannel THEN "invalidChannel" ELSE Nil

\* What is wrong with a channel that was asked for, Nil if nothing.
validateVersionForReleaseChannel(config, channel, version) ==
    IF validateAndMapReleaseChannel(channel) = InvalidChannel THEN "invalidChannel"
    ELSE IF ~supportsVersionInChannel(config, validateAndMapReleaseChannel(channel), version)
    THEN Unsupported[channel]
    ELSE Nil

-----------------------------------------------------------------------------
(* newClusterCreateRequest *)

\* A nil pointer that building the request dereferences.  The settings of pools,
\* add-ons and authorized networks are not for autopilot clusters.
RequestPanics(spec) ==
    \/ \E f \in {"kubernetesVersion", "clusterIpv4CidrBlock", "loggingService",
                 "monitoringService", "ipAllocationPolicy", "maintenanceWindow"} :
            spec[f] = Nil
    \/ /\ ~spec.autopilot
       /\ \/ spec.clusterAddons = Nil
          \/ \E np \in Range(spec.nodePools) : PoolRequestPanics(np, spec)

\* The cluster that is asked for, in what this module tells apart.
newClusterCreateRequest(spec) ==
    [kubernetesVersion |-> spec.kubernetesVersion,
     releaseChannel |-> gkeReleaseChannel(spec.releaseChannel),
     nodePools |-> IF spec.autopilot THEN NoRequest
                   ELSE [n \in DOMAIN buildNodePoolMap(spec.nodePools) |->
                            newGKENodePoolFromConfig(buildNodePoolMap(spec.nodePools)[n])]]

-----------------------------------------------------------------------------
(* An attempt *)

Init ==
    /\ stored \in Specs
    /\ cached = stored
    /\ behind = FALSE
    /\ failure = Nil
    /\ adopted = FALSE
    /\ supported \in ServerConfigs
    /\ taken \in BOOLEAN
    /\ cluster = Nil
    /\ pass = Nil

At(place) == pass # Nil /\ pass.at = place

\* What a worker has in hand: the object as it is by now, whether that is the one in
\* the cache, whether its resource version is the stored one, and what it knows of
\* the channels.
NewPass == [at |-> "list", spec |-> cached, inCache |-> TRUE, latest |-> ~behind,
            config |-> supported]

\* The remove handler is next; it leaves an object that has its finalizer alone.
HandsOn(attempt) == pass' = IF adopted THEN Nil ELSE [attempt EXCEPT !.at = "adopt"]

\* A slip for the runs to catch: the error is only logged.
FailsUnrecorded(attempt, problem) == HandsOn(attempt) /\ UNCHANGED << failure, behind >>

\* The attempt ends with an error, and its key comes back.  recordError stores an
\* error that differs from the last, hands on the stored object, and the event of the
\* write brings it to the cache.  A write that is refused is only logged, and the
\* object of the attempt is handed on.
Fails(attempt, problem) ==
    \/ /\ problem # failure
       /\ attempt.latest
       /\ failure' = problem
       /\ behind' = TRUE
       /\ HandsOn([attempt EXCEPT !.spec = stored, !.inCache = FALSE])
    \/ /\ problem = failure \/ ~attempt.latest \/ RecordsFail
       /\ HandsOn(attempt)
       /\ UNCHANGED << failure, behind >>

GoesTo(place) ==
    /\ pass' = [pass EXCEPT !.at = place]
    /\ UNCHANGED << failure, behind >>

\* The handler gets the object that is in the cache, not a copy of it.
Begin ==
    /\ pass = Nil
    /\ cluster = Nil
    /\ IF AddressProblem(cached) # Nil THEN Fails(NewPass, AddressProblem(cached))
       ELSE pass' = NewPass /\ UNCHANGED << failure, behind >>
    /\ UNCHANGED << stored, cached, adopted, supported, taken, cluster >>

\* ClusterList: there must not be a cluster of the name.
List ==
    /\ At("list")
    /\ IF taken THEN Fails(pass, "exists")
       ELSE IF VersionProblem(pass.spec) # Nil THEN Fails(pass, VersionProblem(pass.spec))
       ELSE GoesTo("versions")
    /\ UNCHANGED << stored, cached, adopted, supported, taken, cluster >>

\* ServerConfigGet for a channel that was asked for.
CheckChannel ==
    LET problem == validateVersionForReleaseChannel(supported, pass.spec.releaseChannel,
                                                    pass.spec.kubernetesVersion)
    IN  /\ At("versions")
        /\ pass.spec.releaseChannel \notin Unrequested
        /\ IF problem # Nil THEN Fails(pass, problem)
           ELSE /\ pass' = [pass EXCEPT !.at = "fields", !.config = supported]
                /\ UNCHANGED << failure, behind >>
        /\ UNCHANGED << stored, cached, adopted, supported, taken, cluster >>

\* A slip for the runs to catch: a channel is derived although one was asked for.
DeriveChannelAnyway ==
    LET derived == resolveReleaseChannelFromVersion(supported, pass.spec.kubernetesVersion)
    IN  /\ At("versions")
        /\ derived # NoneSupports
        /\ pass' = [pass EXCEPT !.at = "fields", !.spec.releaseChannel = derived]
        /\ cached' = IF pass.inCache THEN pass'.spec ELSE cached
        /\ UNCHANGED << stored, behind, failure, adopted, supported, taken, cluster >>

\* ServerConfigGet for a channel that is derived.  It is kept in the object of the
\* attempt, and so in the cache while that is the same object.
DeriveChannel ==
    LET derived == resolveReleaseChannelFromVersion(supported, pass.spec.kubernetesVersion)
        resolved == [pass.spec EXCEPT !.releaseChannel = derived]
    IN  /\ At("versions")
        /\ pass.spec.releaseChannel \in Unrequested
        /\ IF derived = NoneSupports THEN Fails(pass, "unresolved") /\ UNCHANGED cached
           ELSE /\ pass' = [pass EXCEPT !.at = "fields", !.spec = resolved, !.config = supported]
                /\ cached' = IF pass.inCache THEN resolved ELSE cached
                /\ UNCHANGED << failure, behind >>
        /\ UNCHANGED << stored, adopted, supported, taken, cluster >>

CheckFields ==
    /\ At("fields")
    /\ IF FieldProblem(pass.spec) # Nil THEN Fails(pass, FieldProblem(pass.spec))
       ELSE IF RequestPanics(pass.spec) THEN GoesTo("panicked")
       ELSE GoesTo("create")
    /\ UNCHANGED << stored, cached, adopted, supported, taken, cluster >>

\* ClusterCreate, which GKE refuses for a name that has been taken since the list.
Create ==
    /\ At("create")
    /\ IF taken THEN Fails(pass, "alreadyExists") /\ UNCHANGED cluster
       ELSE /\ cluster' = newClusterCreateRequest(pass.spec)
            /\ pass' = Nil
            /\ UNCHANGED << failure, behind >>
    /\ UNCHANGED << stored, cached, adopted, supported, taken >>

\* The remove handler adds its finalizer to the object it was handed and writes that
\* back, with its spec.
Adopt ==
    /\ At("adopt")
    /\ pass.latest
    /\ stored' = pass.spec
    /\ adopted' = TRUE
    /\ behind' = TRUE
    /\ pass' = Nil
    /\ UNCHANGED << cached, failure, supported, taken, cluster >>

\* Another resource version is refused.
AdoptRefused ==
    /\ At("adopt")
    /\ ~pass.latest
    /\ pass' = Nil
    /\ UNCHANGED << stored, cached, behind, failure, adopted, supported, taken, cluster >>

-----------------------------------------------------------------------------
(* Users, the informer, GKE and restarts *)

\* The event replaces the object in the cache; an attempt keeps the one it has.
Watch ==
    /\ behind
    /\ behind' = FALSE
    /\ cached' = stored
    /\ pass' = IF pass = Nil THEN Nil ELSE [pass EXCEPT !.inCache = FALSE]
    /\ UNCHANGED << stored, failure, adopted, supported, taken, cluster >>

Edit ==
    /\ cluster = Nil
    /\ stored' \in Edits
    /\ behind' = TRUE
    /\ pass' = IF pass = Nil THEN Nil ELSE [pass EXCEPT !.latest = FALSE]
    /\ UNCHANGED << cached, failure, adopted, supported, taken, cluster >>

\* A call is refused.  What is reported of it while a channel is derived is that none
\* was found.
CallFails ==
    /\ pass # Nil
    /\ pass.at \in {"list", "versions", "create"}
    /\ Fails(pass, IF pass.at = "versions" /\ pass.spec.releaseChannel \in Unrequested
                   THEN "unresolved" ELSE "gke")
    /\ UNCHANGED << stored, cached, adopted, supported, taken, cluster >>

\* The API server refuses the finalizer, for whatever reason.
AdoptFails ==
    /\ At("adopt")
    /\ pass' = Nil
    /\ UNCHANGED << stored, cached, behind, failure, adopted, supported, taken, cluster >>

Restart ==
    /\ pass' = Nil
    /\ cached' = stored
    /\ behind' = FALSE
    /\ UNCHANGED << stored, failure, adopted, supported, taken, cluster >>

\* Versions come and go in the channels, other people's clusters too.
OthersChange ==
    /\ cluster = Nil
    /\ \/ supported' \in ServerConfigs /\ UNCHANGED taken
       \/ taken' = ~taken /\ UNCHANGED supported
    /\ UNCHANGED << stored, cached, behind, failure, adopted, cluster, pass >>

-----------------------------------------------------------------------------
Attempt ==
    \/ Begin \/ List \/ CheckChannel \/ DeriveChannel \/ CheckFields \/ Create
    \/ Adopt \/ AdoptRefused

Progress == Attempt \/ Watch

Next == Progress \/ Edit \/ CallFails \/ AdoptFails \/ Restart \/ OthersChange

Spec == Init /\ [][Next]_vars

\* A failed key comes back and a worker takes it; the informer catches up.
FairSpec == Spec /\ WF_vars(Attempt) /\ WF_vars(Watch)

-----------------------------------------------------------------------------
(* Properties *)

\* The specs that users may write, and those with a channel derived.
Derivable ==
    UNION { {spec} \cup IF spec.releaseChannel \in Unrequested
                        THEN { [spec EXCEPT !.releaseChannel = c] : c \in SpecChannels } ELSE {}
            : spec \in Specs }

\* Types: every attempt is at one of the calls, on a spec a user wrote or on one
\* with a channel derived for it.
TypeOK ==
    /\ stored \in Derivable
    /\ cached \in Derivable
    /\ behind \in BOOLEAN
    /\ failure \in Problems \cup {Nil}
    /\ adopted \in BOOLEAN
    /\ supported \in ServerConfigs
    /\ taken \in BOOLEAN
    /\ pass # Nil =>
            /\ pass.at \in {"list", "versions", "fields", "create", "adopt", "panicked"}
            /\ pass.spec \in Derivable
            /\ pass.inCache \in BOOLEAN
            /\ pass.latest \in BOOLEAN
            /\ pass.config \in ServerConfigs

\* A spec that passes validateCreateRequest can be made into a request: none of
\* the pointers newClusterCreateRequest and newGKENodePoolFromConfig dereference
\* is nil.
CreationNeverPanics == ~At("panicked")

\* A cluster is asked for only in a channel that supported its version when the
\* attempt looked, however often the spec, the channels or the cache changed.
AsksSupportedChannel ==
    At("create") =>
        /\ pass.spec.releaseChannel \in SpecChannels
        /\ pass.spec.kubernetesVersion
                \in pass.config[specToGKEReleaseChannel[pass.spec.releaseChannel]]

\* The cache strays from the stored spec only while an event is on its way, or by a
\* channel that was derived for a spec that names none.
CacheStraysByChannelOnly ==
    ~behind => \/ cached = stored
               \/ /\ stored.releaseChannel \in Unrequested
                  /\ \E c \in SpecChannels : cached = [stored EXCEPT !.releaseChannel = c]

\* Nothing stands in the way of a cluster for the stored spec.
Acceptable ==
    /\ ~taken
    /\ AddressProblem(stored) = Nil
    /\ VersionProblem(stored) = Nil
    /\ FieldProblem(stored) = Nil
    /\ IF stored.releaseChannel \in Unrequested
       THEN \E c \in GKEChannels : stored.kubernetesVersion \in supported[c]
       ELSE /\ stored.releaseChannel \in SpecChannels
            /\ stored.kubernetesVersion \in
                    supported[specToGKEReleaseChannel[stored.releaseChannel]]

\* If failures are recorded, an acceptable spec gets its cluster in the end, also when
\* a channel derived earlier no longer supports the version: the error about it
\* differs from the last one recorded, and recording it is what cleans the cache.
Creates == <>[][Progress]_vars /\ <>[]Acceptable => <>(cluster # Nil)
=============================================================================
