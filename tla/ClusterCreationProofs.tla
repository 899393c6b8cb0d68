------------------------- MODULE ClusterCreationProofs -------------------------
(***************************************************************************)
(* For every set of specs and every run of creation attempts: a spec that  *)
(* passed the checks dereferences no nil pointer, and its channel supports *)
(* its version.                                                            *)
(***************************************************************************)
EXTENDS ClusterCreation, NodePoolUpdatesProofs

\* The fields that are looked at or written while the calls go on.
Named == {"enableKubernetesAlpha", "kubernetesVersion", "releaseChannel"}

\* A list of checks none of which failed: every one passed.
LEMMA AllPassed ==
    ASSUME NEW n \in 1 .. 14, NEW checks, DOMAIN checks = 1 .. n,
           \A i \in 1 .. n : checks[i].name # Nil, FirstFailed(checks) = Nil
    PROVE  \A i \in 1 .. n : checks[i].passed
<1> DEFINE failed == { i \in DOMAIN checks : ~checks[i].passed }
<1> SUFFICES ASSUME failed # {} PROVE FALSE
  OBVIOUS
<1>1. failed \in SUBSET (1 .. 14)
  OBVIOUS
<1>2. \E i \in failed : \A j \in failed : i <= j
  BY <1>1, HasFirst
<1>3. (CHOOSE i \in failed : \A j \in failed : i <= j) \in failed
  BY <1>2
<1>4. QED
  BY <1>3 DEF FirstFailed

-----------------------------------------------------------------------------
(* What the checks establish *)

\* A check has the name and the outcome it was made of.
LEMMA CheckParts ==
    ASSUME NEW name, NEW passed \in BOOLEAN
    PROVE  Check(name, passed).name = name /\ (Check(name, passed).passed <=> passed)
BY DEF Check

\* The two fields looked at before the versions.
LEMMA VersionGiven ==
    ASSUME NEW spec, VersionProblem(spec) = Nil
    PROVE  spec.kubernetesVersion # Nil
<1> DEFINE checks ==
        << Check("enableKubernetesAlpha", spec.enableKubernetesAlpha # Nil),
           Check("kubernetesVersion", spec.kubernetesVersion # Nil) >>
<1>1. FirstFailed(checks) = Nil
  BY DEF VersionProblem
<1>2. DOMAIN checks = 1 .. 2 /\ \A i \in 1 .. 2 : checks[i].name # Nil
  <2>1. \A i \in 1 .. 2 : checks[i].name \in {"enableKubernetesAlpha", "kubernetesVersion"}
    BY DEF Check
  <2>2. DOMAIN checks = 1 .. 2
    OBVIOUS
  <2>3. "enableKubernetesAlpha" # Nil /\ "kubernetesVersion" # Nil
    BY NilAssumption DEF Problems
  <2> HIDE DEF checks
  <2>4. QED
    BY <2>1, <2>2, <2>3
<1>3. \A i \in 1 .. 2 : checks[i].passed
  <2> HIDE DEF checks
  <2>1. QED
    BY <1>1, <1>2, AllPassed
<1>4. checks[2].passed <=> spec.kubernetesVersion # Nil
  BY DEF Check
<1>5. QED
  BY <1>3, <1>4

\* The thirteen fields looked at after the versions, and the pools.
LEMMA FieldsGiven ==
    ASSUME NEW spec, FieldProblem(spec) = Nil
    PROVE  /\ \A i \in 1 .. 13 : spec[RequiredFields[i]] # Nil
           /\ PoolProblem(spec) = Nil
<1> DEFINE Required(f) == Check(f, spec[f] # Nil)
           checks == [i \in 1 .. 14 |->
                      CASE i < 9 -> Required(RequiredFields[i])
                        [] i = 9 -> Check("privateEndpoint", PrivateEndpointAllowed(spec))
                        [] i > 9 -> Required(RequiredFields[i - 1])]
<1>1. FirstFailed(checks) = Nil /\ PoolProblem(spec) = Nil
  BY Zenon DEF FieldProblem
<1>2. \A i \in 1 .. 13 : RequiredFields[i] # Nil
  <2> DEFINE names == {"clusterIpv4CidrBlock", "clusterAddons", "ipAllocationPolicy",
        "loggingService", "network", "subnetwork", "networkPolicyEnabled",
        "privateClusterConfig", "masterAuthorizedNetworks", "monitoringService", "locations",
        "maintenanceWindow", "labels"}
  <2>1. \A i \in 1 .. 13 : RequiredFields[i] \in names
    BY DEF RequiredFields
  <2>3. names \subseteq Problems
    BY DEF Problems
  <2> HIDE DEF names
  <2>4. QED
    BY <2>1, <2>3, NilAssumption
<1>3. /\ \A i \in 1 .. 8 : checks[i] = Required(RequiredFields[i])
      /\ checks[9] = Check("privateEndpoint", PrivateEndpointAllowed(spec))
      /\ \A i \in 10 .. 14 : checks[i] = Required(RequiredFields[i - 1])
  BY DEF Check
<1>4. \A i \in 1 .. 14 : checks[i].name # Nil
  <2> HIDE DEF checks
  <2>1. "privateEndpoint" # Nil
    BY NilAssumption DEF Problems
  <2>2. \A i \in 1 .. 8 : checks[i].name # Nil
    BY <1>2, <1>3 DEF Check
  <2>3. checks[9].name # Nil
    BY <1>3, <2>1 DEF Check
  <2>4. \A i \in 10 .. 14 : checks[i].name # Nil
    <3>1. \A i \in 10 .. 14 : i - 1 \in 1 .. 13
      OBVIOUS
    <3>2. QED
      BY <1>2, <1>3, <3>1 DEF Check
  <2>5. QED
    BY <2>2, <2>3, <2>4
<1>5. \A i \in 1 .. 14 : checks[i].passed
  <2>1. DOMAIN checks = 1 .. 14
    OBVIOUS
  <2> HIDE DEF checks
  <2>2. QED
    BY <1>1, <1>4, <2>1, AllPassed
<1>6. \A i \in 1 .. 8 : spec[RequiredFields[i]] # Nil
  <2> HIDE DEF checks
  <2>1. \A i \in 1 .. 8 : Required(RequiredFields[i]).passed
    BY <1>3, <1>5
  <2>2. QED
    BY <2>1, CheckParts
<1>7. \A i \in 9 .. 13 : spec[RequiredFields[i]] # Nil
  <2>1. \A i \in 9 .. 13 : i + 1 \in 10 .. 14 /\ checks[i + 1] = Required(RequiredFields[i])
    BY <1>3
  <2> HIDE DEF checks
  <2>2. \A i \in 9 .. 13 : checks[i + 1].passed
    BY <1>5
  <2>3. QED
    BY <2>1, <2>2, CheckParts
<1>8. QED
  BY <1>1, <1>6, <1>7

\* A spec that passed all the checks can be made into a request.
LEMMA RequestBuilds ==
    ASSUME NEW spec, VersionProblem(spec) = Nil, FieldProblem(spec) = Nil
    PROVE  ~RequestPanics(spec)
<1>1. spec.kubernetesVersion # Nil
  BY VersionGiven
<1>2. /\ spec["clusterIpv4CidrBlock"] # Nil /\ spec["clusterAddons"] # Nil
      /\ spec["ipAllocationPolicy"] # Nil /\ spec["loggingService"] # Nil
      /\ spec["monitoringService"] # Nil /\ spec["maintenanceWindow"] # Nil
  BY FieldsGiven DEF RequiredFields
<1>3. ASSUME NEW np \in Range(spec.nodePools) PROVE ~PoolRequestPanics(np, spec)
  <2>1. PoolProblem(spec) = Nil
    BY FieldsGiven
  <2>2. validateNodePoolCreateRequest(np, spec) = Nil
    BY <2>1, <1>3, Zenon DEF PoolProblem
  <2>3. QED
    BY <2>2, PoolGiven
<1>4. QED
  BY <1>1, <1>2, <1>3 DEF RequestPanics

-----------------------------------------------------------------------------
(* The channel *)

\* A channel and a version that GKE serves together.
Supports(config, spec) ==
    /\ spec.releaseChannel \in SpecChannels
    /\ spec.kubernetesVersion \in config[specToGKEReleaseChannel[spec.releaseChannel]]

\* A channel that was asked for and passed the check.
LEMMA ValidatedSupports ==
    ASSUME NEW config, NEW spec, spec.releaseChannel \notin Unrequested,
           validateVersionForReleaseChannel(config, spec.releaseChannel,
                                            spec.kubernetesVersion) = Nil
    PROVE  Supports(config, spec)
<1>1. "invalidChannel" # Nil
  BY NilAssumption DEF Problems
<1>2. validateAndMapReleaseChannel(spec.releaseChannel) # InvalidChannel
  BY <1>1 DEF validateVersionForReleaseChannel
<1>3. /\ spec.releaseChannel \in SpecChannels
      /\ validateAndMapReleaseChannel(spec.releaseChannel)
            = specToGKEReleaseChannel[spec.releaseChannel]
  BY <1>2 DEF validateAndMapReleaseChannel
<1>4. Unsupported[spec.releaseChannel] # Nil
  <2>1. SpecChannels = {"Rapid", "Regular", "Stable", "Extended"}
    BY DEF SpecChannels, specToGKEReleaseChannel
  <2>2. /\ Unsupported["Rapid"] = "not in Rapid"
        /\ Unsupported["Regular"] = "not in Regular"
        /\ Unsupported["Stable"] = "not in Stable"
        /\ Unsupported["Extended"] = "not in Extended"
    BY DEF Unsupported
  <2>3. QED
    BY <1>3, <2>1, <2>2, NilAssumption DEF Problems
<1>5. supportsVersionInChannel(config, validateAndMapReleaseChannel(spec.releaseChannel),
                               spec.kubernetesVersion)
  BY <1>2, <1>4 DEF validateVersionForReleaseChannel
<1>6. QED
  BY <1>3, <1>5 DEF Supports, supportsVersionInChannel

\* A channel that was derived.
LEMMA DerivedSupports ==
    ASSUME NEW config, NEW version,
           resolveReleaseChannelFromVersion(config, version) # NoneSupports
    PROVE  LET derived == resolveReleaseChannelFromVersion(config, version)
           IN  derived \in SpecChannels /\ version \in config[specToGKEReleaseChannel[derived]]
<1> DEFINE able == { i \in 1 .. 4 : supportsVersionInChannel(
                        config, specToGKEReleaseChannel[PriorityOrder[i]], version) }
           first == CHOOSE i \in able : \A j \in able : i <= j
<1>1. able # {} /\ resolveReleaseChannelFromVersion(config, version) = PriorityOrder[first]
  BY DEF resolveReleaseChannelFromVersion
<1>2. able \in SUBSET (1 .. 14)
  OBVIOUS
<1>3. \E i \in able : \A j \in able : i <= j
  BY <1>1, <1>2, HasFirst
<1>4. first \in able
  BY <1>3
<1>5. \A i \in 1 .. 4 : PriorityOrder[i] \in SpecChannels
  BY DEF PriorityOrder, SpecChannels, specToGKEReleaseChannel
<1>6. first \in 1 .. 4
      /\ supportsVersionInChannel(config, specToGKEReleaseChannel[PriorityOrder[first]], version)
  BY <1>4
<1>7. QED
  BY <1>1, <1>5, <1>6 DEF supportsVersionInChannel

\* Deriving a channel changes nothing that was checked before.
LEMMA ChannelApart ==
    ASSUME NEW spec, NEW channel, Named \subseteq DOMAIN spec
    PROVE  LET resolved == [spec EXCEPT !.releaseChannel = channel]
           IN  /\ Named \subseteq DOMAIN resolved
               /\ resolved.releaseChannel = channel
               /\ resolved.kubernetesVersion = spec.kubernetesVersion
               /\ VersionProblem(resolved) = VersionProblem(spec)
<1> DEFINE resolved == [spec EXCEPT !.releaseChannel = channel]
<1>1. /\ Named \subseteq DOMAIN resolved
      /\ resolved.releaseChannel = channel
      /\ resolved.kubernetesVersion = spec.kubernetesVersion
      /\ resolved.enableKubernetesAlpha = spec.enableKubernetesAlpha
  BY DEF Named
<1>2. VersionProblem(resolved) = VersionProblem(spec)
  <2> HIDE DEF resolved
  <2>1. QED
    BY <1>1 DEF VersionProblem
<1>3. QED
  BY <1>1, <1>2

-----------------------------------------------------------------------------
(* The invariant *)

\* What a worker has in hand, as a record of its parts.
IsPass(p) == p = [at |-> p.at, spec |-> p.spec, inCache |-> p.inCache, latest |-> p.latest,
                  config |-> p.config]

\* What an attempt has found out by the place it is at.
PassInv ==
    /\ IsPass(pass)
    /\ Named \subseteq DOMAIN pass.spec
    /\ pass.at \in {"list", "versions", "fields", "create", "adopt"}
    /\ pass.at \in {"versions", "fields", "create"} => VersionProblem(pass.spec) = Nil
    /\ pass.at \in {"fields", "create"} => Supports(pass.config, pass.spec)

Inv ==
    /\ Named \subseteq DOMAIN stored
    /\ Named \subseteq DOMAIN cached
    /\ pass # Nil => PassInv

LEMMA InvInit == Init => Inv
BY SpecsAssumption DEF Init, Inv, Named

LEMMA NewPassParts ==
    /\ IsPass(NewPass)
    /\ NewPass.at = "list"
    /\ NewPass.spec = cached
    /\ NewPass.inCache = TRUE
    /\ NewPass.latest = ~behind
    /\ NewPass.config = supported
BY DEF NewPass, IsPass

\* What a failed attempt leaves to the remove handler: its own object, or the stored
\* one, which is not that of the cache.
LEMMA FailedHandsOn ==
    ASSUME NEW attempt, IsPass(attempt), NEW problem, Fails(attempt, problem), pass' # Nil
    PROVE  /\ IsPass(pass')
           /\ pass'.at = "adopt"
           /\ pass'.latest = attempt.latest
           /\ pass'.config = attempt.config
           /\ \/ pass'.spec = attempt.spec /\ pass'.inCache = attempt.inCache
              \/ pass'.spec = stored /\ pass'.inCache = FALSE /\ behind'
<1>1. CASE pass' = [attempt EXCEPT !.at = "adopt"]
  BY <1>1 DEF IsPass
<1>2. CASE /\ pass' = [[attempt EXCEPT !.spec = stored, !.inCache = FALSE] EXCEPT !.at = "adopt"]
           /\ behind' = TRUE
  BY <1>2 DEF IsPass
<1>3. QED
  BY <1>1, <1>2 DEF Fails, HandsOn

\* A failed attempt keeps the invariant.
LEMMA InvFails ==
    ASSUME Inv, NEW attempt, IsPass(attempt), Named \subseteq DOMAIN attempt.spec,
           NEW problem, Fails(attempt, problem), UNCHANGED << stored, cached >>
    PROVE  Inv'
<1>1. CASE pass' = Nil
  BY <1>1 DEF Inv
<1>2. CASE pass' # Nil
  BY <1>2, FailedHandsOn DEF Inv, PassInv
<1>3. QED
  BY <1>1, <1>2

\* Each step of the operator keeps the invariant.
LEMMA InvAttempt == Inv /\ Attempt => Inv'
<1> SUFFICES ASSUME Inv, Attempt PROVE Inv'
  OBVIOUS
<1> USE DEF Inv, At
<1>1. CASE Begin
  <2>1. CASE Fails(NewPass, AddressProblem(cached))
    BY <1>1, <2>1, InvFails, NewPassParts DEF Begin
  <2>2. CASE pass' = NewPass
    BY <1>1, <2>2, NewPassParts DEF Begin, PassInv
  <2>3. QED
    BY <1>1, <2>1, <2>2 DEF Begin
<1>2. CASE List
  <2>1. CASE Fails(pass, "exists") \/ Fails(pass, VersionProblem(pass.spec))
    BY <1>2, <2>1, InvFails DEF List, PassInv
  <2>2. CASE VersionProblem(pass.spec) = Nil /\ pass' = [pass EXCEPT !.at = "versions"]
    BY <1>2, <2>2 DEF List, PassInv, IsPass
  <2>3. QED
    BY <1>2, <2>1, <2>2 DEF List, GoesTo
<1>3. CASE CheckChannel
  <2> DEFINE problem == validateVersionForReleaseChannel(supported, pass.spec.releaseChannel,
                                                         pass.spec.kubernetesVersion)
  <2>1. CASE problem # Nil
    <3>1. Fails(pass, problem)
      BY <1>3, <2>1 DEF CheckChannel
    <3>2. QED
      BY <1>3, <3>1, InvFails DEF CheckChannel, PassInv
  <2>2. CASE problem = Nil
    <3>1. /\ pass' = [pass EXCEPT !.at = "fields", !.config = supported]
          /\ validateVersionForReleaseChannel(supported, pass.spec.releaseChannel,
                                              pass.spec.kubernetesVersion) = Nil
      BY <1>3, <2>2 DEF CheckChannel
    <3>2. Supports(supported, pass.spec)
      BY <1>3, <3>1, ValidatedSupports DEF CheckChannel
    <3>3. pass'.at = "fields" /\ pass'.spec = pass.spec /\ pass'.config = supported
      BY <1>3, <3>1 DEF CheckChannel, PassInv, IsPass
    <3>4. IsPass(pass')
      BY <1>3, <3>1 DEF CheckChannel, PassInv, IsPass
    <3>5. QED
      BY <1>3, <3>1, <3>2, <3>3, <3>4 DEF CheckChannel, PassInv
  <2>3. QED
    BY <2>1, <2>2
<1>4. CASE DeriveChannel
  <2> DEFINE derived == resolveReleaseChannelFromVersion(supported, pass.spec.kubernetesVersion)
             resolved == [pass.spec EXCEPT !.releaseChannel = derived]
  <2>1. CASE derived = NoneSupports
    BY <1>4, <2>1, InvFails DEF DeriveChannel, PassInv
  <2>2. CASE derived # NoneSupports
    <3>1. /\ pass' = [pass EXCEPT !.at = "fields", !.spec = resolved, !.config = supported]
          /\ cached' = IF pass.inCache THEN resolved ELSE cached
      BY <1>4, <2>2 DEF DeriveChannel
    <3>2. /\ Named \subseteq DOMAIN resolved
          /\ resolved.releaseChannel = derived
          /\ resolved.kubernetesVersion = pass.spec.kubernetesVersion
          /\ VersionProblem(resolved) = VersionProblem(pass.spec)
      BY <1>4, ChannelApart DEF DeriveChannel, PassInv
    <3>3. Supports(supported, resolved)
      BY <2>2, <3>2, DerivedSupports DEF Supports
    <3>4. pass'.at = "fields" /\ pass'.spec = resolved /\ pass'.config = supported
      <4> HIDE DEF resolved
      <4>1. QED
        BY <1>4, <3>1 DEF DeriveChannel, PassInv, IsPass
    <3>5. IsPass(pass')
      <4> HIDE DEF resolved
      <4>1. QED
        BY <1>4, <3>1 DEF DeriveChannel, PassInv, IsPass
    <3>6. VersionProblem(resolved) = Nil
      BY <1>4, <3>2 DEF DeriveChannel, PassInv
    <3>7. stored' = stored
      BY <1>4 DEF DeriveChannel
    <3> HIDE DEF resolved, derived
    <3>8. PassInv'
      BY <1>4, <3>1, <3>2, <3>3, <3>4, <3>5, <3>6 DEF DeriveChannel, PassInv
    <3>9. QED
      BY <3>1, <3>2, <3>7, <3>8
  <2>3. QED
    BY <2>1, <2>2
<1>5. CASE CheckFields
  <2>1. CASE FieldProblem(pass.spec) # Nil
    BY <1>5, <2>1, InvFails DEF CheckFields, PassInv
  <2>2. CASE FieldProblem(pass.spec) = Nil
    <3>1. ~RequestPanics(pass.spec)
      BY <1>5, <2>2, RequestBuilds DEF CheckFields, PassInv
    <3>2. pass' = [pass EXCEPT !.at = "create"]
      BY <1>5, <2>2, <3>1 DEF CheckFields, GoesTo
    <3>3. QED
      BY <1>5, <3>2 DEF CheckFields, PassInv, IsPass
  <2>3. QED
    BY <2>1, <2>2
<1>6. CASE Create
  <2>1. CASE taken
    BY <1>6, <2>1, InvFails DEF Create, PassInv
  <2>2. CASE ~taken
    BY <1>6, <2>2 DEF Create
  <2>3. QED
    BY <2>1, <2>2
<1>7. CASE Adopt \/ AdoptRefused
  BY <1>7 DEF Adopt, AdoptRefused, PassInv
<1>8. QED
  BY <1>1, <1>2, <1>3, <1>4, <1>5, <1>6, <1>7 DEF Attempt

\* So does every other step.
LEMMA InvNext == Inv /\ [Next]_vars => Inv'
<1> SUFFICES ASSUME Inv, [Next]_vars PROVE Inv'
  OBVIOUS
<1> USE DEF Inv
<1>1. CASE Attempt
  BY <1>1, InvAttempt
<1>2. CASE Watch
  <2>1. stored' = stored /\ cached' = stored
    BY <1>2 DEF Watch
  <2>2. CASE pass = Nil
    BY <1>2, <2>1, <2>2 DEF Watch
  <2>3. CASE pass # Nil
    BY <1>2, <2>1, <2>3 DEF Watch, PassInv, IsPass
  <2>4. QED
    BY <2>2, <2>3
<1>3. CASE Edit
  <2>1. Named \subseteq DOMAIN stored'
    BY <1>3, SpecsAssumption DEF Edit, Named
  <2>2. CASE pass = Nil
    BY <1>3, <2>1, <2>2 DEF Edit
  <2>3. CASE pass # Nil
    BY <1>3, <2>1, <2>3 DEF Edit, PassInv, IsPass
  <2>4. QED
    BY <2>2, <2>3
<1>4. CASE CallFails
  BY <1>4, InvFails DEF CallFails, PassInv
<1>5. CASE AdoptFails \/ Restart
  BY <1>5 DEF AdoptFails, Restart
<1>6. CASE OthersChange
  BY <1>6 DEF OthersChange, PassInv
<1>7. CASE UNCHANGED vars
  BY <1>7 DEF vars, PassInv
<1>8. QED
  BY <1>1, <1>2, <1>3, <1>4, <1>5, <1>6, <1>7 DEF Next, Progress

-----------------------------------------------------------------------------
(* The cache *)

\* While the object of an attempt is the one in the cache, what is written into it
\* is seen there.
CacheInv ==
    /\ CacheStraysByChannelOnly
    /\ pass # Nil /\ pass.inCache => cached = pass.spec

LEMMA CacheInit == Init => CacheInv
BY DEF Init, CacheInv, CacheStraysByChannelOnly

\* A step that leaves both specs alone, keeps the attempt on its object or ends it,
\* and delivers no event.
LEMMA CacheUntouched ==
    ASSUME CacheInv, UNCHANGED << stored, cached >>, behind => behind',
           pass' # Nil => /\ pass # Nil
                          /\ pass'.spec = pass.spec
                          /\ pass'.inCache = pass.inCache
    PROVE  CacheInv'
BY DEF CacheInv, CacheStraysByChannelOnly

\* A failed attempt, which leaves its own object or the stored one.
LEMMA CacheFails ==
    ASSUME CacheInv, NEW attempt, IsPass(attempt), attempt.inCache => cached = attempt.spec,
           NEW problem, Fails(attempt, problem), UNCHANGED << stored, cached >>
    PROVE  CacheInv'
<1>1. behind => behind'
  BY DEF Fails
<1>2. pass' # Nil /\ pass'.inCache => cached' = pass'.spec
  BY FailedHandsOn
<1>3. QED
  BY <1>1, <1>2 DEF CacheInv, CacheStraysByChannelOnly

\* A derived channel changes the cache in that channel only, and only for a stored
\* spec that names none.
LEMMA CacheDerive ==
    ASSUME Inv, CacheInv, DeriveChannel
    PROVE  CacheInv'
<1> DEFINE derived == resolveReleaseChannelFromVersion(supported, pass.spec.kubernetesVersion)
           resolved == [pass.spec EXCEPT !.releaseChannel = derived]
<1>1. CASE derived = NoneSupports
  BY <1>1, CacheFails DEF DeriveChannel, At, Inv, PassInv, CacheInv
<1>2. CASE derived # NoneSupports
  <2>1. /\ pass # Nil
        /\ pass.spec.releaseChannel \in Unrequested
        /\ pass' = [pass EXCEPT !.at = "fields", !.spec = resolved, !.config = supported]
        /\ cached' = IF pass.inCache THEN resolved ELSE cached
        /\ stored' = stored
        /\ behind' = behind
    BY <1>2 DEF DeriveChannel, At
  <2>2. derived \in SpecChannels
    BY <1>2, DerivedSupports
  <2>3. pass'.spec = resolved /\ pass'.inCache = pass.inCache
    <3> HIDE DEF resolved
    <3>1. QED
      BY <2>1 DEF Inv, PassInv, IsPass
  <2>4. CASE ~pass.inCache
    BY <2>1, <2>3, <2>4 DEF CacheInv, CacheStraysByChannelOnly
  <2>5. CASE pass.inCache
    <3>1. cached = pass.spec /\ cached' = resolved
      BY <2>1, <2>5 DEF CacheInv
    <3>2. ASSUME ~behind
          PROVE  /\ stored.releaseChannel \in Unrequested
                 /\ resolved = [stored EXCEPT !.releaseChannel = derived]
      <4>1. CASE cached = stored
        BY <2>1, <3>1, <4>1
      <4>2. CASE cached # stored
        <5>1. PICK c \in SpecChannels : cached = [stored EXCEPT !.releaseChannel = c]
          BY <3>2, <4>2 DEF CacheInv, CacheStraysByChannelOnly
        <5>2. stored.releaseChannel \in Unrequested
          BY <3>2, <4>2 DEF CacheInv, CacheStraysByChannelOnly
        <5>3. [cached EXCEPT !.releaseChannel = derived]
                = [stored EXCEPT !.releaseChannel = derived]
          <6> HIDE DEF derived
          <6>1. QED
            BY <5>1
        <5>4. QED
          BY <3>1, <5>2, <5>3
      <4>3. QED
        BY <4>1, <4>2
    <3> HIDE DEF resolved, derived
    <3>3. CacheStraysByChannelOnly'
      BY <2>1, <2>2, <3>1, <3>2 DEF CacheStraysByChannelOnly
    <3>4. QED
      BY <2>3, <3>1, <3>3 DEF CacheInv
  <2>6. QED
    BY <2>4, <2>5
<1>3. QED
  BY <1>1, <1>2

LEMMA CacheNext == Inv /\ CacheInv /\ [Next]_vars => CacheInv'
<1> SUFFICES ASSUME Inv, CacheInv, [Next]_vars PROVE CacheInv'
  OBVIOUS
<1>1. CASE Begin
  <2>1. CASE Fails(NewPass, AddressProblem(cached))
    BY <1>1, <2>1, CacheFails, NewPassParts DEF Begin
  <2>2. CASE pass' = NewPass /\ UNCHANGED << failure, behind >>
    BY <1>1, <2>2, NewPassParts DEF Begin, CacheInv, CacheStraysByChannelOnly
  <2>3. QED
    BY <1>1, <2>1, <2>2 DEF Begin
<1>2. CASE List \/ CheckChannel \/ CheckFields \/ Create \/ CallFails
  <2>1. pass # Nil /\ IsPass(pass) /\ UNCHANGED << stored, cached >>
    BY <1>2 DEF List, CheckChannel, CheckFields, Create, CallFails, At, Inv, PassInv
  <2>2. \/ \E problem : Fails(pass, problem)
        \/ /\ behind' = behind
           /\ \/ pass' = Nil
              \/ \E place : pass' = [pass EXCEPT !.at = place]
              \/ pass' = [pass EXCEPT !.at = "fields", !.config = supported]
    BY <1>2 DEF List, CheckChannel, CheckFields, Create, CallFails, GoesTo
  <2>3. CASE \E problem : Fails(pass, problem)
    BY <2>1, <2>3, CacheFails DEF CacheInv
  <2>4. CASE /\ behind' = behind
             /\ \/ pass' = Nil
                \/ \E place : pass' = [pass EXCEPT !.at = place]
                \/ pass' = [pass EXCEPT !.at = "fields", !.config = supported]
    <3>1. pass' # Nil => pass'.spec = pass.spec /\ pass'.inCache = pass.inCache
      BY <2>1, <2>4 DEF IsPass
    <3>2. QED
      BY <2>1, <2>4, <3>1, CacheUntouched
  <2>5. QED
    BY <2>2, <2>3, <2>4
<1>3. CASE DeriveChannel
  BY <1>3, CacheDerive
<1>4. CASE Watch
  <2>1. stored' = stored /\ cached' = stored
    BY <1>4 DEF Watch
  <2>2. pass' # Nil => ~pass'.inCache
    BY <1>4 DEF Watch, Inv, PassInv, IsPass
  <2>3. QED
    BY <2>1, <2>2 DEF CacheInv, CacheStraysByChannelOnly
<1>5. CASE Edit
  <2>1. pass' # Nil => pass # Nil /\ pass'.spec = pass.spec /\ pass'.inCache = pass.inCache
    BY <1>5 DEF Edit, Inv, PassInv, IsPass
  <2>2. QED
    BY <1>5, <2>1 DEF Edit, CacheInv, CacheStraysByChannelOnly
<1>6. CASE Adopt \/ AdoptRefused \/ AdoptFails \/ Restart
  BY <1>6 DEF Adopt, AdoptRefused, AdoptFails, Restart, CacheInv, CacheStraysByChannelOnly
<1>7. CASE OthersChange
  BY <1>7, CacheUntouched DEF OthersChange
<1>8. CASE UNCHANGED vars
  BY <1>8, CacheUntouched DEF vars
<1>9. QED
  BY <1>1, <1>2, <1>3, <1>4, <1>5, <1>6, <1>7, <1>8 DEF Next, Progress, Attempt

-----------------------------------------------------------------------------
(* The theorems *)

\* newClusterCreateRequest never dereferences a nil pointer: validateCreateRequest
\* has asked for every field it uses, whatever specs users write.
THEOREM CreationIsSafe == Spec => []CreationNeverPanics
<1>1. Inv => CreationNeverPanics
  BY DEF Inv, PassInv, CreationNeverPanics, At
<1>2. QED
  BY <1>1, InvInit, InvNext, PTL DEF Spec

\* ClusterCreate is called only for a channel that served the version when
\* ServerConfigGet was asked, although the spec, the cache and GKE may change.
THEOREM ChannelIsSupported == Spec => []AsksSupportedChannel
<1>1. Inv => AsksSupportedChannel
  BY DEF Inv, PassInv, AsksSupportedChannel, At, Supports
<1>2. QED
  BY <1>1, InvInit, InvNext, PTL DEF Spec

\* What validateCreateRequest writes into the object of the informer's cache is never
\* more than a release channel, and never for a spec that names one: once the events
\* have arrived, the cache holds the stored spec or that spec with a channel derived.
THEOREM CacheKeepsSpec == Spec => []CacheStraysByChannelOnly
<1>1. CacheInv => CacheStraysByChannelOnly
  BY DEF CacheInv
<1>2. QED
  BY <1>1, InvInit, InvNext, CacheInit, CacheNext, PTL DEF Spec

-----------------------------------------------------------------------------
(* Types *)

LEMMA DerivesAgain ==
    ASSUME NEW spec \in Derivable, spec.releaseChannel \in Unrequested, NEW c \in SpecChannels
    PROVE  [spec EXCEPT !.releaseChannel = c] \in Derivable
<1>1. CASE spec \in Specs
  BY <1>1 DEF Derivable
<1>2. CASE spec \notin Specs
  <2>1. PICK s \in Specs, d \in SpecChannels :
            s.releaseChannel \in Unrequested /\ spec = [s EXCEPT !.releaseChannel = d]
    BY <1>2 DEF Derivable
  <2>2. [spec EXCEPT !.releaseChannel = c] = [s EXCEPT !.releaseChannel = c]
    BY <2>1
  <2>3. QED
    BY <2>1, <2>2 DEF Derivable
<1>3. QED
  BY <1>1, <1>2

\* The first check that failed is one of the list.
LEMMA FailedIsNamed ==
    ASSUME NEW n \in 1 .. 14, NEW checks, DOMAIN checks = 1 .. n
    PROVE  \/ FirstFailed(checks) = Nil
           \/ \E i \in 1 .. n : FirstFailed(checks) = checks[i].name
<1> DEFINE failed == { i \in DOMAIN checks : ~checks[i].passed }
<1> SUFFICES ASSUME failed # {} PROVE \E i \in 1 .. n : FirstFailed(checks) = checks[i].name
  BY DEF FirstFailed
<1>1. failed \in SUBSET (1 .. 14)
  OBVIOUS
<1>2. \E i \in failed : \A j \in failed : i <= j
  BY <1>1, HasFirst
<1>3. (CHOOSE i \in failed : \A j \in failed : i <= j) \in failed
  BY <1>2
<1>4. QED
  BY <1>3 DEF FirstFailed

AddressProblems ==
    {"projectID", "location", "locations", "clusterName", "autopilot", "nodePools", "encryptionKey"}

LEMMA AddressProblemIs == ASSUME NEW spec PROVE AddressProblem(spec) \in AddressProblems \cup {Nil}
<1> DEFINE checks == <<
        Check("projectID", spec.projectID # ""),
        Check("location", spec.zone # "" \/ spec.region # ""),
        Check("locations", spec.zone = "" \/ spec.region = ""),
        Check("clusterName", spec.clusterName # ""),
        Check("autopilot", spec.nodePools = << >> \/ ~spec.autopilot),
        Check("nodePools", /\ \A np \in Range(spec.nodePools) : np.name # Nil /\ ScalesSensibly(np)
                           /\ ~Duplicates(spec.nodePools)),
        Check("encryptionKey", spec.encryptionKey # Nil => "" \notin Range(spec.encryptionKey)) >>
<1>1. AddressProblem(spec) = FirstFailed(checks)
  BY DEF AddressProblem
<1>2. DOMAIN checks = 1 .. 7 /\ \A i \in 1 .. 7 : checks[i].name \in AddressProblems
  <2>1. DOMAIN checks = 1 .. 7
    OBVIOUS
  <2>2. /\ checks[1].name = "projectID" /\ checks[2].name = "location"
        /\ checks[3].name = "locations" /\ checks[4].name = "clusterName"
        /\ checks[5].name = "autopilot" /\ checks[6].name = "nodePools"
        /\ checks[7].name = "encryptionKey"
    BY DEF Check
  <2> HIDE DEF checks
  <2>3. QED
    BY <2>1, <2>2 DEF AddressProblems
<1> HIDE DEF checks
<1>3. QED
  BY <1>1, <1>2, FailedIsNamed

LEMMA VersionProblemIs ==
    ASSUME NEW spec
    PROVE  VersionProblem(spec) \in {"enableKubernetesAlpha", "kubernetesVersion", Nil}
<1> DEFINE checks ==
        << Check("enableKubernetesAlpha", spec.enableKubernetesAlpha # Nil),
           Check("kubernetesVersion", spec.kubernetesVersion # Nil) >>
<1>1. VersionProblem(spec) = FirstFailed(checks)
  BY DEF VersionProblem
<1>2. /\ DOMAIN checks = 1 .. 2
      /\ \A i \in 1 .. 2 : checks[i].name \in {"enableKubernetesAlpha", "kubernetesVersion"}
  BY DEF Check
<1> HIDE DEF checks
<1>3. QED
  BY <1>1, <1>2, FailedIsNamed

\* What validateNodePoolCreateRequest may find wrong with a pool.
LEMMA PoolRefusedFor ==
    ASSUME NEW np, NEW spec
    PROVE  validateNodePoolCreateRequest(np, spec) \in PoolProblems \cup {Nil}
<1> DEFINE required == << "name", "version", "autoscaling", "initialNodeCount",
                          "maxPodsConstraint", "config", "management" >>
           Optional(f) == f = "maxPodsConstraint" /\ ~UsesIPAliases(spec)
           missing == { i \in 1 .. 7 : np[required[i]] = Nil /\ ~Optional(required[i]) }
           first == CHOOSE i \in missing : \A j \in missing : i <= j
<1>1. CASE missing # {}
  <2>1. validateNodePoolCreateRequest(np, spec) = required[first]
    BY <1>1 DEF validateNodePoolCreateRequest
  <2>2. missing \in SUBSET (1 .. 14)
    OBVIOUS
  <2>3. \E i \in missing : \A j \in missing : i <= j
    BY <1>1, <2>2, HasFirst
  <2>4. first \in 1 .. 7
    BY <2>3
  <2>5. \A i \in 1 .. 7 : required[i] \in PoolProblems
    BY DEF PoolProblems
  <2> HIDE DEF first, required
  <2>6. QED
    BY <2>1, <2>4, <2>5
<1>2. CASE missing = {}
  BY <1>2 DEF validateNodePoolCreateRequest, PoolProblems
<1>3. QED
  BY <1>1, <1>2

LEMMA PoolProblemIs == ASSUME NEW spec PROVE PoolProblem(spec) \in PoolProblems \cup {Nil}
<1> DEFINE problems == { validateNodePoolCreateRequest(np, spec) : np \in Range(spec.nodePools) }
<1>1. problems \subseteq PoolProblems \cup {Nil}
  BY PoolRefusedFor
<1>2. PoolProblem(spec) = IF problems \subseteq {Nil} THEN Nil ELSE CHOOSE p \in problems : p # Nil
  BY DEF PoolProblem
<1> HIDE DEF problems
<1>3. QED
  BY <1>1, <1>2

LEMMA FieldProblemIs == ASSUME NEW spec PROVE FieldProblem(spec) \in Problems \cup {Nil}
<1> DEFINE Required(f) == Check(f, spec[f] # Nil)
           checks == [i \in 1 .. 14 |->
                      CASE i < 9 -> Required(RequiredFields[i])
                        [] i = 9 -> Check("privateEndpoint", PrivateEndpointAllowed(spec))
                        [] i > 9 -> Required(RequiredFields[i - 1])]
<1>1. FieldProblem(spec) \in {FirstFailed(checks), PoolProblem(spec)}
  BY Zenon DEF FieldProblem
<1>2. \A i \in 1 .. 13 : RequiredFields[i] \in Problems
  <2> DEFINE names == {"clusterIpv4CidrBlock", "clusterAddons", "ipAllocationPolicy",
        "loggingService", "network", "subnetwork", "networkPolicyEnabled",
        "privateClusterConfig", "masterAuthorizedNetworks", "monitoringService", "locations",
        "maintenanceWindow", "labels"}
  <2>1. \A i \in 1 .. 13 : RequiredFields[i] \in names
    BY DEF RequiredFields
  <2>2. names \subseteq Problems
    BY DEF Problems
  <2> HIDE DEF names
  <2>3. QED
    BY <2>1, <2>2
<1>3. /\ \A i \in 1 .. 8 : checks[i] = Required(RequiredFields[i])
      /\ checks[9] = Check("privateEndpoint", PrivateEndpointAllowed(spec))
      /\ \A i \in 10 .. 14 : checks[i] = Required(RequiredFields[i - 1])
  BY DEF Check
<1>4. \A i \in 1 .. 14 : checks[i].name \in Problems
  <2> HIDE DEF checks
  <2>1. "privateEndpoint" \in Problems
    BY DEF Problems
  <2>2. \A i \in 10 .. 14 : i - 1 \in 1 .. 13
    OBVIOUS
  <2>3. QED
    BY <1>2, <1>3, <2>1, <2>2 DEF Check
<1>5. FirstFailed(checks) \in Problems \cup {Nil}
  <2>1. DOMAIN checks = 1 .. 14
    OBVIOUS
  <2> HIDE DEF checks
  <2>2. QED
    BY <1>4, <2>1, FailedIsNamed
<1>6. QED
  BY <1>1, <1>5, PoolProblemIs DEF Problems

LEMMA ChannelProblemIs ==
    ASSUME NEW config, NEW channel, NEW version, channel \notin Unrequested
    PROVE  validateVersionForReleaseChannel(config, channel, version) \in Problems \cup {Nil}
<1>1. CASE channel \in SpecChannels
  <2>1. SpecChannels = {"Rapid", "Regular", "Stable", "Extended"}
    BY DEF SpecChannels, specToGKEReleaseChannel
  <2>2. /\ Unsupported["Rapid"] = "not in Rapid"
        /\ Unsupported["Regular"] = "not in Regular"
        /\ Unsupported["Stable"] = "not in Stable"
        /\ Unsupported["Extended"] = "not in Extended"
    BY DEF Unsupported
  <2>3. Unsupported[channel] \in Problems
    BY <1>1, <2>1, <2>2 DEF Problems
  <2>4. QED
    BY <2>3 DEF validateVersionForReleaseChannel, Problems
<1>2. CASE channel \notin SpecChannels
  BY <1>2 DEF validateVersionForReleaseChannel, validateAndMapReleaseChannel, Problems
<1>3. QED
  BY <1>1, <1>2

TypeInv ==
    /\ stored \in Derivable
    /\ cached \in Derivable
    /\ behind \in BOOLEAN
    /\ failure \in Problems \cup {Nil}
    /\ adopted \in BOOLEAN
    /\ supported \in ServerConfigs
    /\ taken \in BOOLEAN
    /\ pass # Nil =>
            /\ pass.spec \in Derivable
            /\ pass.inCache \in BOOLEAN
            /\ pass.latest \in BOOLEAN
            /\ pass.config \in ServerConfigs

LEMMA WrittenIsDerivable == Specs \subseteq Derivable
BY DEF Derivable

LEMMA TypeInit == Init => TypeInv
BY WrittenIsDerivable DEF Init, TypeInv

\* An attempt that fails for one of the problems.
LEMMA TypeFails ==
    ASSUME TypeInv, NEW attempt, IsPass(attempt), attempt.spec \in Derivable,
           attempt.inCache \in BOOLEAN, attempt.latest \in BOOLEAN,
           attempt.config \in ServerConfigs, NEW problem \in Problems \cup {Nil},
           Fails(attempt, problem), UNCHANGED << stored, cached, adopted, supported, taken >>
    PROVE  TypeInv'
<1>1. behind' \in BOOLEAN /\ failure' \in Problems \cup {Nil}
  BY DEF TypeInv, Fails
<1>2. pass' # Nil => /\ pass'.spec \in Derivable
                     /\ pass'.inCache \in BOOLEAN
                     /\ pass'.latest \in BOOLEAN
                     /\ pass'.config \in ServerConfigs
  BY FailedHandsOn DEF TypeInv
<1>3. QED
  BY <1>1, <1>2 DEF TypeInv

\* An attempt that goes on with its spec, the versions it knows or new ones.
LEMMA TypeGoesOn ==
    ASSUME Inv, TypeInv, pass # Nil,
           UNCHANGED << stored, cached, failure, behind, adopted, supported, taken >>,
           NEW place, \/ pass' = [pass EXCEPT !.at = place]
                      \/ pass' = [pass EXCEPT !.at = place, !.config = supported]
    PROVE  TypeInv'
BY DEF TypeInv, Inv, PassInv, IsPass

LEMMA TypeAttempt == Inv /\ TypeInv /\ Attempt => TypeInv'
<1> SUFFICES ASSUME Inv, TypeInv, Attempt PROVE TypeInv'
  OBVIOUS
<1>0. ASSUME pass # Nil
      PROVE  /\ IsPass(pass) /\ pass.spec \in Derivable /\ pass.inCache \in BOOLEAN
             /\ pass.latest \in BOOLEAN /\ pass.config \in ServerConfigs
  BY <1>0 DEF Inv, PassInv, TypeInv
<1>1. CASE Begin
  <2>0. /\ IsPass(NewPass) /\ NewPass.spec \in Derivable /\ NewPass.inCache \in BOOLEAN
        /\ NewPass.latest \in BOOLEAN /\ NewPass.config \in ServerConfigs
    BY NewPassParts DEF TypeInv
  <2>1. CASE Fails(NewPass, AddressProblem(cached))
    <3>1. AddressProblem(cached) \in Problems \cup {Nil}
      BY AddressProblemIs DEF AddressProblems, Problems
    <3>2. QED
      BY <1>1, <2>0, <2>1, <3>1, TypeFails DEF Begin
  <2>2. CASE pass' = NewPass /\ UNCHANGED << failure, behind >>
    BY <1>1, <2>0, <2>2 DEF Begin, TypeInv
  <2>3. QED
    BY <1>1, <2>1, <2>2 DEF Begin
<1>2. CASE List
  <2>1. "exists" \in Problems
    BY DEF Problems
  <2>2. VersionProblem(pass.spec) \in Problems \cup {Nil}
    BY VersionProblemIs DEF Problems
  <2>3. CASE GoesTo("versions")
    <3>1. /\ pass # Nil /\ pass' = [pass EXCEPT !.at = "versions"]
          /\ UNCHANGED << stored, cached, failure, behind, adopted, supported, taken >>
      BY <1>2, <2>3 DEF List, GoesTo, At
    <3>2. QED
      BY <3>1, TypeGoesOn
  <2>4. CASE Fails(pass, "exists") \/ Fails(pass, VersionProblem(pass.spec))
    BY <1>0, <1>2, <2>1, <2>2, <2>4, TypeFails DEF List, At
  <2>5. QED
    BY <1>2, <2>3, <2>4 DEF List
<1>3. CASE CheckChannel
  <2> DEFINE problem == validateVersionForReleaseChannel(supported, pass.spec.releaseChannel,
                                                         pass.spec.kubernetesVersion)
  <2>1. problem \in Problems \cup {Nil}
    BY <1>3, ChannelProblemIs DEF CheckChannel
  <2>2. /\ pass # Nil /\ UNCHANGED << stored, cached, adopted, supported, taken >>
        /\ \/ Fails(pass, problem)
           \/ /\ pass' = [pass EXCEPT !.at = "fields", !.config = supported]
              /\ UNCHANGED << failure, behind >>
    BY <1>3 DEF CheckChannel, At
  <2> HIDE DEF problem
  <2>3. QED
    BY <1>0, <2>1, <2>2, TypeFails, TypeGoesOn
<1>4. CASE DeriveChannel
  <2> DEFINE derived == resolveReleaseChannelFromVersion(supported, pass.spec.kubernetesVersion)
             resolved == [pass.spec EXCEPT !.releaseChannel = derived]
  <2>1. CASE derived = NoneSupports
    <3>1. "unresolved" \in Problems
      BY DEF Problems
    <3>2. QED
      BY <1>0, <1>4, <2>1, <3>1, TypeFails DEF DeriveChannel, At
  <2>2. CASE derived # NoneSupports
    <3>1. /\ pass # Nil
          /\ pass.spec.releaseChannel \in Unrequested
          /\ pass' = [pass EXCEPT !.at = "fields", !.spec = resolved, !.config = supported]
          /\ cached' = IF pass.inCache THEN resolved ELSE cached
          /\ UNCHANGED << stored, failure, behind, adopted, supported, taken >>
      BY <1>4, <2>2 DEF DeriveChannel, At
    <3>2. derived \in SpecChannels
      BY <2>2, DerivedSupports
    <3>3. resolved \in Derivable
      <4> HIDE DEF derived
      <4>1. QED
        BY <3>1, <3>2, DerivesAgain DEF TypeInv
    <3> HIDE DEF resolved, derived
    <3>4. /\ pass'.spec = resolved /\ pass'.inCache = pass.inCache
          /\ pass'.latest = pass.latest /\ pass'.config = supported
      BY <3>1 DEF Inv, PassInv, IsPass
    <3>5. QED
      BY <3>1, <3>3, <3>4 DEF TypeInv
  <2>3. QED
    BY <2>1, <2>2
<1>5. CASE CheckFields
  <2>1. FieldProblem(pass.spec) \in Problems \cup {Nil}
    BY FieldProblemIs
  <2>2. CASE Fails(pass, FieldProblem(pass.spec))
    BY <1>0, <1>5, <2>1, <2>2, TypeFails DEF CheckFields, At
  <2>3. CASE GoesTo("panicked") \/ GoesTo("create")
    <3>1. /\ pass # Nil /\ UNCHANGED << stored, cached, failure, behind, adopted, supported, taken >>
          /\ \/ pass' = [pass EXCEPT !.at = "panicked"]
             \/ pass' = [pass EXCEPT !.at = "create"]
      BY <1>5, <2>3 DEF CheckFields, GoesTo, At
    <3>2. QED
      BY <3>1, TypeGoesOn
  <2>4. QED
    BY <1>5, <2>2, <2>3 DEF CheckFields
<1>6. CASE Create
  <2>1. "alreadyExists" \in Problems
    BY DEF Problems
  <2>2. CASE taken
    BY <1>0, <1>6, <2>1, <2>2, TypeFails DEF Create, At
  <2>3. CASE ~taken
    BY <1>6, <2>3 DEF Create, TypeInv
  <2>4. QED
    BY <2>2, <2>3
<1>7. CASE Adopt \/ AdoptRefused
  BY <1>0, <1>7 DEF Adopt, AdoptRefused, At, TypeInv
<1>8. QED
  BY <1>1, <1>2, <1>3, <1>4, <1>5, <1>6, <1>7 DEF Attempt

LEMMA TypeNext == Inv /\ TypeInv /\ [Next]_vars => TypeInv'
<1> SUFFICES ASSUME Inv, TypeInv, [Next]_vars PROVE TypeInv'
  OBVIOUS
<1>1. CASE Watch
  <2>1. cached' \in Derivable
    BY <1>1 DEF Watch, TypeInv
  <2>2. pass' # Nil => /\ pass # Nil /\ pass'.spec = pass.spec /\ pass'.config = pass.config
                       /\ pass'.inCache = FALSE /\ pass'.latest = pass.latest
    BY <1>1 DEF Watch, Inv, PassInv, IsPass
  <2>3. QED
    BY <1>1, <2>1, <2>2 DEF Watch, TypeInv
<1>2. CASE AdoptFails \/ Restart \/ OthersChange \/ UNCHANGED vars
  BY <1>2 DEF AdoptFails, Restart, OthersChange, vars, TypeInv
<1>3. CASE CallFails
  <2>1. "gke" \in Problems
    BY DEF Problems
  <2>2. "unresolved" \in Problems
    BY DEF Problems
  <2>3. /\ IsPass(pass) /\ pass.spec \in Derivable /\ pass.inCache \in BOOLEAN
        /\ pass.latest \in BOOLEAN /\ pass.config \in ServerConfigs
    BY <1>3 DEF CallFails, Inv, PassInv, TypeInv
  <2>4. QED
    BY <1>3, <2>1, <2>2, <2>3, TypeFails DEF CallFails
<1>4. CASE Edit
  <2>1. stored' \in Derivable
    BY <1>4, WrittenIsDerivable, SpecsAssumption DEF Edit
  <2>2. pass' # Nil => /\ pass # Nil /\ pass'.spec = pass.spec /\ pass'.config = pass.config
                       /\ pass'.inCache = pass.inCache /\ pass'.latest = FALSE
    BY <1>4 DEF Edit, Inv, PassInv, IsPass
  <2>3. QED
    BY <1>4, <2>1, <2>2 DEF Edit, TypeInv
<1>5. QED
  BY <1>1, <1>2, <1>3, <1>4, TypeAttempt DEF Next, Progress

\* Every attempt is at one of the calls, on a spec a user wrote or on one with a
\* channel derived for it, and fails only for one of the problems the checks name.
THEOREM CreationTypes == Spec => []TypeOK
<1>1. Inv /\ TypeInv => TypeOK
  BY DEF Inv, PassInv, TypeInv, TypeOK
<1>2. QED
  BY <1>1, InvInit, InvNext, TypeInit, TypeNext, PTL DEF Spec
=============================================================================
