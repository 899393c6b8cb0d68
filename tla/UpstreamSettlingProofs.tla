------------------------- MODULE UpstreamSettlingProofs -------------------------
(***************************************************************************)
(* For every set of specs, clusters and node pools of the types of the     *)
(* code: a pass that ends quietly has found the cluster and its pools as   *)
(* the spec asks, but for the two things that the comparisons overlook,    *)
(* and it stays like that until somebody edits the spec.                   *)
(***************************************************************************)
EXTENDS UpstreamSyncProofs, FiniteSetTheorems

-----------------------------------------------------------------------------
(* A cluster in which no update function finds anything to change *)

LEMMA RangeOfNone == Range(<< >>) = {}
<1>1. DOMAIN << >> = {}
  OBVIOUS
<1>2. QED
  BY <1>1 DEF Range

\* Two lists of the same length, of which one has no block twice and only blocks of
\* the other, have the same blocks.
LEMMA SameBlocks ==
    ASSUME NEW have, NEW want, have \in Seq(Range(have)), want \in Seq(Range(want)),
           IsInjective(want), compareCidrBlockPointerSlices(have, want)
    PROVE  Range(want) = Range(have)
<1> DEFINE S == 1 .. Len(want)
<1>1. Len(want) \in Nat /\ DOMAIN want = S /\ DOMAIN have = S
  BY DEF compareCidrBlockPointerSlices
<1>2. IsFiniteSet(S)
  BY <1>1, FS_Interval
<1>3. have \in Surjection(S, Range(have))
  BY <1>1 DEF Surjection, Range
<1>4. want \in Injection(S, Range(have))
  <2>1. \A i \in S : want[i] \in Range(want)
    BY <1>1 DEF Range
  <2>2. Range(want) \subseteq Range(have)
    BY DEF compareCidrBlockPointerSlices
  <2>3. want \in [S -> Range(want)]
    BY <1>1
  <2>4. want \in [S -> Range(have)]
    BY <1>1, <2>1, <2>2, <2>3
  <2>5. QED
    BY <2>4 DEF Injection
<1>5. IsFiniteSet(Range(have)) /\ Cardinality(Range(have)) <= Cardinality(S)
  BY <1>2, <1>3, FS_Surjection
<1>6. Cardinality(S) <= Cardinality(Range(have))
  BY <1>4, <1>5, FS_Injection
<1>7. Cardinality(S) \in Nat /\ Cardinality(Range(have)) \in Nat
  BY <1>2, <1>5, FS_CardinalityType
<1>8. want \in Surjection(S, Range(have))
  BY <1>4, <1>5, <1>6, <1>7, FS_Injection
<1>9. QED
  BY <1>1, <1>8 DEF Surjection, Range

\* What may be lacking of a cluster, and the fields of it that a name stands for.
Names ==
    {"kubernetesVersion", "releaseChannel", "clusterAddons", "masterAuthorizedNetworks",
     "otherBlocks", "services", "networkPolicyEnabled", "locations", "maintenanceWindow", "labels"}

FieldsOf(name) ==
    IF name = "clusterAddons" THEN Addons
    ELSE IF name = "services" THEN {"loggingService", "monitoringService"}
    ELSE IF name = "otherBlocks" THEN {"masterAuthorizedNetworks"}
    ELSE {name}

LEMMA LackingNames == ASSUME NEW s, NEW c PROVE Lacking(s, c) \subseteq Names
BY DEF Lacking, Names

\* What is the same in two clusters is lacking in both or in none.
LEMMA LackingApart ==
    ASSUME NEW s, NEW c, NEW d, NEW name \in Lacking(s, d),
           \A f \in FieldsOf(name) : d[f] = c[f]
    PROVE  name \in Lacking(s, c)
<1>1. name \in Names
  BY LackingNames
<1>2. CASE name = "kubernetesVersion"
  <2>1. d.kubernetesVersion = c.kubernetesVersion
    BY <1>2 DEF FieldsOf
  <2>2. "kubernetesVersion" \in Lacking(s, d)
    BY <1>2
  <2>3. QED
    BY <1>2, <2>1, <2>2 DEF Lacking
<1>3. CASE name = "releaseChannel"
  <2>1. d.releaseChannel = c.releaseChannel
    BY <1>3 DEF FieldsOf
  <2>2. "releaseChannel" \in Lacking(s, d)
    BY <1>3
  <2>3. QED
    BY <1>3, <2>1, <2>2 DEF Lacking
<1>4. CASE name = "clusterAddons"
  <2>1. \A a \in Addons : d[a] = c[a]
    BY <1>4 DEF FieldsOf
  <2>2. "clusterAddons" \in Lacking(s, d)
    BY <1>4
  <2>3. QED
    BY <1>4, <2>1, <2>2 DEF Lacking
<1>5. CASE name = "masterAuthorizedNetworks"
  <2>1. d.masterAuthorizedNetworks = c.masterAuthorizedNetworks
    BY <1>5 DEF FieldsOf
  <2>2. "masterAuthorizedNetworks" \in Lacking(s, d)
    BY <1>5
  <2>3. QED
    BY <1>5, <2>1, <2>2 DEF Lacking
<1>6. CASE name = "services"
  <2>1. \A f \in {"loggingService", "monitoringService"} : d[f] = c[f]
    BY <1>6 DEF FieldsOf
  <2>2. "services" \in Lacking(s, d)
    BY <1>6
  <2>3. QED
    BY <1>6, <2>1, <2>2 DEF Lacking
<1>7. CASE name = "networkPolicyEnabled"
  <2>1. d.networkPolicyEnabled = c.networkPolicyEnabled
    BY <1>7 DEF FieldsOf
  <2>2. "networkPolicyEnabled" \in Lacking(s, d)
    BY <1>7
  <2>3. QED
    BY <1>7, <2>1, <2>2 DEF Lacking
<1>8. CASE name = "locations"
  <2>1. d.locations = c.locations
    BY <1>8 DEF FieldsOf
  <2>2. "locations" \in Lacking(s, d)
    BY <1>8
  <2>3. QED
    BY <1>8, <2>1, <2>2 DEF Lacking
<1>9. CASE name = "maintenanceWindow"
  <2>1. d.maintenanceWindow = c.maintenanceWindow
    BY <1>9 DEF FieldsOf
  <2>2. "maintenanceWindow" \in Lacking(s, d)
    BY <1>9
  <2>3. QED
    BY <1>9, <2>1, <2>2 DEF Lacking
<1>10. CASE name = "labels"
  <2>1. d.labels = c.labels
    BY <1>10 DEF FieldsOf
  <2>2. "labels" \in Lacking(s, d)
    BY <1>10
  <2>3. QED
    BY <1>10, <2>1, <2>2 DEF Lacking
<1>11. CASE name = "otherBlocks"
  <2>1. d.masterAuthorizedNetworks = c.masterAuthorizedNetworks
    BY <1>11 DEF FieldsOf
  <2>2. "otherBlocks" \in Lacking(s, d)
    BY <1>11
  <2>3. QED
    BY <1>11, <2>1, <2>2 DEF Lacking
<1>12. QED
  BY <1>1, <1>2, <1>3, <1>4, <1>5, <1>6, <1>7, <1>8, <1>9, <1>10, <1>11 DEF Names

Alike(c, d) ==
    \A f \in ClusterFields \ {"kubernetesVersion", "labels"} : d[f] = c[f]

\* What GKE and its other clients do to a cluster leaves the rest as the spec asks.
LEMMA LackingStays ==
    ASSUME NEW s, NEW c, NEW d, Alike(c, d)
    PROVE  Lacking(s, d) \subseteq Lacking(s, c) \cup {"kubernetesVersion", "labels"}
<1> SUFFICES ASSUME NEW name \in Lacking(s, d), name \notin {"kubernetesVersion", "labels"}
             PROVE  name \in Lacking(s, c)
  OBVIOUS
<1>1. name \in Names
  BY LackingNames
<1>2. FieldsOf(name) \subseteq ClusterFields \ {"kubernetesVersion", "labels"}
  BY <1>1 DEF Names, FieldsOf, ClusterFields, Addons
<1>3. QED
  BY <1>2, LackingApart DEF Alike

ClusterAsAsked(s) ==
    Lacking(s, cluster) \subseteq {"kubernetesVersion", "labels"} \cup ClusterOverlooked(s)

\* A cluster of which no update function finds anything to change when version and
\* labels are left out, which others change while a pass is under way.
LEMMA NothingElseLacking ==
    ASSUME NEW s \in Revisions, NEW c, \A f \in ClusterFields : Fits(f, c[f]),
           NEW u, FirstUpdate(s, u) = 0,
           \A f \in ReadFields : u[f] = buildUpstreamClusterState(c)[f]
    PROVE  Lacking(s, c) \subseteq {"kubernetesVersion", "labels"} \cup ClusterOverlooked(s)
<1>1. \A i \in 1 .. 9 : DOMAIN Updates(s, u)[i] = {}
  BY FirstOfUpdates
<1>2. /\ DOMAIN UpdateReleaseChannel(s, u) = {}
      /\ DOMAIN UpdateClusterAddons(s, u) = {}
      /\ DOMAIN UpdateMasterAuthorizedNetworks(s, u) = {}
      /\ DOMAIN UpdateLoggingMonitoringService(s, u) = {}
      /\ DOMAIN UpdateNetworkPolicyEnabled(s, u) = {}
      /\ DOMAIN UpdateLocations(s, u) = {}
      /\ DOMAIN UpdateMaintenanceWindow(s, u) = {}
  <2> DEFINE updates == Updates(s, u)
  <2>1. \A i \in 1 .. 9 : DOMAIN updates[i] = {}
    BY <1>1
  <2>2. /\ updates[2] = UpdateReleaseChannel(s, u)
        /\ updates[3] = UpdateClusterAddons(s, u)
        /\ updates[4] = UpdateMasterAuthorizedNetworks(s, u)
        /\ updates[5] = UpdateLoggingMonitoringService(s, u)
        /\ updates[6] = UpdateNetworkPolicyEnabled(s, u)
        /\ updates[7] = UpdateLocations(s, u)
        /\ updates[8] = UpdateMaintenanceWindow(s, u)
    BY UpdatesAre
  <2> HIDE DEF updates
  <2>3. /\ DOMAIN updates[2] = {} /\ DOMAIN updates[3] = {} /\ DOMAIN updates[4] = {}
        /\ DOMAIN updates[5] = {} /\ DOMAIN updates[6] = {} /\ DOMAIN updates[7] = {}
        /\ DOMAIN updates[8] = {}
    BY <2>1
  <2>4. QED
    BY <2>2, <2>3, Zenon
<1>3. /\ u.releaseChannel = UpstreamReleaseChannel(c.releaseChannel)
      /\ u.clusterAddons = [a \in Addons |-> c[a] \in {Nil, TRUE}]
      /\ u.masterAuthorizedNetworks =
            IF c.masterAuthorizedNetworks.enabled THEN c.masterAuthorizedNetworks
                                                        ELSE [enabled |-> FALSE, cidrBlocks |-> << >>]
      /\ u.loggingService = c.loggingService
      /\ u.monitoringService = c.monitoringService
      /\ u.networkPolicyEnabled = c.networkPolicyEnabled
      /\ u.locations = c.locations
      /\ u.maintenanceWindow = c.maintenanceWindow
  BY DEF ReadFields, buildUpstreamClusterState
<1>4. /\ \A a \in Addons : c[a] \in {Nil, TRUE, FALSE}
      /\ c.networkPolicyEnabled \in BOOLEAN
      /\ c.masterAuthorizedNetworks.enabled \in BOOLEAN
      /\ c.masterAuthorizedNetworks.cidrBlocks
            \in Seq(Range(c.masterAuthorizedNetworks.cidrBlocks))
      /\ c.locations # {}
  BY DEF ClusterFields, Fits, Addons
<1>5. "releaseChannel" \notin Lacking(s, c)
  <2> SUFFICES ASSUME s.releaseChannel \in SpecChannels
               PROVE  c.releaseChannel = specToGKEReleaseChannel[s.releaseChannel]
    BY DEF Lacking
  <2>1. s.releaseChannel = UpstreamReleaseChannel(c.releaseChannel)
    BY <1>2, <1>3, SettingsAssumption DEF UpdateReleaseChannel
  <2>2. QED
    BY <2>1, SettingsAssumption DEF UpstreamReleaseChannel, GKEChannels
<1>6. "networkPolicyEnabled" \notin Lacking(s, c)
  <2> SUFFICES ASSUME s.networkPolicyEnabled # Nil
               PROVE  s.networkPolicyEnabled = c.networkPolicyEnabled
    BY DEF Lacking
  <2>1. QED
    BY <1>2, <1>3 DEF UpdateNetworkPolicyEnabled
<1>7. "clusterAddons" \notin Lacking(s, c)
  <2> SUFFICES ASSUME s.clusterAddons # Nil, NEW a \in Addons
               PROVE  s.clusterAddons[a] <=> c[a] # FALSE
    BY DEF Lacking
  <2>1. s.clusterAddons[a] \in BOOLEAN
    BY SettingsAssumption
  <2>2. ~AddonWaits(s, u)
    BY <1>2, <1>3, <1>4, SettingsAssumption DEF AddonWaits, UpdateNetworkPolicyEnabled
  <2>3. ~DiffersIn(a, s, u)
    BY <1>2, <2>2 DEF UpdateClusterAddons
  <2>4. QED
    BY <1>3, <1>4, <2>1, <2>3, SettingsAssumption DEF DiffersIn
<1>8. "masterAuthorizedNetworks" \notin Lacking(s, c)
  <2> DEFINE want == s.masterAuthorizedNetworks
             have == c.masterAuthorizedNetworks
  <2> SUFFICES ASSUME want # Nil
               PROVE  /\ want.enabled <=> have.enabled
                      /\ want.enabled => Range(want.cidrBlocks) \subseteq Range(have.cidrBlocks)
    BY DEF Lacking
  <2>1. /\ want.enabled => compareCidrBlockPointerSlices(u.masterAuthorizedNetworks.cidrBlocks,
                                                          want.cidrBlocks)
        /\ want.enabled = u.masterAuthorizedNetworks.enabled
    BY <1>2 DEF UpdateMasterAuthorizedNetworks
  <2>2. want.enabled = have.enabled
    <3>1. CASE have.enabled = TRUE
      BY <1>3, <2>1, <3>1
    <3>2. CASE have.enabled = FALSE
      <4>1. u.masterAuthorizedNetworks = [enabled |-> FALSE, cidrBlocks |-> << >>]
        BY <1>3, <3>2
      <4>2. u.masterAuthorizedNetworks.enabled = FALSE
        BY <4>1
      <4>3. QED
        BY <2>1, <3>2, <4>2
    <3>3. QED
      BY <1>4, <3>1, <3>2
  <2>3. want.enabled => Range(want.cidrBlocks) \subseteq Range(have.cidrBlocks)
    BY <1>3, <1>4, <2>1, <2>2 DEF compareCidrBlockPointerSlices
  <2>4. QED
    BY <2>2, <2>3
<1>9. "services" \notin Lacking(s, c)
  <2> SUFFICES ASSUME NEW f \in {"loggingService", "monitoringService"}, s[f] # Nil
               PROVE  c[f] = ServiceMeant(s[f])
    BY DEF Lacking
  <2>1. QED
    BY <1>2, <1>3 DEF UpdateLoggingMonitoringService
<1>10. "locations" \notin Lacking(s, c)
  <2> SUFFICES ASSUME s.zone # ""
               PROVE  c.locations = IF s.locations = << >> THEN {s.zone} ELSE Range(s.locations)
    BY DEF Lacking
  <2>1. \/ s.locations = << >> /\ c.locations = {s.zone}
        \/ Range(s.locations) = c.locations
    BY <1>2, <1>3 DEF UpdateLocations
  <2>2. s.locations = << >> => Range(s.locations) = {}
    BY RangeOfNone
  <2>3. QED
    BY <1>4, <2>1, <2>2
<1>11. "maintenanceWindow" \notin Lacking(s, c)
  <2> SUFFICES ASSUME s.maintenanceWindow # Nil
               PROVE  c.maintenanceWindow = s.maintenanceWindow
    BY DEF Lacking
  <2>1. QED
    BY <1>2, <1>3 DEF UpdateMaintenanceWindow
<1>12. ASSUME "otherBlocks" \notin ClusterOverlooked(s) PROVE "otherBlocks" \notin Lacking(s, c)
  <2> DEFINE want == s.masterAuthorizedNetworks
             have == c.masterAuthorizedNetworks
  <2> SUFFICES ASSUME want # Nil, want.enabled
               PROVE  Range(have.cidrBlocks) \subseteq Range(want.cidrBlocks)
    BY DEF Lacking
  <2>1. /\ compareCidrBlockPointerSlices(u.masterAuthorizedNetworks.cidrBlocks, want.cidrBlocks)
        /\ u.masterAuthorizedNetworks.enabled = want.enabled
    BY <1>2 DEF UpdateMasterAuthorizedNetworks
  <2>2. want.enabled = TRUE /\ want.cidrBlocks \in Seq(Range(want.cidrBlocks))
    BY SettingsAssumption DEF Fits
  <2>3. have.enabled
    <3>1. ASSUME have.enabled = FALSE PROVE FALSE
      <4>1. u.masterAuthorizedNetworks = [enabled |-> FALSE, cidrBlocks |-> << >>]
        BY <1>3, <3>1
      <4>2. u.masterAuthorizedNetworks.enabled = FALSE
        BY <4>1
      <4>3. QED
        BY <2>1, <2>2, <4>2
    <3>2. QED
      BY <1>4, <3>1
  <2>4. compareCidrBlockPointerSlices(have.cidrBlocks, want.cidrBlocks)
    BY <1>3, <2>1, <2>3
  <2>5. IsInjective(want.cidrBlocks)
    BY <1>12 DEF ClusterOverlooked
  <2>6. QED
    BY <1>4, <2>2, <2>4, <2>5, SameBlocks
<1>13. QED
  BY <1>5, <1>6, <1>7, <1>8, <1>9, <1>10, <1>11, <1>12, LackingNames DEF Names

\* A cluster of which no update function finds anything to change has every setting as
\* the spec asks, version and labels included: the comparisons of the code, each with
\* its own notion of nil, empty and default, overlook nothing but a block too many
\* where the spec lists one twice.
THEOREM NothingLacking ==
    ASSUME NEW s \in Revisions, NEW c, \A f \in ClusterFields : Fits(f, c[f]),
           FirstUpdate(s, buildUpstreamClusterState(c)) = 0
    PROVE  Lacking(s, c) \subseteq ClusterOverlooked(s)
<1> DEFINE u == buildUpstreamClusterState(c)
<1>1. Lacking(s, c) \subseteq {"kubernetesVersion", "labels"} \cup ClusterOverlooked(s)
  BY NothingElseLacking
<1>2. u.kubernetesVersion = c.kubernetesVersion /\ u.labels = c.labels
  BY DEF buildUpstreamClusterState
<1> HIDE DEF u
<1>3. DOMAIN UpdateMasterKubernetesVersion(s, u) = {} /\ DOMAIN UpdateLabels(s, u) = {}
  <2> DEFINE updates == Updates(s, u)
  <2>1. \A i \in 1 .. 9 : DOMAIN updates[i] = {}
    BY FirstOfUpdates DEF u
  <2>2. updates[1] = UpdateMasterKubernetesVersion(s, u) /\ updates[9] = UpdateLabels(s, u)
    BY UpdatesAre
  <2> HIDE DEF updates
  <2>3. DOMAIN updates[1] = {} /\ DOMAIN updates[9] = {}
    BY <2>1
  <2>4. QED
    BY <2>2, <2>3, Zenon
<1>4. "kubernetesVersion" \notin Lacking(s, c)
  <2>1. ~VersionDiffers(s, u)
    BY <1>3 DEF UpdateMasterKubernetesVersion
  <2>2. QED
    BY <1>2, <2>1 DEF VersionDiffers, Lacking
<1>5. "labels" \notin Lacking(s, c)
  <2>1. s.labels # Nil => s.labels = u.labels
    BY <1>3 DEF UpdateLabels
  <2>2. QED
    BY <1>2, <2>1 DEF Lacking
<1>6. QED
  BY <1>1, <1>4, <1>5

-----------------------------------------------------------------------------
(* A pool for which no update function finds anything to change *)

LEMMA PoolLackingFields == ASSUME NEW np, NEW v PROVE PoolLacking(np, v) \subseteq PoolFields
BY DEF PoolLacking, PoolFields

\* A field that is the same in two pools is lacking in both or in none.
LEMMA PoolLackingApart ==
    ASSUME NEW np, NEW u, NEW v, NEW f \in PoolLacking(np, v), v[f] = u[f]
    PROVE  f \in PoolLacking(np, u)
<1>1. f \in PoolFields
  BY PoolLackingFields
<1>2. CASE f = "version"
  <2>1. "version" \in PoolLacking(np, v) /\ v.version = u.version
    BY <1>2
  <2>2. QED
    BY <1>2, <2>1 DEF PoolLacking
<1>3. CASE f = "imageType"
  <2>1. "imageType" \in PoolLacking(np, v) /\ v.imageType = u.imageType
    BY <1>3
  <2>2. QED
    BY <1>3, <2>1 DEF PoolLacking
<1>4. CASE f = "initialNodeCount"
  <2>1. "initialNodeCount" \in PoolLacking(np, v) /\ v.initialNodeCount = u.initialNodeCount
    BY <1>4
  <2>2. QED
    BY <1>4, <2>1 DEF PoolLacking
<1>5. CASE f = "autoscaling"
  <2>1. "autoscaling" \in PoolLacking(np, v) /\ v.autoscaling = u.autoscaling
    BY <1>5
  <2>2. Autoscaling(v) = Autoscaling(u)
    BY <2>1 DEF Autoscaling
  <2>3. QED
    BY <1>5, <2>1, <2>2 DEF PoolLacking
<1>6. CASE f = "management"
  <2>1. "management" \in PoolLacking(np, v) /\ v.management = u.management
    BY <1>6
  <2>2. QED
    BY <1>6, <2>1 DEF PoolLacking
<1>7. CASE f = "labels"
  <2>1. "labels" \in PoolLacking(np, v) /\ v.labels = u.labels
    BY <1>7
  <2>2. QED
    BY <1>7, <2>1 DEF PoolLacking
<1>8. QED
  BY <1>1, <1>2, <1>3, <1>4, <1>5, <1>6, <1>7 DEF PoolFields

\* A pool for which no update function finds anything to change has every setting as
\* the spec asks, but for its image where the spec gives the pool no version.
THEOREM PoolNothingLacking ==
    ASSUME NEW np, NEW u, DOMAIN FirstPoolUpdate(np, u) = {}
    PROVE  PoolLacking(np, u) \subseteq PoolOverlooked(np)
<1>1. \A i \in 1 .. 5 : DOMAIN PoolUpdates(np, u)[i] = {}
  BY FirstOfPoolUpdates
<1>2. /\ DOMAIN UpdateNodePoolKubernetesVersionOrImageType(np, u) = {}
      /\ DOMAIN UpdateNodePoolSize(np, u) = {}
      /\ DOMAIN UpdateNodePoolAutoscaling(np, u) = {}
      /\ DOMAIN UpdateNodePoolManagement(np, u) = {}
      /\ DOMAIN UpdateNodePoolConfig(np, u) = {}
  <2> DEFINE updates == PoolUpdates(np, u)
  <2>1. /\ updates[1] = UpdateNodePoolKubernetesVersionOrImageType(np, u)
        /\ updates[2] = UpdateNodePoolSize(np, u)
        /\ updates[3] = UpdateNodePoolAutoscaling(np, u)
        /\ updates[4] = UpdateNodePoolManagement(np, u)
        /\ updates[5] = UpdateNodePoolConfig(np, u)
    BY PoolUpdatesAre
  <2> HIDE DEF updates
  <2>2. /\ DOMAIN updates[1] = {} /\ DOMAIN updates[2] = {} /\ DOMAIN updates[3] = {}
        /\ DOMAIN updates[4] = {} /\ DOMAIN updates[5] = {}
    BY <1>1 DEF updates
  <2>3. QED
    BY <2>1, <2>2, Zenon
<1>3. PoolLacking(np, u) \subseteq
        {"version", "imageType", "initialNodeCount", "autoscaling", "management", "labels"}
  BY DEF PoolLacking
<1>4. ASSUME "imageType" \notin PoolOverlooked(np) PROVE "imageType" \notin PoolLacking(np, u)
  <2> SUFFICES ASSUME np.config # Nil, np.config.imageType # ""
               PROVE  u.imageType = np.config.imageType
    BY DEF PoolLacking
  <2>1. np.version # Nil
    BY <1>4 DEF PoolOverlooked
  <2> DEFINE differs == { f \in {"version", "imageType"} :
                              IF f = "version" THEN np.version \notin {"", u.version}
                              ELSE np.config.imageType \notin {"", u.imageType} }
  <2>2. DOMAIN UpdateNodePoolKubernetesVersionOrImageType(np, u) = differs
    BY <2>1 DEF UpdateNodePoolKubernetesVersionOrImageType
  <2>3. "imageType" \notin differs
    BY <1>2, <2>2
  <2>4. QED
    BY <2>3
<1>5. "initialNodeCount" \notin PoolLacking(np, u)
  <2> SUFFICES ASSUME np.initialNodeCount # Nil PROVE u.initialNodeCount = np.initialNodeCount
    BY DEF PoolLacking
  <2>1. QED
    BY <1>2 DEF UpdateNodePoolSize
<1>6. "autoscaling" \notin PoolLacking(np, u)
  <2> SUFFICES ASSUME np.autoscaling # Nil
               PROVE  \/ u.autoscaling = np.autoscaling
                      \/ ~np.autoscaling.enabled /\ ~Autoscaling(u).enabled
    BY DEF PoolLacking
  <2>1. \/ np.autoscaling = Autoscaling(u)
        \/ ~np.autoscaling.enabled /\ ~Autoscaling(u).enabled
    BY <1>2 DEF UpdateNodePoolAutoscaling
  <2>2. QED
    BY <2>1 DEF Autoscaling, NoAutoscaling
<1>7. "management" \notin PoolLacking(np, u)
  <2> SUFFICES ASSUME np.management # Nil PROVE u.management = np.management
    BY DEF PoolLacking
  <2>1. QED
    BY <1>2 DEF UpdateNodePoolManagement
<1>8. "labels" \notin PoolLacking(np, u)
  <2> SUFFICES ASSUME LabelsAsked(np) # Nil PROVE u.labels = LabelsAsked(np)
    BY DEF PoolLacking
  <2>1. QED
    BY <1>2 DEF UpdateNodePoolConfig
<1>9. "version" \notin PoolLacking(np, u)
  <2> SUFFICES ASSUME Given(np.version) PROVE u.version = np.version
    BY DEF PoolLacking
  <2> DEFINE differs == { f \in {"version", "imageType"} :
                              IF f = "version" THEN np.version \notin {"", u.version}
                              ELSE np.config.imageType \notin {"", u.imageType} }
  <2>1. DOMAIN UpdateNodePoolKubernetesVersionOrImageType(np, u) = differs
    BY DEF UpdateNodePoolKubernetesVersionOrImageType, Given
  <2>2. "version" \notin differs
    BY <1>2, <2>1
  <2>3. QED
    BY <2>2 DEF Given
<1>10. QED
  BY <1>3, <1>4, <1>5, <1>6, <1>7, <1>8, <1>9

\* Two settings of a pool that differ in the version at most.
SameButVersion(u, v) == \A f \in PoolFields \ {"version"} : v[f] = u[f]

LEMMA PoolLackingStays ==
    ASSUME NEW np, NEW u, NEW v, SameButVersion(u, v)
    PROVE  PoolLacking(np, v) \subseteq PoolLacking(np, u) \cup {"version"}
<1> SUFFICES ASSUME NEW f \in PoolLacking(np, v), f # "version" PROVE f \in PoolLacking(np, u)
  OBVIOUS
<1>1. v[f] = u[f]
  BY PoolLackingFields DEF SameButVersion
<1>2. QED
  BY <1>1, PoolLackingApart

\* Where no name is there twice, the map has every pool that has a name.
LEMMA AskedOnce ==
    ASSUME NEW s \in Revisions, ~LeavesPoolsAlone(s), ~Duplicates(s.nodePools),
           NEW np \in Range(s.nodePools), np.name # Nil
    PROVE  np.name \in DOMAIN buildNodePoolMap(s.nodePools)
           /\ buildNodePoolMap(s.nodePools)[np.name] = np
<1>1. s.nodePools \in Seq(Range(s.nodePools))
  BY SettingsAssumption DEF LeavesPoolsAlone
<1>2. DOMAIN s.nodePools = 1 .. Len(s.nodePools)
  BY <1>1
<1>3. np.name \in DOMAIN buildNodePoolMap(s.nodePools)
  BY PoolMap
<1>4. /\ buildNodePoolMap(s.nodePools)[np.name] \in Range(s.nodePools)
      /\ buildNodePoolMap(s.nodePools)[np.name].name = np.name
  BY <1>3, PoolMap
<1>5. QED
  BY <1>2, <1>3, <1>4 DEF Range, Duplicates

-----------------------------------------------------------------------------
(* The invariant *)

\* Pool n is there, and nobody but GKE has anything done to it.
Serves(n) ==
    /\ n \in Present
    /\ \/ pools[n].status = "RUNNING"
       \/ pools[n].status = "RECONCILING" /\ DOMAIN pools[n].request \subseteq {"version"}

PoolAsAsked(s, n) ==
    /\ Serves(n)
    /\ \A np \in Range(s.nodePools) :
            np.name = n => PoolLacking(np, pools[n].settings) \subseteq {"version"} \cup PoolOverlooked(np)

PoolsAsAsked(s) ==
    ~LeavesPoolsAlone(s) => Present \subseteq Listed(s) /\ \A n \in Listed(s) : PoolAsAsked(s, n)

\* Pool n still is as the pass read it.
AsRead(n) ==
    /\ Serves(n)
    /\ SameButVersion(pass.pools[n], pools[n].settings)

\* What pass and store have in common as long as the key is not due again: the
\* pass has the stored spec, and while it has asked for nothing, the pools are as it
\* read them, those it has been at are as the spec asks, or not there if not listed.
PassQuiet ==
    /\ pass.spec = spec
    /\ pass.at = "pools" => ClusterAsAsked(spec)
    /\ ~pass.sent /\ ~LeavesPoolsAlone(spec) =>
            /\ Present \subseteq DOMAIN pass.pools
            /\ \A n \in Listed(spec) \cap DOMAIN pass.pools : AsRead(n)
            /\ pass.at = "pools" =>
                    /\ \A n \in Listed(spec) \ pass.todo : PoolAsAsked(spec, n)
                    /\ Present \subseteq Listed(spec) \cup pass.todo

QuietInv ==
    ~due => IF pass = Idle THEN phase = "active" /\ ClusterAsAsked(spec) /\ PoolsAsAsked(spec)
                           ELSE PassQuiet

-----------------------------------------------------------------------------
(* What goes on at GKE *)

\* A change of the cluster that nobody asked for.
LEMMA ClusterDrifts ==
    ASSUME QuietInv, UNCHANGED << spec, phase, due, pools, pass >>, ~due => Alike(cluster, cluster')
    PROVE  QuietInv'
<1> SUFFICES ASSUME ~due PROVE QuietInv'
  BY DEF QuietInv
<1>1. ClusterAsAsked(spec) => ClusterAsAsked(spec)'
  BY LackingStays DEF ClusterAsAsked
<1>2. PoolsAsAsked(spec)' <=> PoolsAsAsked(spec)
  BY DEF PoolsAsAsked, PoolAsAsked, Serves, Present
<1>3. PassQuiet => PassQuiet'
  BY <1>1 DEF PassQuiet, AsRead, PoolAsAsked, Serves, Present
<1>4. QED
  BY <1>1, <1>2, <1>3 DEF QuietInv

\* A change of a pool after which, if a spec asks for it, it serves as before but
\* for the version.
LEMMA PoolDrifts ==
    ASSUME Inv, QuietInv, UNCHANGED << spec, phase, due, cluster, pass >>,
           NEW n \in PoolNames, NEW after, pools' = [pools EXCEPT ![n] = after], n \in Present,
           Serves(n) /\ (~LeavesPoolsAlone(spec) => n \in Listed(spec)) =>
               Serves(n)' /\ SameButVersion(pools[n].settings, after.settings)
    PROVE  QuietInv'
<1> SUFFICES ASSUME ~due PROVE QuietInv'
  BY DEF QuietInv
<1>1. pools'[n] = after /\ \A m \in PoolNames \ {n} : pools'[m] = pools[m]
  BY DEF Inv
<1>2. Present' \subseteq Present
  BY <1>1 DEF Present
<1>3. ASSUME NEW m \in Listed(spec), Serves(m)
      PROVE  Serves(m)' /\ SameButVersion(pools[m].settings, pools'[m].settings)
  <2>1. m \in Present /\ m \in PoolNames
    BY <1>3 DEF Serves, Present
  <2>2. CASE m = n
    BY <1>1, <1>3, <2>2
  <2>3. CASE m # n
    BY <1>1, <1>3, <2>1, <2>3 DEF Serves, Present, SameButVersion
  <2>4. QED
    BY <2>2, <2>3
<1>4. ASSUME NEW m \in Listed(spec), PoolAsAsked(spec, m) PROVE PoolAsAsked(spec, m)'
  BY <1>3, <1>4, PoolLackingStays DEF PoolAsAsked
<1>5. ASSUME NEW m \in Listed(spec), AsRead(m) PROVE AsRead(m)'
  BY <1>3, <1>5 DEF AsRead, SameButVersion
<1>6. PoolsAsAsked(spec) => PoolsAsAsked(spec)'
  BY <1>2, <1>4 DEF PoolsAsAsked
<1>7. PassQuiet => PassQuiet'
  BY <1>2, <1>4, <1>5 DEF PassQuiet, ClusterAsAsked
<1>8. QED
  BY <1>6, <1>7 DEF QuietInv, ClusterAsAsked

\* A pool that serves does so when GKE is through with it, and while it upgrades it.
LEMMA StillServes ==
    ASSUME Inv, Typed, NEW n \in PoolNames, PoolDone(n) \/ PoolFails(n) \/ PoolAutoUpgrade(n), Serves(n)
    PROVE  Serves(n)' /\ SameButVersion(pools[n].settings, pools'[n].settings)
<1>1. CASE PoolAutoUpgrade(n)
  <2>1. pools'[n] = Pool("RECONCILING", pools[n].settings, [version |-> cluster.kubernetesVersion])
    BY <1>1 DEF PoolAutoUpgrade, Inv
  <2>2. QED
    BY <2>1 DEF Serves, Present, SameButVersion, Pool, Absent
<1>2. CASE PoolDone(n) \/ PoolFails(n)
  <2> DEFINE done == Applied(pools[n].request, pools[n].settings)
  <2>1. pools[n].status = "RECONCILING" /\ DOMAIN pools[n].request \subseteq {"version"}
    BY <1>2 DEF Serves, PoolDone, PoolFails, PoolEnds
  <2>2. SameButVersion(pools[n].settings, done)
    BY <2>1 DEF Applied, SameButVersion, Typed, PoolTyped, Serves
  <2> HIDE DEF done
  <2>3. pools'[n] = Running(done) \/ pools'[n] = Running(pools[n].settings)
    BY <1>2, <2>1 DEF PoolDone, PoolFails, PoolEnds, Inv, done
  <2>4. QED
    BY <2>2, <2>3 DEF Serves, Present, Running, Pool, SameButVersion, Absent
<1>3. QED
  BY <1>1, <1>2

LEMMA QuietPoolEnds ==
    ASSUME Inv, Typed, QuietInv, NEW n \in PoolNames, PoolDone(n) \/ PoolFails(n)
    PROVE  QuietInv'
<1>1. PICK after :
        /\ n \in Present
        /\ UNCHANGED << spec, phase, due, cluster, pass >>
        /\ pools' = [pools EXCEPT ![n] = after]
  BY DEF PoolDone, PoolFails, PoolEnds, configVars
<1>2. pools'[n] = after
  BY <1>1 DEF Inv
<1>3. QED
  BY <1>1, <1>2, StillServes, PoolDrifts

\* GKE upgrades a pool, or another client removes one the spec does not list.
LEMMA QuietPoolDrift ==
    ASSUME Inv, QuietInv, NEW n \in PoolNames, PoolAutoUpgrade(n) \/ OthersRemove(n)
    PROVE  QuietInv'
<1>1. CASE PoolAutoUpgrade(n)
  <2> DEFINE after == Pool("RECONCILING", pools[n].settings, [version |-> cluster.kubernetesVersion])
  <2>1. /\ n \in Present
        /\ UNCHANGED << spec, phase, due, cluster, pass >>
        /\ pools' = [pools EXCEPT ![n] = after]
    BY <1>1 DEF PoolAutoUpgrade, configVars
  <2>2. pools'[n] = after
    BY <2>1 DEF Inv
  <2>3. Serves(n)' /\ after.settings = pools[n].settings
    BY <2>2 DEF Serves, Present, Pool, Absent
  <2> HIDE DEF after
  <2>4. QED
    BY <2>1, <2>3, PoolDrifts DEF SameButVersion
<1>2. CASE OthersRemove(n)
  <2> DEFINE after == Pool("STOPPING", pools[n].settings, NoRequest)
  <2>1. /\ n \in Present /\ ~LeavesPoolsAlone(spec) /\ n \notin Listed(spec)
        /\ UNCHANGED << spec, phase, due, cluster, pass >>
        /\ pools' = [pools EXCEPT ![n] = after]
    BY <1>2 DEF OthersRemove, configVars
  <2> HIDE DEF after
  <2>2. QED
    BY <2>1, PoolDrifts
<1>3. QED
  BY <1>1, <1>2

-----------------------------------------------------------------------------
(* The passes *)

LEMMA QuietCheckUpdates == Inv /\ Typed /\ QuietInv /\ CheckUpdates => QuietInv'
<1> SUFFICES ASSUME Inv, Typed, CheckUpdates PROVE QuietInv'
  OBVIOUS
<1>1. /\ pass' = [at |-> "cluster", spec |-> spec,
                  upstream |-> buildUpstreamClusterState(cluster), pools |-> UpstreamPools,
                  fingerprint |-> Nil, todo |-> {}, sent |-> FALSE]
      /\ UNCHANGED << spec, phase, pools >>
  BY DEF CheckUpdates, gkeVars
<1>2. pass'.spec = spec' /\ pass'.at = "cluster" /\ pass'.pools = UpstreamPools /\ pass' # Idle
  BY <1>1 DEF Idle
<1>3. \A n \in Present : pools[n].status = "RUNNING"
  BY DEF CheckUpdates, Busy, Typed, PoolTyped
<1>4. UpstreamPools = [n \in Present |-> pools[n].settings]
  BY <1>3 DEF UpstreamPools
<1>5. \A n \in Present : AsRead(n)'
  BY <1>1, <1>2, <1>3, <1>4 DEF AsRead, Serves, Present, SameButVersion
<1>6. QED
  BY <1>1, <1>2, <1>4, <1>5 DEF QuietInv, PassQuiet, Present

\* A step of a pass that leaves its key due needs no proof.
LEMMA DueIsNotQuiet ==
    ASSUME Fails \/ Waits
    PROVE  QuietInv'
BY DEF Fails, Waits, QuietInv

\* A pass that moves on to something else than the pools.
LEMMA QuietElsewhere ==
    ASSUME Inv, QuietInv, pass # Idle, UNCHANGED << spec, due, gkeVars >>,
           pass' # Idle, pass'.spec = pass.spec, pass'.pools = pass.pools, pass'.sent = pass.sent,
           pass'.at # "pools"
    PROVE  QuietInv'
BY DEF QuietInv, PassQuiet, AsRead, Serves, Present, gkeVars

LEMMA QuietPanics ==
    ASSUME Inv, QuietInv, pass # Idle, Panics, UNCHANGED << spec, gkeVars >>
    PROVE  QuietInv'
<1>1. PassInv
  BY DEF Inv
<1>2. /\ pass' # Idle /\ pass'.spec = pass.spec /\ pass'.pools = pass.pools
      /\ pass'.sent = pass.sent /\ pass'.at # "pools" /\ UNCHANGED due
  BY <1>1 DEF PassInv, Panics, GoesTo, Idle
<1>3. QED
  BY <1>2, QuietElsewhere

\* A pass that has found the cluster as the spec asks.
LEMMA QuietLooksAtPools ==
    ASSUME Inv, RequestInv, QuietInv, At("cluster"), Turn = 0, LooksAtPools,
           UNCHANGED << spec, gkeVars >>
    PROVE  QuietInv'
<1> SUFFICES ASSUME ~due' PROVE QuietInv'
  BY DEF QuietInv
<1>1. PassInv /\ pass # Idle
  BY DEF Inv, At
<1>2. ~due /\ pass.spec = spec
  BY <1>1 DEF LooksAtPools, Fails, Settles, QuietInv, PassQuiet
<1>3. ClusterAsAsked(spec)'
  <2>1. ClusterAsAsked(pass.spec)
    BY <1>1, NothingElseLacking DEF Turn, PassInv, RequestInv, ReadInv, ClusterFits, ClusterAsAsked
  <2>2. QED
    BY <1>2, <2>1 DEF ClusterAsAsked, gkeVars
<1>4. CASE LeavesPoolsAlone(pass.spec)
  <2>1. pass' = Idle /\ phase' = "active" /\ LeavesPoolsAlone(spec')
    BY <1>2, <1>4 DEF LooksAtPools, Settles, Written
  <2>2. QED
    BY <1>3, <2>1 DEF QuietInv, PoolsAsAsked
<1>5. CASE ~LeavesPoolsAlone(pass.spec)
  <2>1. /\ ~Duplicates(pass.spec.nodePools)
        /\ pass' = [pass EXCEPT !.at = "pools", !.todo = DOMAIN Downstream \cup DOMAIN pass.pools]
    BY <1>5 DEF LooksAtPools, Fails
  <2>2. /\ pass'.spec = spec' /\ pass'.pools = pass.pools /\ pass'.sent = pass.sent
        /\ pass'.todo = DOMAIN Downstream \cup DOMAIN pass.pools
        /\ pass' # Idle
    BY <1>1, <1>2, <2>1 DEF PassInv, Idle
  <2>3. DOMAIN Downstream = Listed(spec)
    BY <1>2, <2>1, ListedInMap DEF Downstream
  <2>4. PassQuiet
    BY <1>1, <1>2 DEF QuietInv
  <2>5. PassQuiet'
    BY <1>3, <2>2, <2>3, <2>4 DEF PassQuiet, AsRead, Serves, Present, gkeVars
  <2>6. QED
    BY <2>2, <2>5 DEF QuietInv
<1>6. QED
  BY <1>4, <1>5

LEMMA QuietUpdateCluster == Inv /\ RequestInv /\ QuietInv /\ UpdateCluster => QuietInv'
<1> SUFFICES ASSUME Inv, RequestInv, QuietInv, UpdateCluster PROVE QuietInv'
  OBVIOUS
<1>1. At("cluster") /\ pass # Idle /\ PassInv /\ UNCHANGED << spec, cluster, pools >>
  BY DEF UpdateCluster, At, Inv
<1>2. CASE Panics /\ UNCHANGED operation
  BY <1>1, <1>2, QuietPanics DEF gkeVars
<1>3. CASE Fails
  BY <1>3, DueIsNotQuiet
<1>4. CASE Turn = 0 /\ LooksAtPools /\ UNCHANGED operation
  BY <1>1, <1>4, QuietLooksAtPools DEF gkeVars
<1>5. CASE /\ pass' = [pass EXCEPT !.at = "labels", !.fingerprint = cluster.labels]
           /\ UNCHANGED << phase, due, operation >>
  <2>1. /\ pass' # Idle /\ pass'.spec = pass.spec /\ pass'.pools = pass.pools
        /\ pass'.sent = pass.sent /\ pass'.at # "pools"
    BY <1>1, <1>5 DEF PassInv, Idle
  <2>2. QED
    BY <1>1, <1>5, <2>1, QuietElsewhere DEF gkeVars
<1>6. CASE \E request : CallsCluster(request)
  BY <1>6, DueIsNotQuiet DEF CallsCluster
<1>7. QED
  BY <1>2, <1>3, <1>4, <1>5, <1>6 DEF UpdateCluster

\* A pass that has seen to a pool without a call finds it as the spec asks, or gone.
LEMMA QuietVisit ==
    ASSUME Inv, QuietInv, NEW n \in PoolNames, Visits(n), Passes(n, FALSE), UNCHANGED pools,
           ~due /\ ~pass.sent =>
               IF n \in Listed(spec) THEN PoolAsAsked(spec, n) ELSE n \notin Present
    PROVE  QuietInv'
<1> SUFFICES ASSUME ~due PROVE QuietInv'
  BY DEF QuietInv, Passes
<1>1. PassInv /\ pass.at = "pools" /\ pass # Idle /\ PassQuiet
  BY DEF Inv, Visits, At, QuietInv
<1>2. /\ pass' # Idle /\ pass'.at = "pools" /\ pass'.spec = pass.spec /\ pass'.pools = pass.pools
      /\ pass'.todo = pass.todo \ {n} /\ pass'.sent = (pass.sent \/ FALSE) /\ UNCHANGED << phase, due >>
  BY <1>1 DEF PassInv, Passes, Idle
<1>3. UNCHANGED << spec, cluster, operation, pools >>
  BY DEF Visits
<1>4. Present' = Present /\ \A m : Serves(m)' <=> Serves(m)
  BY <1>3 DEF Serves, Present
<1>5. ASSUME ~pass'.sent, ~LeavesPoolsAlone(spec)
      PROVE  /\ Present \subseteq DOMAIN pass.pools
             /\ \A m \in Listed(spec) \cap DOMAIN pass.pools : AsRead(m)'
             /\ \A m \in Listed(spec) \ pass'.todo : PoolAsAsked(spec, m)'
             /\ Present \subseteq Listed(spec) \cup pass'.todo
  <2>1. ~pass.sent
    BY <1>2, <1>5
  <2>2. \A m \in Listed(spec) \ pass'.todo : PoolAsAsked(spec, m)
    BY <1>1, <1>2, <1>5, <2>1 DEF PassQuiet
  <2>3. Present \subseteq DOMAIN pass.pools /\ Present \subseteq Listed(spec) \cup pass'.todo
    BY <1>1, <1>2, <1>5, <2>1 DEF PassQuiet
  <2>4. \A m \in Listed(spec) \cap DOMAIN pass.pools : AsRead(m)
    BY <1>1, <1>5, <2>1 DEF PassQuiet
  <2>5. QED
    BY <1>2, <1>3, <1>4, <2>2, <2>3, <2>4 DEF AsRead, PoolAsAsked
<1>6. PassQuiet'
  BY <1>1, <1>2, <1>3, <1>4, <1>5 DEF PassQuiet, ClusterAsAsked
<1>7. QED
  BY <1>2, <1>6 DEF QuietInv

\* A pass that called GKE for a pool will not end quietly.
LEMMA QuietCall ==
    ASSUME Inv, QuietInv, NEW n \in PoolNames, Visits(n), Passes(n, TRUE)
    PROVE  QuietInv'
<1> SUFFICES ASSUME ~due PROVE QuietInv'
  BY DEF QuietInv, Passes
<1>1. PassInv /\ pass.at = "pools" /\ pass # Idle /\ PassQuiet
  BY DEF Inv, Visits, At, QuietInv
<1>2. pass' # Idle /\ pass'.at = "pools" /\ pass'.spec = pass.spec /\ pass'.sent = TRUE
  BY <1>1 DEF PassInv, Passes, Idle
<1>3. UNCHANGED << spec, cluster, operation >>
  BY DEF Visits
<1>4. PassQuiet'
  BY <1>1, <1>2, <1>3 DEF PassQuiet, ClusterAsAsked
<1>5. QED
  BY <1>2, <1>4 DEF QuietInv

LEMMA QuietUpdatePool ==
    ASSUME Inv, QuietInv, NEW n \in PoolNames, UpdatePool(n)
    PROVE  QuietInv'
<1>1. /\ Visits(n) /\ n \in DOMAIN Downstream /\ n \in DOMAIN pass.pools
      /\ PassInv /\ pass # Idle /\ pass.at = "pools"
  BY DEF UpdatePool, Visits, At, Inv
<1>2. CASE Panics /\ UNCHANGED pools
  BY <1>1, <1>2, QuietPanics DEF Visits, gkeVars
<1>3. CASE Fails \/ \E after : AskOfPool(n, after)
  BY <1>1, <1>3, DueIsNotQuiet, QuietCall DEF AskOfPool
<1>4. CASE DOMAIN PoolRequest(n) = {} /\ Passes(n, FALSE) /\ UNCHANGED pools
  <2>1. ASSUME ~due, ~pass.sent PROVE n \in Listed(spec) /\ PoolAsAsked(spec, n)
    <3>1. pass.spec = spec /\ PassQuiet /\ ~LeavesPoolsAlone(spec) /\ ~Duplicates(spec.nodePools)
      BY <1>1, <2>1 DEF QuietInv, PassQuiet, PassInv
    <3>2. n \in Listed(spec)
      BY <1>1, <3>1, ListedInMap DEF Downstream
    <3>3. AsRead(n)
      BY <1>1, <2>1, <3>1, <3>2 DEF PassQuiet
    <3>4. ASSUME NEW np \in Range(spec.nodePools), np.name = n
          PROVE  PoolLacking(np, pools[n].settings) \subseteq {"version"} \cup PoolOverlooked(np)
      <4>1. np.name # Nil
        BY <3>2, <3>4 DEF Listed
      <4>2. Downstream[n] = np
        BY <1>1, <3>1, <3>4, <4>1, AskedOnce DEF Downstream, PassInv
      <4>3. PoolLacking(np, pass.pools[n]) \subseteq PoolOverlooked(np)
        BY <1>4, <4>2, PoolNothingLacking DEF PoolRequest
      <4>4. QED
        BY <3>3, <4>3, PoolLackingStays DEF AsRead
    <3>5. QED
      BY <3>2, <3>3, <3>4 DEF PoolAsAsked, AsRead
  <2>2. QED
    BY <1>1, <1>4, <2>1, QuietVisit
<1>5. QED
  BY <1>2, <1>3, <1>4 DEF UpdatePool

LEMMA QuietCreatePool ==
    ASSUME Inv, QuietInv, NEW n \in PoolNames, CreatePool(n)
    PROVE  QuietInv'
BY DueIsNotQuiet, QuietCall DEF CreatePool, AskOfPool

LEMMA QuietRemovePool ==
    ASSUME Inv, QuietInv, NEW n \in PoolNames, RemovePool(n)
    PROVE  QuietInv'
<1>1. Visits(n) /\ n \notin DOMAIN Downstream /\ PassInv /\ pass # Idle /\ pass.at = "pools"
  BY DEF RemovePool, Visits, At, Inv
<1>2. CASE \E after : AskOfPool(n, after)
  BY <1>1, <1>2, QuietCall DEF AskOfPool
<1>3. CASE n \notin Present /\ Passes(n, FALSE) /\ UNCHANGED pools
  <2>1. ~due => n \notin Listed(spec)
    BY <1>1, ListedInMap DEF QuietInv, PassQuiet, PassInv, Downstream
  <2>2. QED
    BY <1>1, <1>3, <2>1, QuietVisit
<1>4. QED
  BY <1>2, <1>3 DEF RemovePool

LEMMA QuietPoolsDone ==
    ASSUME Inv, QuietInv, PoolsDone
    PROVE  QuietInv'
<1> SUFFICES ASSUME ~due' PROVE QuietInv'
  BY DEF QuietInv
<1>1. PassInv /\ pass # Idle /\ pass.at = "pools" /\ pass.todo = {}
  BY DEF PoolsDone, At, Inv
<1>2. ~pass.sent /\ ~due /\ pass' = Idle /\ phase' = "active" /\ UNCHANGED << spec, cluster, pools >>
  BY DEF PoolsDone, Waits, Settles, Written, gkeVars
<1>3. PassQuiet /\ ~LeavesPoolsAlone(spec)
  BY <1>1, <1>2 DEF QuietInv, PassQuiet, PassInv
<1>4. ClusterAsAsked(spec) /\ PoolsAsAsked(spec)
  BY <1>1, <1>2, <1>3 DEF PassQuiet, PoolsAsAsked
<1>5. QED
  BY <1>2, <1>4 DEF QuietInv, ClusterAsAsked, PoolsAsAsked, PoolAsAsked, Serves, Present

LEMMA QuietInit == Init => QuietInv
BY DEF Init, QuietInv

LEMMA QuietPass == Inv /\ RequestInv /\ Typed /\ QuietInv /\ Pass => QuietInv'
<1> SUFFICES ASSUME Inv, RequestInv, Typed, QuietInv, Pass PROVE QuietInv'
  OBVIOUS
<1>1. CASE CheckWaits
  BY <1>1 DEF CheckWaits, QuietInv
<1>2. CASE SetLabels
  BY <1>2, DueIsNotQuiet DEF SetLabels, CallsCluster
<1>3. QED
  BY <1>1, <1>2, QuietCheckUpdates, QuietUpdateCluster, QuietUpdatePool, QuietCreatePool,
     QuietRemovePool, QuietPoolsDone DEF Pass

LEMMA QuietNext == Inv /\ RequestInv /\ Typed /\ QuietInv /\ [Next]_vars => QuietInv'
<1> SUFFICES ASSUME Inv, RequestInv, Typed, QuietInv, [Next]_vars PROVE QuietInv'
  OBVIOUS
<1>1. CASE UNCHANGED vars
  BY <1>1 DEF vars, QuietInv, PassQuiet, ClusterAsAsked, PoolsAsAsked, AsRead, PoolAsAsked, Serves,
     Present
<1>2. CASE Edit \/ Restart
  BY <1>2 DEF Edit, Restart, QuietInv
<1>3. CASE ClusterCallRefused
  BY <1>3, DueIsNotQuiet DEF ClusterCallRefused
<1>4. ASSUME NEW n \in PoolNames, PoolCallRefused(n) PROVE QuietInv'
  BY <1>4, DueIsNotQuiet, QuietCall DEF PoolCallRefused
<1>5. CASE OperationDone
  <2>1. UNCHANGED << spec, phase, due, pools, pass >>
    BY <1>5 DEF OperationDone, OperationEnds, configVars
  <2>2. ~due => Alike(cluster, cluster')
    BY <1>5 DEF OperationDone, OperationEnds, Alike, Applied, RequestInv, OperationInv, ClusterFits
  <2>3. QED
    BY <2>1, <2>2, ClusterDrifts
<1>6. CASE OperationFails \/ AutoUpgrade
  <2>1. UNCHANGED << spec, phase, due, cluster, pools, pass >>
    BY <1>6 DEF OperationFails, OperationEnds, AutoUpgrade, configVars
  <2>2. QED
    BY <2>1, ClusterDrifts DEF Alike
<1>7. CASE OthersLabel
  <2>1. UNCHANGED << spec, phase, due, pools, pass >>
    BY <1>7 DEF OthersLabel, configVars
  <2>2. Alike(cluster, cluster')
    BY <1>7 DEF OthersLabel, Alike, RequestInv, ClusterFits
  <2>3. QED
    BY <2>1, <2>2, ClusterDrifts
<1>8. ASSUME NEW n \in PoolNames,
             PoolDone(n) \/ PoolFails(n) \/ PoolAutoUpgrade(n) \/ OthersRemove(n)
      PROVE  QuietInv'
  BY <1>8, QuietPoolEnds, QuietPoolDrift
<1>9. QED
  BY <1>1, <1>2, <1>3, <1>4, <1>5, <1>6, <1>7, <1>8, QuietPass DEF Next, Progress, Disturbance

-----------------------------------------------------------------------------
(* A config that is left alone *)

LEMMA QuietIsInSync == Inv /\ RequestInv /\ QuietInv => QuietMeansInSync
<1> SUFFICES ASSUME RequestInv, QuietInv, pass = Idle, ~due
             PROVE  /\ phase = "active"
                    /\ operation.by # "operator"
                    /\ OutOfSync(spec, cluster, pools) \subseteq Drifts \cup Overlooked(spec)
  BY DEF QuietMeansInSync
<1>1. phase = "active" /\ ClusterAsAsked(spec) /\ PoolsAsAsked(spec)
  BY DEF QuietInv
<1>2. operation.by # "operator"
  BY DEF RequestInv, OperationInv
<1> DEFINE serving == { n \in Present : pools[n].status \in {"RUNNING", "RECONCILING"} }
           lacking(n) == UNION { PoolLacking(np, pools[n].settings) :
                                 np \in { p \in Range(spec.nodePools) : p.name = n } }
<1>3. { <<f>> : f \in Lacking(spec, cluster) } \subseteq Drifts \cup Overlooked(spec)
  BY <1>1 DEF ClusterAsAsked, Drifts, Overlooked
<1>4. ASSUME ~LeavesPoolsAlone(spec)
      PROVE  /\ Listed(spec) \ serving = {}
             /\ Present \ Listed(spec) = {}
             /\ \A n \in Listed(spec) \cap serving : \A f \in lacking(n) :
                    f = "version" \/ \E np \in Range(spec.nodePools) :
                                        np.name = n /\ f \in PoolOverlooked(np)
  BY <1>1, <1>4 DEF PoolsAsAsked, PoolAsAsked, Serves
<1>5. OutOfSync(spec, cluster, pools) =
          { <<f>> : f \in Lacking(spec, cluster) }
          \cup IF LeavesPoolsAlone(spec) THEN {}
               ELSE { <<n, "present">> : n \in Listed(spec) \ serving }
                    \cup { <<n, "absent">> : n \in Present \ Listed(spec) }
                    \cup UNION { { <<n, f>> : f \in lacking(n) } : n \in Listed(spec) \cap serving }
  BY DEF OutOfSync, Present
<1>6. ASSUME ~LeavesPoolsAlone(spec), NEW n \in Listed(spec) \cap serving, NEW f \in lacking(n)
      PROVE  <<n, f>> \in Drifts \cup Overlooked(spec)
  <2>1. CASE f = "version"
    BY <1>6, <2>1 DEF Drifts, Present
  <2>2. CASE f # "version"
    <3>1. PICK np \in Range(spec.nodePools) : np.name = n /\ f \in PoolOverlooked(np)
      BY <1>4, <1>6, <2>2
    <3>2. QED
      BY <1>6, <3>1 DEF Overlooked
  <2>3. QED
    BY <2>1, <2>2
<1>7. OutOfSync(spec, cluster, pools) \subseteq Drifts \cup Overlooked(spec)
  <2> HIDE DEF serving, lacking
  <2>1. QED
    BY <1>3, <1>4, <1>5, <1>6
<1>8. QED
  BY <1>1, <1>2, <1>7

\* When nothing brings a config back to a worker, it is active, nothing it asked for
\* is under way, and its cluster and pools are as the spec asks, but for what GKE
\* and its other clients changed since and what the comparisons overlook, a block too
\* many beside one listed twice and the image of a pool without a version: whatever
\* was edited, refused, disturbed or restarted, a pass ends quietly only if there was
\* nothing else to do anywhere.
THEOREM QuietPassesAreInSync == Spec => []QuietMeansInSync
<1>1. QED
  BY QuietIsInSync, InvInit, InvNext, RequestInit, RequestNext, TypedInit, TypedNext, QuietInit,
     QuietNext, PTL
     DEF Spec

-----------------------------------------------------------------------------
(* A spec that stays: the invariant *)

\* What the operator has asked of the cluster brings it no further from the spec.
OperationRepairs ==
    operation.by = "operator" =>
        Lacking(spec, Applied(operation.request, cluster)) \subseteq Lacking(spec, cluster)

AskedPools(n) == { np \in Range(spec.nodePools) : np.name = n }

\* Pools that are created are as the spec asks, those removed are not listed, and a
\* listed one is changed only by GKE, in its version, or for the better.
PoolRepairs(n) ==
    /\ pools[n].status = "PROVISIONING" =>
            /\ n \in Listed(spec)
            /\ DOMAIN pools[n].request = {}
            /\ \A np \in AskedPools(n) : PoolLacking(np, pools[n].settings) = {}
    /\ pools[n].status = "STOPPING" => n \notin Listed(spec)
    /\ pools[n].status = "RECONCILING" /\ n \in Listed(spec) =>
            \/ DOMAIN pools[n].request \subseteq {"version"}
            \/ \A np \in AskedPools(n) :
                    PoolLacking(np, Applied(pools[n].request, pools[n].settings))
                        \subseteq PoolLacking(np, pools[n].settings)

\* The pass has yet to look at pool n.
Ahead(n) == pass.at \in {"cluster", "labels"} \/ (pass.at = "pools" /\ n \in pass.todo)

PoolsRepair == \A n \in Present : PoolRepairs(n)

\* What the pass read of the pools ahead holds.
ReadsPools ==
    pass # Idle => \A n \in PoolNames : Ahead(n) =>
        /\ n \in Present => n \in DOMAIN pass.pools
        /\ n \in Listed(spec) /\ n \in DOMAIN pass.pools => AsRead(n)

SteadyInv ==
    /\ pass # Idle => pass.spec = spec
    /\ OperationRepairs
    /\ ~LeavesPoolsAlone(spec) => PoolsRepair /\ ReadsPools

-----------------------------------------------------------------------------
(* Requests bring the cluster closer to the spec *)

\* A request that is about one name.
LEMMA NameRepaired ==
    ASSUME NEW s, NEW c, ClusterFields \subseteq DOMAIN c, NEW name \in Names, NEW request,
           name \notin {"masterAuthorizedNetworks", "otherBlocks"},
           DOMAIN request \subseteq FieldsOf(name),
           name \in Lacking(s, Applied(request, c)) => name \in Lacking(s, c)
    PROVE  Lacking(s, Applied(request, c)) \subseteq Lacking(s, c)
<1> SUFFICES ASSUME NEW other \in Lacking(s, Applied(request, c)), other # name
             PROVE  other \in Lacking(s, c)
  OBVIOUS
<1>1. other \in Names
  BY LackingNames
<1>2. FieldsOf(other) \subseteq ClusterFields /\ FieldsOf(other) \cap FieldsOf(name) = {}
  BY <1>1 DEF Names, FieldsOf, ClusterFields, Addons
<1>3. \A f \in FieldsOf(other) : Applied(request, c)[f] = c[f]
  BY <1>2 DEF Applied
<1>4. QED
  BY <1>3, LackingApart

LEMMA NoRequestRepairs ==
    ASSUME NEW s, NEW c, ClusterFields \subseteq DOMAIN c, NEW request, DOMAIN request = {}
    PROVE  Lacking(s, Applied(request, c)) \subseteq Lacking(s, c)
<1> SUFFICES ASSUME NEW name \in Lacking(s, Applied(request, c)) PROVE name \in Lacking(s, c)
  OBVIOUS
<1>1. name \in Names
  BY LackingNames
<1>2. FieldsOf(name) \subseteq ClusterFields
  BY <1>1 DEF Names, FieldsOf, ClusterFields, Addons
<1>3. \A f \in FieldsOf(name) : Applied(request, c)[f] = c[f]
  BY <1>2 DEF Applied
<1>4. QED
  BY <1>3, LackingApart

\* The names that stand for one field, and no other name for it.
OneField ==
    Names \ {"clusterAddons", "services", "masterAuthorizedNetworks", "otherBlocks"}

\* A request that sets one field to what the spec asks for.
LEMMA FieldRepaired ==
    ASSUME NEW s, NEW c, ClusterFields \subseteq DOMAIN c, NEW value,
           NEW name \in OneField, NEW request,
           DOMAIN request = {name}, request[name] = value,
           \A d : d[name] = value => name \notin Lacking(s, d)
    PROVE  Lacking(s, Applied(request, c)) \subseteq Lacking(s, c)
<1>1. name \in Names /\ name \in DOMAIN c /\ FieldsOf(name) = {name}
  BY DEF OneField, Names, FieldsOf, ClusterFields
<1>2. Applied(request, c)[name] = value
  BY <1>1 DEF Applied
<1>3. QED
  BY <1>1, <1>2, NameRepaired DEF OneField

\* A request for the authorized networks, which two names are about.
LEMMA BlocksRepaired ==
    ASSUME NEW s, NEW c, ClusterFields \subseteq DOMAIN c, NEW value, NEW request,
           DOMAIN request = {"masterAuthorizedNetworks"},
           request["masterAuthorizedNetworks"] = value,
           \A d : d["masterAuthorizedNetworks"] = value =>
                "masterAuthorizedNetworks" \notin Lacking(s, d) /\ "otherBlocks" \notin Lacking(s, d)
    PROVE  Lacking(s, Applied(request, c)) \subseteq Lacking(s, c)
<1> SUFFICES ASSUME NEW other \in Lacking(s, Applied(request, c)) PROVE other \in Lacking(s, c)
  OBVIOUS
<1>1. Applied(request, c)["masterAuthorizedNetworks"] = value
  BY DEF Applied, ClusterFields
<1>2. other \in Names /\ other \notin {"masterAuthorizedNetworks", "otherBlocks"}
  BY <1>1, LackingNames
<1>3. FieldsOf(other) \subseteq ClusterFields \ {"masterAuthorizedNetworks"}
  BY <1>2 DEF Names, FieldsOf, ClusterFields, Addons
<1>4. \A f \in FieldsOf(other) : Applied(request, c)[f] = c[f]
  BY <1>3 DEF Applied
<1>5. QED
  BY <1>4, LackingApart

\* A request that leaves a name with the parts that it does not set to what the
\* spec asks for.
LEMMA AddonsRepaired ==
    ASSUME NEW s \in Revisions, NEW u, NEW c, ClusterFields \subseteq DOMAIN c
    PROVE  Lacking(s, Applied(UpdateClusterAddons(s, u), c)) \subseteq Lacking(s, c)
<1> DEFINE request == UpdateClusterAddons(s, u)
<1>1. CASE s.clusterAddons = Nil
  BY <1>1, NoRequestRepairs DEF UpdateClusterAddons, NoRequest
<1>2. CASE s.clusterAddons # Nil
  <2>1. DOMAIN request \subseteq Addons /\ \A a \in DOMAIN request : request[a] = s.clusterAddons[a]
    BY <1>2 DEF UpdateClusterAddons
  <2> HIDE DEF request
  <2>2. \A a \in Addons : Applied(request, c)[a] = IF a \in DOMAIN request THEN s.clusterAddons[a] ELSE c[a]
    BY <2>1 DEF Applied, ClusterFields
  <2>3. \A a \in Addons : s.clusterAddons[a] \in BOOLEAN
    BY <1>2, SettingsAssumption
  <2>4. "clusterAddons" \in Lacking(s, Applied(request, c)) => "clusterAddons" \in Lacking(s, c)
    <3>1. SUFFICES ASSUME \A a \in Addons : s.clusterAddons[a] <=> c[a] # FALSE,
                          NEW a \in Addons
                   PROVE  s.clusterAddons[a] <=> Applied(request, c)[a] # FALSE
      BY <1>2 DEF Lacking
    <3>2. QED
      BY <2>2, <2>3, <3>1
  <2>5. QED
    BY <2>1, <2>4, NameRepaired DEF Names, FieldsOf, request
<1>3. QED
  BY <1>1, <1>2

LEMMA ServicesRepaired ==
    ASSUME NEW s, NEW u, NEW c, ClusterFields \subseteq DOMAIN c
    PROVE  Lacking(s, Applied(UpdateLoggingMonitoringService(s, u), c)) \subseteq Lacking(s, c)
<1> DEFINE request == UpdateLoggingMonitoringService(s, u)
           services == {"loggingService", "monitoringService"}
<1>1. DOMAIN request \subseteq services /\ \A f \in DOMAIN request : request[f] = ServiceMeant(s[f])
  BY DEF UpdateLoggingMonitoringService
<1> HIDE DEF request
<1>2. \A f \in services :
        Applied(request, c)[f] = IF f \in DOMAIN request THEN ServiceMeant(s[f]) ELSE c[f]
  BY <1>1 DEF Applied, ClusterFields
<1>3. "services" \in Lacking(s, Applied(request, c)) => "services" \in Lacking(s, c)
  <2>1. SUFFICES ASSUME \A f \in services : s[f] # Nil => c[f] = ServiceMeant(s[f]),
                        NEW f \in services, s[f] # Nil
                 PROVE  Applied(request, c)[f] = ServiceMeant(s[f])
    BY DEF Lacking
  <2>2. QED
    BY <1>2, <2>1
<1>4. QED
  BY <1>1, <1>3, NameRepaired DEF Names, FieldsOf, request

LEMMA NetworksRepaired ==
    ASSUME NEW s \in Revisions, ClusterFits, NEW u,
           u.masterAuthorizedNetworks = buildUpstreamClusterState(cluster).masterAuthorizedNetworks
    PROVE  Lacking(s, Applied(UpdateMasterAuthorizedNetworks(s, u), cluster)) \subseteq Lacking(s, cluster)
<1> DEFINE want == s.masterAuthorizedNetworks
           have == u.masterAuthorizedNetworks
           request == UpdateMasterAuthorizedNetworks(s, u)
           switched == [enabled |-> want.enabled, cidrBlocks |-> << >>]
<1>1. \/ request = NoRequest
      \/ want # Nil /\ request = [masterAuthorizedNetworks |-> want]
      \/ /\ want # Nil /\ request = [masterAuthorizedNetworks |-> switched]
         /\ want.enabled => compareCidrBlockPointerSlices(have.cidrBlocks, want.cidrBlocks)
         /\ want.enabled # have.enabled
  BY DEF UpdateMasterAuthorizedNetworks
<1> HIDE DEF request
<1>2. ClusterFields \subseteq DOMAIN cluster
  BY DEF ClusterFits
<1>3. CASE request = NoRequest
  BY <1>2, <1>3, NoRequestRepairs DEF NoRequest, request
<1>4. CASE want # Nil /\ request = [masterAuthorizedNetworks |-> want]
  <2>1. \A d : d.masterAuthorizedNetworks = want =>
                "masterAuthorizedNetworks" \notin Lacking(s, d) /\ "otherBlocks" \notin Lacking(s, d)
    <3>1. SUFFICES ASSUME NEW d, d.masterAuthorizedNetworks = want
                   PROVE  /\ "masterAuthorizedNetworks" \notin Lacking(s, d)
                          /\ "otherBlocks" \notin Lacking(s, d)
      OBVIOUS
    <3>2. "masterAuthorizedNetworks" \notin Lacking(s, d)
      BY <3>1 DEF Lacking
    <3>3. "otherBlocks" \notin Lacking(s, d)
      BY <3>1 DEF Lacking
    <3>4. QED
      BY <3>2, <3>3
  <2>2. QED
    BY <1>2, <1>4, <2>1, BlocksRepaired DEF request
<1>5. CASE /\ want # Nil /\ request = [masterAuthorizedNetworks |-> switched]
           /\ want.enabled => compareCidrBlockPointerSlices(have.cidrBlocks, want.cidrBlocks)
           /\ want.enabled # have.enabled
  <2>1. want.enabled \in BOOLEAN /\ want.cidrBlocks \in Seq(Range(want.cidrBlocks))
    BY <1>5, SettingsAssumption DEF Fits
  <2>2. ASSUME want.enabled PROVE want.cidrBlocks = << >>
    <3>1. ~cluster.masterAuthorizedNetworks.enabled
      <4>1. cluster.masterAuthorizedNetworks.enabled \in BOOLEAN
        BY DEF ClusterFits, ClusterFields, Fits
      <4>2. cluster.masterAuthorizedNetworks.enabled => have = cluster.masterAuthorizedNetworks
        BY DEF buildUpstreamClusterState
      <4>3. QED
        BY <1>5, <2>1, <2>2, <4>1, <4>2
    <3>2. have = [enabled |-> FALSE, cidrBlocks |-> << >>]
      BY <3>1 DEF buildUpstreamClusterState
    <3>3. Len(want.cidrBlocks) = 0
      BY <1>5, <2>2, <3>2 DEF compareCidrBlockPointerSlices
    <3>4. QED
      BY <2>1, <3>3
  <2>3. \A d : d.masterAuthorizedNetworks = switched =>
                "masterAuthorizedNetworks" \notin Lacking(s, d) /\ "otherBlocks" \notin Lacking(s, d)
    <3>1. SUFFICES ASSUME NEW d, d.masterAuthorizedNetworks = switched
                   PROVE  /\ "masterAuthorizedNetworks" \notin Lacking(s, d)
                          /\ "otherBlocks" \notin Lacking(s, d)
      OBVIOUS
    <3>2. d.masterAuthorizedNetworks.enabled = want.enabled /\ d.masterAuthorizedNetworks.cidrBlocks = << >>
      BY <3>1
    <3>3. "masterAuthorizedNetworks" \notin Lacking(s, d)
      BY <2>1, <2>2, <3>2 DEF Lacking
    <3>4. ASSUME want.enabled PROVE Range(d.masterAuthorizedNetworks.cidrBlocks) = Range(want.cidrBlocks)
      BY <2>2, <3>2, <3>4
    <3>5. "otherBlocks" \notin Lacking(s, d)
      BY <3>4 DEF Lacking
    <3>6. QED
      BY <3>3, <3>5
  <2> HIDE DEF switched
  <2>4. DOMAIN request = {"masterAuthorizedNetworks"} /\ request["masterAuthorizedNetworks"] = switched
    BY <1>5
  <2>5. QED
    BY <1>2, <2>3, <2>4, BlocksRepaired DEF request
<1>6. QED
  BY <1>1, <1>3, <1>4, <1>5

LEMMA LocationsRepaired ==
    ASSUME NEW s, ClusterFits, NEW u, u.locations = cluster.locations
    PROVE  Lacking(s, Applied(UpdateLocations(s, u), cluster)) \subseteq Lacking(s, cluster)
<1> DEFINE request == UpdateLocations(s, u)
<1>1. \/ request = NoRequest
      \/ s.locations = << >> /\ request = [locations |-> cluster.locations]
      \/ s.locations # << >> /\ request = [locations |-> Range(s.locations)]
  BY DEF UpdateLocations
<1> HIDE DEF request
<1>2. ClusterFields \subseteq DOMAIN cluster
  BY DEF ClusterFits
<1>3. CASE request = NoRequest
  BY <1>2, <1>3, NoRequestRepairs DEF NoRequest, request
<1>4. CASE request = [locations |-> cluster.locations]
  <2>1. Applied(request, cluster).locations = cluster.locations
    BY <1>2, <1>4 DEF Applied, ClusterFields
  <2>2. "locations" \in Lacking(s, Applied(request, cluster)) => "locations" \in Lacking(s, cluster)
    BY <2>1 DEF Lacking
  <2>3. QED
    BY <1>2, <1>4, <2>2, NameRepaired DEF Names, FieldsOf, request
<1>5. CASE s.locations # << >> /\ request = [locations |-> Range(s.locations)]
  <2>1. \A d : d.locations = Range(s.locations) => "locations" \notin Lacking(s, d)
    BY <1>5 DEF Lacking
  <2>2. QED
    BY <1>2, <1>5, <2>1, FieldRepaired DEF Names, OneField, request
<1>6. QED
  BY <1>1, <1>3, <1>4, <1>5

\* Whichever of the nine update functions a pass comes to, its request brings the
\* cluster no further from the spec: done, it leaves nothing lacking that was not.
THEOREM UpdatesRepair ==
    ASSUME NEW s \in Revisions, ClusterFits, NEW u,
           \A f \in ReadFields : u[f] = buildUpstreamClusterState(cluster)[f],
           NEW i \in 1 .. 9
    PROVE  Lacking(s, Applied(Updates(s, u)[i], cluster)) \subseteq Lacking(s, cluster)
<1> DEFINE Repairs(request) == Lacking(s, Applied(request, cluster)) \subseteq Lacking(s, cluster)
<1>1. ClusterFields \subseteq DOMAIN cluster
  BY DEF ClusterFits
<1>2. ASSUME NEW name \in OneField, NEW value, NEW request,
             request = NoRequest \/ (DOMAIN request = {name} /\ request[name] = value),
             \A d : d[name] = value => name \notin Lacking(s, d)
      PROVE  Repairs(request)
  <2>1. CASE request = NoRequest
    BY <1>1, <2>1, NoRequestRepairs DEF NoRequest
  <2>2. CASE DOMAIN request = {name} /\ request[name] = value
    BY <1>1, <1>2, <2>2, FieldRepaired
  <2>3. QED
    BY <1>2, <2>1, <2>2
<1>3. Repairs(UpdateMasterKubernetesVersion(s, u))
  <2>1. \A d : d["kubernetesVersion"] = s.kubernetesVersion => "kubernetesVersion" \notin Lacking(s, d)
    BY DEF Lacking
  <2>2. QED
    BY <1>2, <2>1 DEF UpdateMasterKubernetesVersion, Names, OneField
<1>4. Repairs(UpdateReleaseChannel(s, u))
  <2>1. s.releaseChannel \in SpecChannels =>
            gkeReleaseChannel(s.releaseChannel) = specToGKEReleaseChannel[s.releaseChannel]
    <3>1. SpecChannels = {"Rapid", "Regular", "Stable", "Extended"}
      BY DEF SpecChannels, specToGKEReleaseChannel
    <3>2. SpecChannels \cap Unrequested = {}
      BY <3>1, SettingsAssumption DEF Unrequested
    <3>3. \A c \in SpecChannels : specToGKEReleaseChannel[c] # InvalidChannel
      <4>1. \A c \in SpecChannels : specToGKEReleaseChannel[c] \in {"RAPID", "REGULAR", "STABLE", "EXTENDED"}
        BY <3>1 DEF specToGKEReleaseChannel
      <4>2. QED
        BY <4>1 DEF InvalidChannel
    <3>4. QED
      BY <3>2, <3>3 DEF gkeReleaseChannel, validateAndMapReleaseChannel
  <2>2. \A d : d["releaseChannel"] = gkeReleaseChannel(s.releaseChannel) =>
                  "releaseChannel" \notin Lacking(s, d)
    BY <2>1 DEF Lacking
  <2>3. QED
    BY <1>2, <2>2 DEF UpdateReleaseChannel, Names, OneField
<1>5. Repairs(UpdateNetworkPolicyEnabled(s, u))
  <2>1. \A d : d["networkPolicyEnabled"] = s.networkPolicyEnabled =>
                  "networkPolicyEnabled" \notin Lacking(s, d)
    BY DEF Lacking
  <2>2. QED
    BY <1>2, <2>1 DEF UpdateNetworkPolicyEnabled, Names, OneField
<1>6. Repairs(UpdateMaintenanceWindow(s, u))
  <2>1. \A d : d["maintenanceWindow"] = s.maintenanceWindow => "maintenanceWindow" \notin Lacking(s, d)
    BY DEF Lacking
  <2>2. QED
    BY <1>2, <2>1 DEF UpdateMaintenanceWindow, Names, OneField
<1>7. Repairs(UpdateLabels(s, u))
  <2>1. \A d : d["labels"] = s.labels => "labels" \notin Lacking(s, d)
    BY DEF Lacking
  <2>2. QED
    BY <1>2, <2>1 DEF UpdateLabels, Names, OneField
<1>8. /\ u.masterAuthorizedNetworks = buildUpstreamClusterState(cluster).masterAuthorizedNetworks
      /\ u.locations = cluster.locations
  BY DEF ReadFields, buildUpstreamClusterState
<1>9. /\ Repairs(UpdateClusterAddons(s, u))
      /\ Repairs(UpdateMasterAuthorizedNetworks(s, u))
      /\ Repairs(UpdateLoggingMonitoringService(s, u))
      /\ Repairs(UpdateLocations(s, u))
  BY <1>1, <1>8, AddonsRepaired, NetworksRepaired, ServicesRepaired, LocationsRepaired
<1> HIDE DEF Repairs
<1>10. Repairs(Updates(s, u)[i])
  BY <1>3, <1>4, <1>5, <1>6, <1>7, <1>9, UpdatesAre
<1>11. QED
  BY <1>10 DEF Repairs

-----------------------------------------------------------------------------
(* Requests bring a pool closer to the spec *)

\* When the request of the first of the five update functions that changes something
\* is done, the pool lacks nothing of the spec that it did not lack before: every
\* field in the request was lacking, or is as the spec asks then.
THEOREM PoolRequestRepairs ==
    ASSUME NEW np, NEW u, NEW settings, DOMAIN settings = PoolFields, SameButVersion(u, settings),
           DOMAIN FirstPoolUpdate(np, u) # {}
    PROVE  PoolLacking(np, Applied(FirstPoolUpdate(np, u), settings)) \subseteq PoolLacking(np, settings)
<1> DEFINE request == FirstPoolUpdate(np, u)
           done == Applied(request, settings)
           AsAsked(r, f) == \A v : v[f] = r[f] => f \notin PoolLacking(np, v)
           Repairs(r) == \A f \in DOMAIN r : f \in PoolLacking(np, settings) \/ AsAsked(r, f)
<1>1. Repairs(UpdateNodePoolKubernetesVersionOrImageType(np, u))
  <2> DEFINE r == UpdateNodePoolKubernetesVersionOrImageType(np, u)
  <2>1. /\ DOMAIN r \subseteq {"version", "imageType"}
        /\ "version" \in DOMAIN r => r["version"] = np.version
        /\ "imageType" \in DOMAIN r => r["imageType"] = np.config.imageType
    BY DEF UpdateNodePoolKubernetesVersionOrImageType, NoRequest
  <2> HIDE DEF r
  <2>2. "version" \in DOMAIN r => AsAsked(r, "version")
    BY <2>1 DEF PoolLacking
  <2>3. "imageType" \in DOMAIN r => AsAsked(r, "imageType")
    BY <2>1 DEF PoolLacking
  <2> HIDE DEF AsAsked
  <2>4. QED
    BY <2>1, <2>2, <2>3 DEF r
<1>2. Repairs(UpdateNodePoolSize(np, u))
  <2> DEFINE r == UpdateNodePoolSize(np, u)
  <2>1. DOMAIN r \subseteq {"initialNodeCount"} /\ ("initialNodeCount" \in DOMAIN r => r["initialNodeCount"] = np.initialNodeCount)
    BY DEF UpdateNodePoolSize, NoRequest
  <2> HIDE DEF r
  <2>2. "initialNodeCount" \in DOMAIN r => AsAsked(r, "initialNodeCount")
    BY <2>1 DEF PoolLacking
  <2> HIDE DEF AsAsked
  <2>3. QED
    BY <2>1, <2>2 DEF r
<1>3. Repairs(UpdateNodePoolAutoscaling(np, u))
  <2> DEFINE r == UpdateNodePoolAutoscaling(np, u)
  <2>1. /\ DOMAIN r \subseteq {"autoscaling"}
        /\ "autoscaling" \in DOMAIN r =>
               /\ np.autoscaling # Nil /\ np.autoscaling # Autoscaling(u)
               /\ np.autoscaling.enabled \/ Autoscaling(u).enabled
    BY DEF UpdateNodePoolAutoscaling, NoRequest
  <2>2. settings.autoscaling = u.autoscaling /\ Autoscaling(settings) = Autoscaling(u)
    BY DEF SameButVersion, PoolFields, Autoscaling
  <2> HIDE DEF r
  <2>3. ASSUME "autoscaling" \in DOMAIN r PROVE "autoscaling" \in PoolLacking(np, settings)
    <3>1. settings.autoscaling # np.autoscaling
      BY <2>1, <2>2, <2>3 DEF Autoscaling
    <3>2. QED
      BY <2>1, <2>2, <2>3, <3>1 DEF PoolLacking
  <2> HIDE DEF AsAsked
  <2>4. QED
    BY <2>1, <2>3 DEF r
<1>4. Repairs(UpdateNodePoolManagement(np, u))
  <2> DEFINE r == UpdateNodePoolManagement(np, u)
  <2>1. /\ DOMAIN r \subseteq {"management"}
        /\ "management" \in DOMAIN r => np.management # Nil /\ np.management # u.management
    BY DEF UpdateNodePoolManagement, NoRequest
  <2>2. settings.management = u.management
    BY DEF SameButVersion, PoolFields
  <2> HIDE DEF r
  <2>3. "management" \in DOMAIN r => "management" \in PoolLacking(np, settings)
    BY <2>1, <2>2 DEF PoolLacking
  <2> HIDE DEF AsAsked
  <2>4. QED
    BY <2>1, <2>3 DEF r
<1>5. Repairs(UpdateNodePoolConfig(np, u))
  <2> DEFINE r == UpdateNodePoolConfig(np, u)
  <2>1. DOMAIN r \subseteq {"labels"} /\ ("labels" \in DOMAIN r => r["labels"] = LabelsAsked(np))
    BY DEF UpdateNodePoolConfig, NoRequest
  <2> HIDE DEF r
  <2>2. "labels" \in DOMAIN r => AsAsked(r, "labels")
    BY <2>1 DEF PoolLacking
  <2> HIDE DEF AsAsked
  <2>3. QED
    BY <2>1, <2>2 DEF r
<1>6. Repairs(request)
  <2> HIDE DEF Repairs, request
  <2>1. PICK i \in 1 .. 5 : request = PoolUpdates(np, u)[i]
    BY FirstOfPoolUpdates DEF request, NoRequest
  <2>2. Repairs(PoolUpdates(np, u)[i])
    BY <1>1, <1>2, <1>3, <1>4, <1>5, PoolUpdatesAre
  <2>3. QED
    BY <2>1, <2>2
<1> HIDE DEF request, Repairs
<1>7. ASSUME NEW f \in PoolLacking(np, done) PROVE f \in PoolLacking(np, settings)
  <2>1. done[f] = IF f \in DOMAIN request THEN request[f] ELSE settings[f]
    BY PoolLackingFields DEF Applied
  <2> HIDE DEF done
  <2>2. CASE f \in DOMAIN request
    BY <1>6, <1>7, <2>1, <2>2 DEF Repairs
  <2>3. CASE f \notin DOMAIN request
    BY <2>1, <2>3, PoolLackingApart
  <2>4. QED
    BY <2>2, <2>3
<1>8. QED
  BY <1>7 DEF request

\* A pool is created as the spec asks.
LEMMA CreatedAsAsked ==
    ASSUME NEW np
    PROVE  PoolLacking(np, Completed(newGKENodePoolFromConfig(np))) = {}
<1> DEFINE settings == Completed(newGKENodePoolFromConfig(np))
<1>1. /\ settings.version = IF np.version = "" THEN cluster.kubernetesVersion ELSE np.version
      /\ settings.imageType = np.config.imageType
      /\ settings.labels = IF np.config.labels = Nil THEN {} ELSE np.config.labels
      /\ settings.initialNodeCount = np.initialNodeCount
      /\ settings.autoscaling = np.autoscaling
      /\ settings.management = np.management
  BY DEF Completed, newGKENodePoolFromConfig
<1> HIDE DEF settings
<1>2. "version" \notin PoolLacking(np, settings)
  BY <1>1 DEF PoolLacking, Given
<1>3. "imageType" \notin PoolLacking(np, settings)
  BY <1>1 DEF PoolLacking
<1>4. "labels" \notin PoolLacking(np, settings)
  BY <1>1 DEF PoolLacking, LabelsAsked
<1>5. "initialNodeCount" \notin PoolLacking(np, settings)
  BY <1>1 DEF PoolLacking
<1>6. "autoscaling" \notin PoolLacking(np, settings)
  BY <1>1 DEF PoolLacking
<1>7. "management" \notin PoolLacking(np, settings)
  BY <1>1 DEF PoolLacking
<1>8. QED
  BY <1>2, <1>3, <1>4, <1>5, <1>6, <1>7, PoolLackingFields DEF PoolFields, settings

-----------------------------------------------------------------------------
(* A spec that stays: every step *)

\* A pass that ends, or that has no more pools ahead than before.
PassKept ==
    \/ pass' = Idle
    \/ /\ pass # Idle
       /\ pass'.spec = pass.spec
       /\ pass'.pools = pass.pools
       /\ \A m \in PoolNames : Ahead(m)' => Ahead(m)

LEMMA KeepsPass ==
    ASSUME Inv, NEW asked, NEW n,
           \/ Fails \/ Waits \/ Settles
           \/ pass # Idle /\ Panics
           \/ At("pools") /\ Passes(n, asked)
           \/ At("cluster") /\ LooksAtPools
    PROVE  PassKept
<1>1. CASE Fails \/ Waits \/ Settles
  BY <1>1 DEF Fails, Waits, Settles, PassKept
<1>2. CASE pass # Idle /\ Panics
  BY <1>2 DEF Panics, GoesTo, PassKept, PassInv, Inv, Ahead
<1>3. CASE At("pools") /\ Passes(n, asked)
  BY <1>3 DEF At, Passes, PassKept, PassInv, Inv, Ahead
<1>4. CASE At("cluster") /\ LooksAtPools
  BY <1>1, <1>4 DEF LooksAtPools, At, PassKept, PassInv, Inv, Ahead
<1>5. QED
  BY <1>1, <1>2, <1>3, <1>4

LEMMA SteadyKept ==
    ASSUME SteadyInv, UNCHANGED spec, PassKept, OperationRepairs',
           ~LeavesPoolsAlone(spec) => PoolsRepair',
           ~LeavesPoolsAlone(spec) /\ pass' # Idle => \A m \in PoolNames : Ahead(m)' =>
                /\ m \in Present' => m \in Present
                /\ m \in Listed(spec) /\ AsRead(m) =>
                        Serves(m)' /\ SameButVersion(pools[m].settings, pools'[m].settings)
    PROVE  SteadyInv'
<1>1. pass' # Idle => pass'.spec = spec'
  BY DEF SteadyInv, PassKept
<1>2. ASSUME ~LeavesPoolsAlone(spec), pass' # Idle PROVE ReadsPools'
  <2>1. SUFFICES ASSUME NEW m \in PoolNames, Ahead(m)'
                 PROVE  /\ m \in Present' => m \in DOMAIN pass'.pools
                        /\ m \in Listed(spec) /\ m \in DOMAIN pass'.pools => AsRead(m)'
    BY DEF ReadsPools
  <2>2. pass # Idle /\ pass'.pools = pass.pools /\ Ahead(m)
    BY <1>2, <2>1 DEF PassKept
  <2>3. /\ m \in Present => m \in DOMAIN pass.pools
        /\ m \in Listed(spec) /\ m \in DOMAIN pass.pools => AsRead(m)
    BY <1>2, <2>2 DEF SteadyInv, ReadsPools
  <2>4. /\ m \in Present' => m \in Present
        /\ m \in Listed(spec) /\ AsRead(m) =>
                Serves(m)' /\ SameButVersion(pools[m].settings, pools'[m].settings)
    BY <1>2, <2>1
  <2>5. QED
    BY <2>2, <2>3, <2>4 DEF AsRead, SameButVersion
<1>3. pass' = Idle => ReadsPools'
  BY DEF ReadsPools
<1>4. QED
  BY <1>1, <1>2, <1>3 DEF SteadyInv

\* A step of a pass or of its worker that asks for nothing.
LEMMA SteadyNoCall ==
    ASSUME SteadyInv, PassKept, UNCHANGED << spec, gkeVars >>
    PROVE  SteadyInv'
<1>1. OperationRepairs'
  BY DEF SteadyInv, OperationRepairs, gkeVars
<1>2. ~LeavesPoolsAlone(spec) => PoolsRepair'
  BY DEF SteadyInv, PoolsRepair, PoolRepairs, AskedPools, Present, gkeVars
<1>3. \A m : AsRead(m) => Serves(m)' /\ SameButVersion(pools[m].settings, pools'[m].settings)
  BY DEF AsRead, Serves, Present, SameButVersion, gkeVars
<1>4. QED
  BY <1>1, <1>2, <1>3, SteadyKept DEF Present, gkeVars

\* A step that does something to the cluster only.
LEMMA SteadyCluster ==
    ASSUME SteadyInv, PassKept, UNCHANGED << spec, pools >>, OperationRepairs'
    PROVE  SteadyInv'
<1>1. ~LeavesPoolsAlone(spec) => PoolsRepair'
  BY DEF SteadyInv, PoolsRepair, PoolRepairs, AskedPools, Present
<1>2. \A m : AsRead(m) => Serves(m)' /\ SameButVersion(pools[m].settings, pools'[m].settings)
  BY DEF AsRead, Serves, Present, SameButVersion
<1>3. QED
  BY <1>1, <1>2, SteadyKept DEF Present

\* A step that does something to pool n, which the pass either has behind it or
\* still finds as it read it.
LEMMA SteadyPool ==
    ASSUME Inv, SteadyInv, PassKept, UNCHANGED << spec, cluster, operation >>,
           NEW n \in PoolNames, NEW after, pools' = [pools EXCEPT ![n] = after],
           ~LeavesPoolsAlone(spec) /\ n \in Present' => PoolRepairs(n)',
           ~LeavesPoolsAlone(spec) /\ pass' # Idle /\ Ahead(n)' =>
                /\ n \in Present
                /\ n \in Listed(spec) /\ Serves(n) =>
                        Serves(n)' /\ SameButVersion(pools[n].settings, pools'[n].settings)
    PROVE  SteadyInv'
<1>1. OperationRepairs'
  BY DEF SteadyInv, OperationRepairs
<1>2. \A m \in PoolNames \ {n} : pools'[m] = pools[m]
  BY DEF Inv
<1>3. \A m \in PoolNames \ {n} : (m \in Present' <=> m \in Present) /\ (Serves(m)' <=> Serves(m))
  BY <1>2 DEF Present, Serves
<1>4. ~LeavesPoolsAlone(spec) => PoolsRepair'
  <2>1. ASSUME ~LeavesPoolsAlone(spec), NEW m \in Present', m # n PROVE PoolRepairs(m)'
    <3>1. m \in Present /\ pools'[m] = pools[m]
      BY <1>2, <1>3, <2>1 DEF Present
    <3>2. PoolRepairs(m)
      BY <2>1, <3>1 DEF SteadyInv, PoolsRepair
    <3>3. QED
      BY <3>1, <3>2 DEF PoolRepairs, AskedPools
  <2>2. QED
    BY <2>1 DEF PoolsRepair
<1>5. ASSUME ~LeavesPoolsAlone(spec), pass' # Idle, NEW m \in PoolNames, Ahead(m)'
      PROVE  /\ m \in Present' => m \in Present
             /\ m \in Listed(spec) /\ AsRead(m) =>
                    Serves(m)' /\ SameButVersion(pools[m].settings, pools'[m].settings)
  <2>1. CASE m = n
    BY <1>5, <2>1 DEF AsRead
  <2>2. CASE m # n
    BY <1>2, <1>3, <1>5, <2>2 DEF AsRead, SameButVersion
  <2>3. QED
    BY <2>1, <2>2
<1>6. QED
  BY <1>1, <1>4, <1>5, SteadyKept

LEMMA SteadyInit == Init => SteadyInv
<1> SUFFICES ASSUME Init PROVE SteadyInv
  OBVIOUS
<1>1. PICK first \in FirstPools :
        pools = [n \in PoolNames |-> IF n \in DOMAIN first THEN Running(first[n]) ELSE Absent]
  BY DEF Init
<1>2. \A n \in Present : PoolRepairs(n)
  BY <1>1 DEF Present, PoolRepairs, Running, Pool
<1>3. QED
  BY <1>2 DEF Init, SteadyInv, OperationRepairs, PoolsRepair, ReadsPools, NoOperation

LEMMA SteadyCheckUpdates == Inv /\ Typed /\ SteadyInv /\ CheckUpdates => SteadyInv'
<1> SUFFICES ASSUME Inv, Typed, SteadyInv, CheckUpdates PROVE SteadyInv'
  OBVIOUS
<1>1. /\ pass'.spec = spec /\ pass'.pools = UpstreamPools
      /\ UNCHANGED << spec, cluster, operation, pools >>
  BY DEF CheckUpdates, gkeVars
<1>2. \A n \in Present : pools[n].status = "RUNNING"
  BY DEF CheckUpdates, Busy, Typed, PoolTyped
<1>3. UpstreamPools = [n \in Present |-> pools[n].settings]
  BY <1>2 DEF UpstreamPools
<1>4. \A n \in Present : AsRead(n)'
  BY <1>1, <1>2, <1>3 DEF AsRead, Serves, Present, SameButVersion
<1>5. ReadsPools'
  BY <1>1, <1>3, <1>4 DEF ReadsPools, Present
<1>6. OperationRepairs' /\ (~LeavesPoolsAlone(spec) => PoolsRepair')
  BY <1>1 DEF SteadyInv, OperationRepairs, PoolsRepair, PoolRepairs, AskedPools, Present
<1>7. QED
  BY <1>1, <1>5, <1>6 DEF SteadyInv

\* What the pass asks of the cluster.
LEMMA SteadyCall ==
    ASSUME Inv, RequestInv, SteadyInv, UNCHANGED << spec, cluster, pools >>, pass # Idle,
           NEW i \in 1 .. 9, CallsCluster(Updates(pass.spec, pass.upstream)[i])
    PROVE  SteadyInv'
<1> DEFINE request == Updates(pass.spec, pass.upstream)[i]
<1>1. PassKept
  BY DEF CallsCluster, Waits, Fails, PassKept
<1>2. Lacking(spec, Applied(request, cluster)) \subseteq Lacking(spec, cluster)
  BY UpdatesRepair DEF SteadyInv, RequestInv, ReadInv, Inv
<1> HIDE DEF request
<1>3. UNCHANGED operation \/ operation' = [by |-> "operator", request |-> request]
  BY DEF CallsCluster, request
<1>4. OperationRepairs'
  BY <1>2, <1>3 DEF SteadyInv, OperationRepairs
<1>5. QED
  BY <1>1, <1>4, SteadyCluster

LEMMA SteadyUpdateCluster == Inv /\ RequestInv /\ SteadyInv /\ UpdateCluster /\ UNCHANGED spec => SteadyInv'
<1> SUFFICES ASSUME Inv, RequestInv, SteadyInv, UpdateCluster PROVE SteadyInv'
  OBVIOUS
<1>1. At("cluster") /\ pass # Idle /\ PassInv /\ UNCHANGED << spec, cluster, pools >>
  BY DEF UpdateCluster, At, Inv
<1>2. CASE (Panics \/ Fails \/ LooksAtPools) /\ UNCHANGED operation
  <2>1. PassKept
    BY <1>1, <1>2, KeepsPass
  <2>2. QED
    BY <1>1, <1>2, <2>1, SteadyNoCall DEF gkeVars
<1>3. CASE /\ pass' = [pass EXCEPT !.at = "labels", !.fingerprint = cluster.labels]
           /\ UNCHANGED << phase, due, operation >>
  <2>1. PassKept
    BY <1>1, <1>3 DEF PassKept, PassInv, Ahead, At
  <2>2. QED
    BY <1>1, <1>3, <2>1, SteadyNoCall DEF gkeVars
<1>4. CASE Turn # 0 /\ CallsCluster(Updates(pass.spec, pass.upstream)[Turn])
  <2>1. Turn \in 1 .. 9
    BY <1>4, FirstOfUpdates DEF Turn
  <2>2. QED
    BY <1>1, <1>4, <2>1, SteadyCall
<1>5. QED
  BY <1>2, <1>3, <1>4 DEF UpdateCluster

LEMMA SteadySetLabels == Inv /\ RequestInv /\ SteadyInv /\ SetLabels => SteadyInv'
<1> SUFFICES ASSUME Inv, RequestInv, SteadyInv, SetLabels PROVE SteadyInv'
  OBVIOUS
<1>1. pass # Idle /\ UNCHANGED << spec, cluster, pools >>
  BY DEF SetLabels, At
<1>2. CASE Waits /\ UNCHANGED operation
  <2>1. PassKept
    BY <1>2, KeepsPass
  <2>2. QED
    BY <1>1, <1>2, <2>1, SteadyNoCall DEF gkeVars
<1>3. CASE CallsCluster(UpdateLabels(pass.spec, pass.upstream))
  <2>1. CallsCluster(Updates(pass.spec, pass.upstream)[9])
    BY <1>3, UpdatesAre
  <2>2. QED
    BY <1>1, <2>1, SteadyCall
<1>4. QED
  BY <1>2, <1>3 DEF SetLabels

\* Of a pool that the spec of the pass asks for, the pass has all there is.
LEMMA PassAsks ==
    ASSUME Inv, SteadyInv, NEW n \in PoolNames, Visits(n)
    PROVE  /\ ~LeavesPoolsAlone(spec)
           /\ n \in DOMAIN Downstream <=> n \in Listed(spec)
           /\ n \in DOMAIN Downstream => \A np \in AskedPools(n) : Downstream[n] = np
<1>1. /\ PassInv /\ pass.at = "pools" /\ pass.spec = spec /\ spec \in Revisions
      /\ ~LeavesPoolsAlone(spec) /\ ~Duplicates(spec.nodePools)
  BY DEF Inv, PassInv, Visits, At, SteadyInv
<1>2. n \in DOMAIN Downstream <=> n \in Listed(spec)
  BY <1>1, ListedInMap DEF Downstream
<1>3. ASSUME n \in DOMAIN Downstream, NEW np \in AskedPools(n) PROVE Downstream[n] = np
  <2>1. np \in Range(spec.nodePools) /\ np.name = n /\ n # Nil
    BY <1>2, <1>3 DEF AskedPools, Listed
  <2>2. QED
    BY <1>1, <2>1, AskedOnce DEF Downstream
<1>4. QED
  BY <1>1, <1>2, <1>3

\* What a visit asks of pool n, if it goes through.
LEMMA SteadyAskOfPool ==
    ASSUME Inv, SteadyInv, NEW n \in PoolNames, Visits(n), NEW after, AskOfPool(n, after),
           Free(n) /\ pools'[n] = after => PoolRepairs(n)'
    PROVE  SteadyInv'
<1>1. UNCHANGED << spec, cluster, operation >> /\ At("pools") /\ PassInv
  BY DEF Visits, At, Inv
<1>2. PassKept
  BY <1>1, KeepsPass DEF AskOfPool
<1>3. CASE ~Free(n)
  BY <1>1, <1>2, <1>3, SteadyNoCall DEF AskOfPool, gkeVars
<1>4. CASE Free(n)
  <2>1. pools' = [pools EXCEPT ![n] = after] /\ pools'[n] = after
    BY <1>4 DEF AskOfPool, Inv
  <2>2. pass' # Idle => ~Ahead(n)'
    BY <1>1 DEF AskOfPool, Passes, At, PassInv, Ahead
  <2>3. QED
    BY <1>1, <1>2, <1>4, <2>1, <2>2, SteadyPool
<1>5. QED
  BY <1>3, <1>4

LEMMA SteadyNoChange ==
    ASSUME Inv, SteadyInv, NEW n \in PoolNames, Visits(n), NEW asked, UNCHANGED pools,
           Panics \/ Fails \/ Passes(n, asked)
    PROVE  SteadyInv'
<1>1. UNCHANGED << spec, gkeVars >> /\ At("pools") /\ pass # Idle
  BY DEF Visits, At, gkeVars
<1>2. PassKept
  BY <1>1, KeepsPass
<1>3. QED
  BY <1>1, <1>2, SteadyNoCall

LEMMA SteadyUpdatePool ==
    ASSUME Inv, Typed, SteadyInv, NEW n \in PoolNames, UpdatePool(n)
    PROVE  SteadyInv'
<1>1. Visits(n) /\ n \in DOMAIN Downstream /\ n \in DOMAIN pass.pools
  BY DEF UpdatePool
<1>2. CASE (Panics \/ Fails \/ Passes(n, FALSE)) /\ UNCHANGED pools
  BY <1>1, <1>2, SteadyNoChange
<1>3. CASE /\ DOMAIN PoolRequest(n) # {} /\ n \in Present
           /\ AskOfPool(n, Pool("RECONCILING", pools[n].settings, PoolRequest(n)))
  <2> DEFINE after == Pool("RECONCILING", pools[n].settings, PoolRequest(n))
  <2>1. ASSUME pools'[n] = after PROVE PoolRepairs(n)'
    <3>1. ~LeavesPoolsAlone(spec) /\ n \in Listed(spec) /\ \A np \in AskedPools(n) : Downstream[n] = np
      BY <1>1, PassAsks
    <3>2. SameButVersion(pass.pools[n], pools[n].settings)
      BY <1>1, <3>1 DEF SteadyInv, ReadsPools, Visits, At, Ahead, AsRead
    <3>3. DOMAIN pools[n].settings = PoolFields
      BY <1>3 DEF Typed, PoolTyped
    <3>4. PoolLacking(Downstream[n], Applied(PoolRequest(n), pools[n].settings))
            \subseteq PoolLacking(Downstream[n], pools[n].settings)
      BY <1>3, <3>2, <3>3, PoolRequestRepairs DEF PoolRequest
    <3>5. /\ pools'[n].status = "RECONCILING" /\ pools'[n].request = PoolRequest(n)
          /\ pools'[n].settings = pools[n].settings
      BY <2>1 DEF Pool
    <3>6. \A np \in AskedPools(n)' : Downstream[n] = np
      BY <1>1, <3>1 DEF AskedPools, Visits
    <3>7. QED
      BY <3>4, <3>5, <3>6 DEF PoolRepairs
  <2> HIDE DEF after
  <2>2. QED
    BY <1>1, <1>3, <2>1, SteadyAskOfPool DEF after
<1>4. QED
  BY <1>2, <1>3 DEF UpdatePool

LEMMA SteadyCreatePool ==
    ASSUME Inv, SteadyInv, NEW n \in PoolNames, CreatePool(n)
    PROVE  SteadyInv'
<1>1. Visits(n) /\ n \in DOMAIN Downstream
  BY DEF CreatePool
<1>2. CASE Fails /\ UNCHANGED pools
  BY <1>1, <1>2, SteadyNoChange
<1>3. CASE AskOfPool(n, Pool("PROVISIONING", Completed(newGKENodePoolFromConfig(Downstream[n])), NoRequest))
  <2> DEFINE settings == Completed(newGKENodePoolFromConfig(Downstream[n]))
  <2>1. PoolLacking(Downstream[n], settings) = {}
    BY CreatedAsAsked
  <2> HIDE DEF settings
  <2>2. ASSUME pools'[n] = Pool("PROVISIONING", settings, NoRequest) PROVE PoolRepairs(n)'
    <3>1. n \in Listed(spec)' /\ \A np \in AskedPools(n)' : Downstream[n] = np
      BY <1>1, PassAsks DEF AskedPools, Visits
    <3>2. /\ pools'[n].status = "PROVISIONING" /\ DOMAIN pools'[n].request = {}
          /\ pools'[n].settings = settings
      BY <2>2 DEF Pool, NoRequest
    <3>3. QED
      BY <2>1, <3>1, <3>2 DEF PoolRepairs
  <2>3. QED
    BY <1>1, <1>3, <2>2, SteadyAskOfPool DEF settings
<1>4. QED
  BY <1>2, <1>3 DEF CreatePool

LEMMA SteadyRemovePool ==
    ASSUME Inv, SteadyInv, NEW n \in PoolNames, RemovePool(n)
    PROVE  SteadyInv'
<1>1. Visits(n) /\ n \notin DOMAIN Downstream
  BY DEF RemovePool
<1>2. CASE Passes(n, FALSE) /\ UNCHANGED pools
  BY <1>1, <1>2, SteadyNoChange
<1>3. CASE AskOfPool(n, Pool("STOPPING", pools[n].settings, NoRequest))
  <2>1. n \notin Listed(spec)'
    BY <1>1, PassAsks DEF Visits
  <2>2. pools'[n] = Pool("STOPPING", pools[n].settings, NoRequest) => PoolRepairs(n)'
    BY <2>1 DEF PoolRepairs, Pool
  <2>3. QED
    BY <1>1, <1>3, <2>2, SteadyAskOfPool
<1>4. QED
  BY <1>2, <1>3 DEF RemovePool

\* What GKE and other clients do to pool n.
LEMMA SteadyPoolGoesOn ==
    ASSUME Inv, Typed, SteadyInv, NEW n \in PoolNames,
           PoolDone(n) \/ PoolFails(n) \/ PoolAutoUpgrade(n) \/ OthersRemove(n)
    PROVE  SteadyInv'
<1>1. PICK after :
        /\ n \in Present
        /\ UNCHANGED << spec, cluster, operation, pass >>
        /\ pools' = [pools EXCEPT ![n] = after]
  BY DEF PoolDone, PoolFails, PoolEnds, PoolAutoUpgrade, OthersRemove, configVars
<1>2. PassKept
  BY <1>1 DEF PassKept, Ahead
<1>3. pools'[n] = after
  BY <1>1 DEF Inv
<1>4. ASSUME n \in Present' PROVE PoolRepairs(n)'
  <2>1. CASE PoolDone(n) \/ PoolFails(n)
    <3>1. after.status = "RUNNING"
      BY <1>1, <1>3, <1>4, <2>1 DEF PoolDone, PoolFails, PoolEnds, Running, Pool, Present, Inv
    <3>2. QED
      BY <1>3, <3>1 DEF PoolRepairs
  <2>2. CASE PoolAutoUpgrade(n)
    <3>1. after = Pool("RECONCILING", pools[n].settings, [version |-> cluster.kubernetesVersion])
      BY <1>3, <2>2 DEF PoolAutoUpgrade, Inv
    <3>2. after.status = "RECONCILING" /\ DOMAIN after.request = {"version"}
      BY <3>1 DEF Pool
    <3>3. QED
      BY <1>3, <3>2 DEF PoolRepairs
  <2>3. CASE OthersRemove(n)
    <3>1. after.status = "STOPPING" /\ n \notin Listed(spec)'
      BY <1>1, <1>3, <2>3 DEF OthersRemove, Inv, Pool
    <3>2. QED
      BY <1>3, <3>1 DEF PoolRepairs
  <2>4. QED
    BY <2>1, <2>2, <2>3
<1>5. ~LeavesPoolsAlone(spec) /\ n \in Listed(spec) => ~OthersRemove(n)
  BY DEF OthersRemove
<1>6. QED
  BY <1>1, <1>2, <1>4, <1>5, SteadyPool, StillServes

LEMMA SteadyNext ==
    Inv /\ RequestInv /\ Typed /\ SteadyInv /\ [Next]_vars /\ UNCHANGED spec => SteadyInv'
<1> SUFFICES ASSUME Inv, RequestInv, Typed, SteadyInv, [Next]_vars, UNCHANGED spec PROVE SteadyInv'
  OBVIOUS
<1>1. CASE UNCHANGED << gkeVars, pass >>
  <2>1. PassKept
    BY <1>1 DEF PassKept, Ahead
  <2>2. QED
    BY <1>1, <2>1, SteadyNoCall
<1>2. CASE pass' = Idle /\ UNCHANGED gkeVars
  BY <1>2, SteadyNoCall DEF PassKept
<1>3. CASE UNCHANGED vars \/ CheckWaits \/ Edit
  BY <1>1, <1>3 DEF vars, CheckWaits, Edit, gkeVars
<1>4. CASE Restart \/ ClusterCallRefused \/ PoolsDone
  BY <1>2, <1>4 DEF Restart, ClusterCallRefused, PoolsDone, Fails, Waits, Settles
<1>5. ASSUME NEW n \in PoolNames, PoolCallRefused(n) PROVE SteadyInv'
  BY <1>5, SteadyNoChange DEF PoolCallRefused
<1>6. CASE OperationDone \/ OperationFails
  <2>1. OperationRepairs' /\ UNCHANGED << pools, pass >>
    BY <1>6 DEF OperationDone, OperationFails, OperationEnds, OperationRepairs, NoOperation, configVars
  <2>2. PassKept
    BY <2>1 DEF PassKept, Ahead
  <2>3. QED
    BY <2>1, <2>2, SteadyCluster
<1>7. CASE AutoUpgrade \/ OthersLabel
  <2>1. OperationRepairs' /\ UNCHANGED << pools, pass >>
    BY <1>7 DEF AutoUpgrade, OthersLabel, OperationRepairs, NoOperation, configVars
  <2>2. PassKept
    BY <2>1 DEF PassKept, Ahead
  <2>3. QED
    BY <2>1, <2>2, SteadyCluster
<1>8. ASSUME NEW n \in PoolNames,
             PoolDone(n) \/ PoolFails(n) \/ PoolAutoUpgrade(n) \/ OthersRemove(n)
      PROVE  SteadyInv'
  BY <1>8, SteadyPoolGoesOn
<1>9. QED
  BY <1>3, <1>4, <1>5, <1>6, <1>7, <1>8, SteadyCheckUpdates, SteadyUpdateCluster, SteadySetLabels,
     SteadyUpdatePool, SteadyCreatePool, SteadyRemovePool DEF Next, Progress, Disturbance, Pass

-----------------------------------------------------------------------------
(* What is out of sync, one pool at a time *)

HasPool(ps, n) == n \in PoolNames /\ ps[n] # Absent

\* What is not as spec s asks of the pool n among ps.
PoolOut(s, ps, n) ==
    IF n \notin Listed(s) THEN { f \in {"absent"} : HasPool(ps, n) }
    ELSE IF HasPool(ps, n) /\ ps[n].status \in {"RUNNING", "RECONCILING"}
    THEN UNION { PoolLacking(np, ps[n].settings) : np \in { q \in Range(s.nodePools) : q.name = n } }
    ELSE {"present"}

LEMMA OutOfSyncIs ==
    ASSUME NEW s, NEW c, NEW ps
    PROVE  \A x : x \in OutOfSync(s, c, ps) <=>
                \/ \E f \in Lacking(s, c) : x = <<f>>
                \/ /\ ~LeavesPoolsAlone(s)
                   /\ \E n \in PoolNames \cup Listed(s) : \E f \in PoolOut(s, ps, n) : x = <<n, f>>
<1> DEFINE there == { n \in PoolNames : ps[n] # Absent }
           serving == { n \in there : ps[n].status \in {"RUNNING", "RECONCILING"} }
           lacking(n) == UNION { PoolLacking(np, ps[n].settings) :
                                 np \in { q \in Range(s.nodePools) : q.name = n } }
           ofPools == { <<n, "present">> : n \in Listed(s) \ serving }
                      \cup { <<n, "absent">> : n \in there \ Listed(s) }
                      \cup UNION { { <<n, f>> : f \in lacking(n) } : n \in Listed(s) \cap serving }
<1>1. OutOfSync(s, c, ps) = { <<f>> : f \in Lacking(s, c) }
                            \cup IF LeavesPoolsAlone(s) THEN {} ELSE ofPools
  BY DEF OutOfSync
<1>2. /\ \A n \in Listed(s) \ serving : PoolOut(s, ps, n) = {"present"}
      /\ \A n \in there \ Listed(s) : PoolOut(s, ps, n) = {"absent"}
      /\ \A n \in Listed(s) \cap serving : PoolOut(s, ps, n) = lacking(n)
      /\ \A n : n \notin Listed(s) \cup there => PoolOut(s, ps, n) = {}
  BY DEF PoolOut, HasPool
<1>3. there \subseteq PoolNames
  OBVIOUS
<1>4. \A x : x \in ofPools <=>
        \E n \in PoolNames \cup Listed(s) : \E f \in PoolOut(s, ps, n) : x = <<n, f>>
  <2> HIDE DEF there, serving, lacking
  <2>1. QED
    BY <1>2, <1>3
<1> HIDE DEF ofPools
<1>5. QED
  BY <1>1, <1>4

\* What of a cluster and of each pool is no less as the spec asks than of others.
LEMMA OutWithin ==
    ASSUME NEW s, NEW c, NEW ps, NEW d, NEW qs,
           Lacking(s, d) \subseteq Lacking(s, c),
           ~LeavesPoolsAlone(s) => \A n \in PoolNames : PoolOut(s, qs, n) \subseteq PoolOut(s, ps, n)
    PROVE  OutOfSync(s, d, qs) \subseteq OutOfSync(s, c, ps)
<1>1. \A n : n \notin PoolNames => PoolOut(s, qs, n) = PoolOut(s, ps, n)
  BY DEF PoolOut, HasPool
<1>2. QED
  BY <1>1, OutOfSyncIs

LEMMA OutButDrifts ==
    ASSUME NEW s, NEW c, NEW ps, NEW d, NEW qs,
           Lacking(s, d) \subseteq Lacking(s, c) \cup {"kubernetesVersion", "labels"},
           ~LeavesPoolsAlone(s) =>
               \A n \in PoolNames : PoolOut(s, qs, n) \subseteq PoolOut(s, ps, n) \cup {"version"}
    PROVE  OutOfSync(s, d, qs) \ Drifts \subseteq OutOfSync(s, c, ps) \ Drifts
<1>1. \A n : n \notin PoolNames => PoolOut(s, qs, n) = PoolOut(s, ps, n)
  BY DEF PoolOut, HasPool
<1> SUFFICES ASSUME NEW x \in OutOfSync(s, d, qs), x \notin Drifts
             PROVE  x \in OutOfSync(s, c, ps)
  OBVIOUS
<1>2. CASE \E f \in Lacking(s, d) : x = <<f>>
  <2>1. PICK f \in Lacking(s, d) : x = <<f>>
    BY <1>2
  <2>2. f \in Lacking(s, c)
    BY <2>1 DEF Drifts
  <2>3. QED
    BY <2>1, <2>2, OutOfSyncIs
<1>3. CASE /\ ~LeavesPoolsAlone(s)
           /\ \E n \in PoolNames \cup Listed(s) : \E f \in PoolOut(s, qs, n) : x = <<n, f>>
  <2>1. PICK n \in PoolNames \cup Listed(s) : \E f \in PoolOut(s, qs, n) : x = <<n, f>>
    BY <1>3
  <2>2. PICK f \in PoolOut(s, qs, n) : x = <<n, f>>
    BY <2>1
  <2>3. f \in PoolOut(s, ps, n)
    BY <1>1, <1>3, <2>2 DEF Drifts
  <2>4. QED
    BY <1>3, <2>2, <2>3, OutOfSyncIs
<1>4. QED
  BY <1>2, <1>3, OutOfSyncIs

\* A step that touches pool n only changes nothing but what is out of sync of it.
LEMMA OthersAsBefore ==
    ASSUME Inv, NEW n \in PoolNames, NEW after, pools' = [pools EXCEPT ![n] = after]
    PROVE  /\ pools'[n] = after
           /\ \A m \in PoolNames \ {n} : PoolOut(spec, pools', m) = PoolOut(spec, pools, m)
<1>1. pools'[n] = after /\ \A m \in PoolNames \ {n} : pools'[m] = pools[m]
  BY DEF Inv
<1>2. QED
  BY <1>1 DEF PoolOut, HasPool

LEMMA SameOutOfSync ==
    ASSUME Inv, UNCHANGED << spec, cluster >>, NEW n \in PoolNames, NEW after,
           pools' = [pools EXCEPT ![n] = after],
           ~LeavesPoolsAlone(spec) => PoolOut(spec, pools', n) = PoolOut(spec, pools, n)
    PROVE  OutOfSync(spec, cluster, pools)' = OutOfSync(spec, cluster, pools)
<1>1. ~LeavesPoolsAlone(spec) =>
        \A m \in PoolNames : PoolOut(spec, pools', m) = PoolOut(spec, pools, m)
  BY OthersAsBefore
<1>2. /\ OutOfSync(spec, cluster, pools') \subseteq OutOfSync(spec, cluster, pools)
      /\ OutOfSync(spec, cluster, pools) \subseteq OutOfSync(spec, cluster, pools')
  BY <1>1, OutWithin
<1>3. QED
  BY <1>2

-----------------------------------------------------------------------------
(* Every step is one of Reconciliation *)

Out == OutOfSync(spec, cluster, pools)

Missed == Overlooked(spec)

Watched == due \/ pass # Idle

LEMMA Wakes ==
    ASSUME UNCHANGED << Out, Missed, phase >>, Watched'
    PROVE  [R!Next]_(R!vars)
<1>1. R!Wake
  BY DEF R!Wake, Out, Missed, Watched
<1>2. QED
  BY <1>1 DEF R!Next

\* A pass that comes to an error or has to wait.
LEMMA EndsLoudly ==
    ASSUME Typed, UNCHANGED << Out, Missed >>, pass # Idle, Fails \/ Waits
    PROVE  [R!Next]_(R!vars)
<1>1. pass' = Idle /\ due' = TRUE /\ (phase' = phase \/ phase' = "updating")
  BY DEF Fails, Waits, Written
<1>2. CASE phase' = phase
  BY <1>1, <1>2, Wakes DEF Watched
<1>3. CASE phase' = "updating"
  <2>1. R!Await
    BY <1>1, <1>3 DEF R!Await, Out, Missed
  <2>2. QED
    BY <2>1 DEF R!Next
<1>4. QED
  BY <1>1, <1>2, <1>3

\* A pass that comes to an end without a call: unless its key is due again, there
\* was nothing to do.
LEMMA EndsQuietly ==
    ASSUME Typed, QuietMeansInSync', UNCHANGED << Out, Missed >>, Settles
    PROVE  [R!Next]_(R!vars)
<1>1. pass' = Idle /\ due' = due /\ phase' = IF due THEN phase ELSE "active"
  BY DEF Settles, Written
<1>2. CASE due
  BY <1>1, <1>2, Wakes DEF Watched
<1>3. CASE ~due
  <2>1. Out' \subseteq Drifts \cup Missed'
    BY <1>1, <1>3 DEF QuietMeansInSync, Out, Missed, Drifts
  <2>2. R!Settle
    BY <1>1, <1>3, <2>1 DEF R!Settle, Out, Missed, Drifts
  <2>3. QED
    BY <2>2 DEF R!Next
<1>4. QED
  BY <1>2, <1>3

\* A pass that goes on.
LEMMA GoesOn ==
    ASSUME Inv, UNCHANGED << Out, Missed >>, NEW n, NEW asked,
           pass # Idle /\ (Panics \/ Passes(n, asked))
    PROVE  [R!Next]_(R!vars)
<1>1. PassInv
  BY DEF Inv
<1>2. pass' # Idle /\ UNCHANGED phase
  BY <1>1 DEF Panics, GoesTo, Passes, PassInv, Idle
<1>3. QED
  BY <1>2, Wakes DEF Watched

LEMMA MapsUpdateCluster ==
    ASSUME Inv, Typed, QuietMeansInSync', UpdateCluster
    PROVE  [R!Next]_(R!vars)
<1>1. At("cluster") /\ pass # Idle /\ PassInv /\ UNCHANGED << spec, cluster, pools >>
  BY DEF UpdateCluster, At, Inv
<1>2. UNCHANGED << Out, Missed >>
  BY <1>1 DEF Out, Missed
<1>3. CASE Panics
  BY <1>1, <1>2, <1>3, GoesOn
<1>4. CASE Fails \/ Waits
  BY <1>1, <1>2, <1>4, EndsLoudly
<1>5. CASE Settles
  BY <1>2, <1>5, EndsQuietly
<1>6. CASE LooksAtPools
  <2>1. ASSUME pass' = [pass EXCEPT !.at = "pools", !.todo = DOMAIN Downstream \cup DOMAIN pass.pools],
               UNCHANGED << phase, due >>
        PROVE  [R!Next]_(R!vars)
    <3>1. pass' # Idle
      BY <1>1, <2>1 DEF PassInv, Idle
    <3>2. QED
      BY <1>2, <2>1, <3>1, Wakes DEF Watched
  <2>2. QED
    BY <1>4, <1>5, <1>6, <2>1 DEF LooksAtPools
<1>7. CASE /\ pass' = [pass EXCEPT !.at = "labels", !.fingerprint = cluster.labels]
           /\ UNCHANGED << phase, due, operation >>
  <2>1. pass' # Idle
    BY <1>1, <1>7 DEF PassInv, Idle
  <2>2. QED
    BY <1>2, <1>7, <2>1, Wakes DEF Watched
<1>8. QED
  BY <1>3, <1>4, <1>6, <1>7 DEF UpdateCluster, CallsCluster

LEMMA MapsAskOfPool ==
    ASSUME Inv, NEW n \in PoolNames, Visits(n), NEW after, AskOfPool(n, after),
           Free(n) /\ pools'[n] = after /\ ~LeavesPoolsAlone(spec) =>
                PoolOut(spec, pools', n) = PoolOut(spec, pools, n)
    PROVE  [R!Next]_(R!vars)
<1>1. UNCHANGED << spec, cluster >> /\ pass # Idle
  BY DEF Visits, At
<1>2. UNCHANGED << Out, Missed >>
  <2>1. CASE Free(n)
    <3>1. pools' = [pools EXCEPT ![n] = after]
      BY <2>1 DEF AskOfPool
    <3>2. QED
      BY <1>1, <2>1, <3>1, OthersAsBefore, SameOutOfSync DEF Out, Missed
  <2>2. CASE ~Free(n)
    BY <1>1, <2>2 DEF AskOfPool, Out, Missed
  <2>3. QED
    BY <2>1, <2>2
<1>3. QED
  BY <1>1, <1>2, GoesOn DEF AskOfPool

LEMMA MapsUpdatePool ==
    ASSUME Inv, Typed, NEW n \in PoolNames, UpdatePool(n)
    PROVE  [R!Next]_(R!vars)
<1>1. Visits(n) /\ UNCHANGED << spec, cluster >> /\ pass # Idle
  BY DEF UpdatePool, Visits, At
<1>2. CASE UNCHANGED pools /\ (Panics \/ Fails \/ Passes(n, FALSE))
  <2>1. UNCHANGED << Out, Missed >>
    BY <1>1, <1>2 DEF Out, Missed
  <2>2. QED
    BY <1>1, <1>2, <2>1, GoesOn, EndsLoudly
<1>3. CASE n \in Present /\ AskOfPool(n, Pool("RECONCILING", pools[n].settings, PoolRequest(n)))
  <2> DEFINE after == Pool("RECONCILING", pools[n].settings, PoolRequest(n))
  <2>1. ASSUME Free(n), pools'[n] = after
        PROVE  PoolOut(spec, pools', n) = PoolOut(spec, pools, n)
    <3>1. pools[n].status = "RUNNING" /\ pools[n] # Absent
      BY <1>3, <2>1 DEF Free, Present
    <3>2. /\ pools'[n] # Absent /\ pools'[n].status = "RECONCILING"
          /\ pools'[n].settings = pools[n].settings
      BY <2>1 DEF Pool, Absent
    <3>3. QED
      BY <3>1, <3>2 DEF PoolOut, HasPool
  <2> HIDE DEF after
  <2>2. QED
    BY <1>1, <1>3, <2>1, MapsAskOfPool DEF after
<1>4. QED
  BY <1>2, <1>3 DEF UpdatePool

LEMMA MapsCreatePool ==
    ASSUME Inv, Typed, SteadyInv, NEW n \in PoolNames, CreatePool(n)
    PROVE  [R!Next]_(R!vars)
<1>1. /\ Visits(n) /\ UNCHANGED << spec, cluster >> /\ pass # Idle
      /\ n \in DOMAIN Downstream /\ n \notin DOMAIN pass.pools
  BY DEF CreatePool, Visits, At
<1>2. CASE UNCHANGED pools /\ Fails
  <2>1. UNCHANGED << Out, Missed >>
    BY <1>1, <1>2 DEF Out, Missed
  <2>2. QED
    BY <1>1, <1>2, <2>1, EndsLoudly
<1>3. CASE AskOfPool(n, Pool("PROVISIONING", Completed(newGKENodePoolFromConfig(Downstream[n])), NoRequest))
  <2> DEFINE after == Pool("PROVISIONING", Completed(newGKENodePoolFromConfig(Downstream[n])), NoRequest)
  <2>1. ~LeavesPoolsAlone(spec) /\ n \in Listed(spec)
    BY <1>1, PassAsks
  <2>2. n \notin Present
    BY <1>1, <2>1 DEF SteadyInv, ReadsPools, Visits, At, Ahead
  <2>3. after.status = "PROVISIONING"
    BY DEF Pool
  <2> HIDE DEF after
  <2>4. pools'[n] = after => PoolOut(spec, pools', n) = PoolOut(spec, pools, n)
    BY <2>1, <2>2, <2>3 DEF PoolOut, HasPool, Present
  <2>5. QED
    BY <1>1, <1>3, <2>4, MapsAskOfPool DEF after
<1>4. QED
  BY <1>2, <1>3 DEF CreatePool

LEMMA MapsRemovePool ==
    ASSUME Inv, SteadyInv, NEW n \in PoolNames, RemovePool(n)
    PROVE  [R!Next]_(R!vars)
<1>1. Visits(n) /\ UNCHANGED << spec, cluster >> /\ pass # Idle /\ n \notin DOMAIN Downstream
  BY DEF RemovePool, Visits, At
<1>2. CASE UNCHANGED pools /\ Passes(n, FALSE)
  <2>1. UNCHANGED << Out, Missed >>
    BY <1>1, <1>2 DEF Out, Missed
  <2>2. QED
    BY <1>1, <1>2, <2>1, GoesOn
<1>3. CASE n \in Present /\ AskOfPool(n, Pool("STOPPING", pools[n].settings, NoRequest))
  <2> DEFINE after == Pool("STOPPING", pools[n].settings, NoRequest)
  <2>1. n \notin Listed(spec)
    BY <1>1, PassAsks
  <2>2. after # Absent
    BY DEF Pool, Absent
  <2> HIDE DEF after
  <2>3. pools'[n] = after => PoolOut(spec, pools', n) = PoolOut(spec, pools, n)
    BY <1>3, <2>1, <2>2 DEF PoolOut, HasPool, Present
  <2>4. QED
    BY <1>1, <1>3, <2>3, MapsAskOfPool DEF after
<1>4. QED
  BY <1>2, <1>3 DEF RemovePool

\* What GKE does to a pool may be seen of it, or be the work the config waits for.
LEMMA MapsPoolStep ==
    ASSUME Inv, UNCHANGED << spec, phase, due, cluster, pass >>, NEW n \in PoolNames, NEW after,
           pools' = [pools EXCEPT ![n] = after],
           ~LeavesPoolsAlone(spec) =>
               \/ PoolOut(spec, pools', n) = PoolOut(spec, pools, n)
               \/ Watched /\ PoolOut(spec, pools', n) \subseteq PoolOut(spec, pools, n)
               \/ /\ PoolOut(spec, pools', n) \subseteq PoolOut(spec, pools, n) \cup {"version"}
                  /\ PoolOut(spec, pools, n) \subseteq PoolOut(spec, pools', n) \cup {"version"}
    PROVE  [R!Next]_(R!vars)
<1>1. UNCHANGED << phase, Watched >>
  BY DEF Watched
<1>2. \A m \in PoolNames \ {n} : PoolOut(spec, pools', m) = PoolOut(spec, pools, m)
  BY OthersAsBefore
<1>3. CASE ~LeavesPoolsAlone(spec) => PoolOut(spec, pools', n) = PoolOut(spec, pools, n)
  <2>1. UNCHANGED << Out, Missed >>
    BY <1>3, SameOutOfSync DEF Out, Missed
  <2>2. QED
    BY <1>1, <2>1 DEF R!vars, Out, Missed, Watched
<1>4. CASE Watched /\ PoolOut(spec, pools', n) \subseteq PoolOut(spec, pools, n)
  <2>1. OutOfSync(spec, cluster, pools') \subseteq OutOfSync(spec, cluster, pools)
    BY <1>2, <1>4, OutWithin
  <2>2. R!Repair
    BY <1>1, <1>4, <2>1 DEF R!Repair, Watched
  <2>3. QED
    BY <2>2 DEF R!Next
<1>5. CASE /\ PoolOut(spec, pools', n) \subseteq PoolOut(spec, pools, n) \cup {"version"}
           /\ PoolOut(spec, pools, n) \subseteq PoolOut(spec, pools', n) \cup {"version"}
  <2>1. /\ OutOfSync(spec, cluster, pools') \ Drifts \subseteq OutOfSync(spec, cluster, pools) \ Drifts
        /\ OutOfSync(spec, cluster, pools) \ Drifts \subseteq OutOfSync(spec, cluster, pools') \ Drifts
    BY <1>2, <1>5, OutButDrifts
  <2>2. R!Drift
    BY <1>1, <2>1 DEF R!Drift, Watched
  <2>3. QED
    BY <2>2 DEF R!Next
<1>6. QED
  BY <1>3, <1>4, <1>5

LEMMA MapsPoolDone ==
    ASSUME Inv, Typed, QuietInv, SteadyInv, UNCHANGED spec, NEW n \in PoolNames, PoolDone(n)
    PROVE  [R!Next]_(R!vars)
<1> DEFINE done == Applied(pools[n].request, pools[n].settings)
           after == IF pools[n].status = "STOPPING" THEN Absent ELSE Running(done)
<1>1. /\ UNCHANGED << spec, phase, due, cluster, pass >> /\ n \in Present
      /\ pools' = [pools EXCEPT ![n] = after]
      /\ pools[n].status \in {"PROVISIONING", "RECONCILING", "STOPPING"}
  BY DEF PoolDone, PoolEnds, configVars, Typed, PoolTyped
<1>2. pools'[n] = after
  BY <1>1 DEF Inv
<1>3. pools[n] # Absent /\ DOMAIN pools[n].settings = PoolFields
  BY <1>1 DEF Present, Typed, PoolTyped
<1>4. \A f \in PoolFields :
        done[f] = IF f \in DOMAIN pools[n].request THEN pools[n].request[f] ELSE pools[n].settings[f]
  BY <1>3 DEF Applied
<1>5. pools[n].status # "STOPPING" =>
        pools'[n] # Absent /\ pools'[n].status = "RUNNING" /\ pools'[n].settings = done
  <2> HIDE DEF done
  <2>1. QED
    BY <1>2 DEF Running, Pool, Absent
<1>6. pools[n].status = "STOPPING" => pools'[n] = Absent
  BY <1>2
<1>7. ASSUME ~LeavesPoolsAlone(spec)
      PROVE  \/ PoolOut(spec, pools', n) = PoolOut(spec, pools, n)
             \/ Watched /\ PoolOut(spec, pools', n) \subseteq PoolOut(spec, pools, n)
             \/ /\ PoolOut(spec, pools', n) \subseteq PoolOut(spec, pools, n) \cup {"version"}
                /\ PoolOut(spec, pools, n) \subseteq PoolOut(spec, pools', n) \cup {"version"}
  <2> HIDE DEF done, after
  <2>1. PoolRepairs(n)
    BY <1>1, <1>7 DEF SteadyInv, PoolsRepair
  <2>2. ~Watched => Present \subseteq Listed(spec) /\ \A m \in Listed(spec) : Serves(m)
    BY <1>7 DEF Watched, QuietInv, PoolsAsAsked, PoolAsAsked
  <2>3. CASE pools[n].status = "STOPPING"
    <3>1. n \notin Listed(spec) /\ Watched
      BY <1>1, <2>1, <2>2, <2>3 DEF PoolRepairs
    <3>2. PoolOut(spec, pools', n) = {}
      BY <1>6, <2>3, <3>1 DEF PoolOut, HasPool
    <3>3. QED
      BY <3>1, <3>2
  <2>4. CASE pools[n].status = "PROVISIONING"
    <3>1. /\ n \in Listed(spec) /\ DOMAIN pools[n].request = {}
          /\ \A np \in AskedPools(n) : PoolLacking(np, pools[n].settings) = {}
      BY <2>1, <2>4 DEF PoolRepairs
    <3>2. Watched
      BY <2>2, <2>4, <3>1 DEF Serves
    <3>3. \A np \in AskedPools(n) : PoolLacking(np, done) = {}
      BY <1>4, <3>1, PoolLackingApart, PoolLackingFields
    <3>4. PoolOut(spec, pools', n) = {}
      BY <1>5, <2>4, <3>1, <3>3 DEF PoolOut, HasPool, AskedPools
    <3>5. QED
      BY <3>2, <3>4
  <2>5. CASE pools[n].status = "RECONCILING" /\ n \notin Listed(spec)
    BY <1>3, <1>5, <2>5 DEF PoolOut, HasPool
  <2>6. CASE pools[n].status = "RECONCILING" /\ n \in Listed(spec)
    <3> DEFINE lacking(settings) == UNION { PoolLacking(np, settings) : np \in AskedPools(n) }
    <3>1. PoolOut(spec, pools, n) = lacking(pools[n].settings) /\ PoolOut(spec, pools', n) = lacking(done)
      BY <1>3, <1>5, <2>6 DEF PoolOut, HasPool, AskedPools
    <3>2. CASE DOMAIN pools[n].request \subseteq {"version"}
      <4>1. \A f \in PoolFields \ {"version"} : done[f] = pools[n].settings[f]
        BY <1>4, <3>2
      <4>2. \A np : /\ PoolLacking(np, done) \subseteq PoolLacking(np, pools[n].settings) \cup {"version"}
                    /\ PoolLacking(np, pools[n].settings) \subseteq PoolLacking(np, done) \cup {"version"}
        BY <4>1, PoolLackingApart, PoolLackingFields
      <4>3. /\ lacking(done) \subseteq lacking(pools[n].settings) \cup {"version"}
            /\ lacking(pools[n].settings) \subseteq lacking(done) \cup {"version"}
        BY <4>2
      <4>4. QED
        BY <3>1, <4>3
    <3>3. CASE ~(DOMAIN pools[n].request \subseteq {"version"})
      <4>1. Watched
        BY <2>2, <2>6, <3>3 DEF Serves
      <4>2. \A np \in AskedPools(n) : PoolLacking(np, done) \subseteq PoolLacking(np, pools[n].settings)
        BY <2>1, <2>6, <3>3 DEF PoolRepairs, done
      <4>3. lacking(done) \subseteq lacking(pools[n].settings)
        BY <4>2
      <4>4. QED
        BY <3>1, <4>1, <4>3
    <3>4. QED
      BY <3>2, <3>3
  <2>7. QED
    BY <1>1, <2>3, <2>4, <2>5, <2>6
<1> HIDE DEF after
<1>8. QED
  BY <1>1, <1>7, MapsPoolStep

LEMMA MapsPoolFails ==
    ASSUME Inv, Typed, SteadyInv, UNCHANGED spec, NEW n \in PoolNames, PoolFails(n)
    PROVE  [R!Next]_(R!vars)
<1> DEFINE after == IF pools[n].status = "PROVISIONING" THEN Absent ELSE Running(pools[n].settings)
<1>1. /\ UNCHANGED << spec, phase, due, cluster, pass >> /\ n \in Present
      /\ pools' = [pools EXCEPT ![n] = after]
      /\ pools[n].status \in {"PROVISIONING", "RECONCILING", "STOPPING"}
  BY DEF PoolFails, PoolEnds, configVars, Typed, PoolTyped
<1>2. pools'[n] = after /\ pools[n] # Absent
  BY <1>1 DEF Inv, Present
<1>3. ASSUME ~LeavesPoolsAlone(spec)
      PROVE  PoolOut(spec, pools', n) = PoolOut(spec, pools, n)
  <2>1. PoolRepairs(n)
    BY <1>1, <1>3 DEF SteadyInv, PoolsRepair
  <2>2. CASE pools[n].status = "PROVISIONING"
    BY <1>2, <2>1, <2>2 DEF PoolRepairs, PoolOut, HasPool
  <2>3. CASE pools[n].status # "PROVISIONING"
    <3>1. pools'[n] # Absent /\ pools'[n].status = "RUNNING" /\ pools'[n].settings = pools[n].settings
      BY <1>2, <2>3 DEF Running, Pool, Absent
    <3>2. CASE pools[n].status = "RECONCILING"
      BY <1>2, <3>1, <3>2 DEF PoolOut, HasPool
    <3>3. CASE pools[n].status = "STOPPING"
      BY <1>2, <2>1, <3>1, <3>3 DEF PoolRepairs, PoolOut, HasPool
    <3>4. QED
      BY <1>1, <2>3, <3>2, <3>3
  <2>4. QED
    BY <2>2, <2>3
<1> HIDE DEF after
<1>4. QED
  BY <1>1, <1>3, MapsPoolStep

LEMMA MapsPoolDisturbed ==
    ASSUME Inv, UNCHANGED spec, NEW n \in PoolNames, PoolAutoUpgrade(n) \/ OthersRemove(n)
    PROVE  [R!Next]_(R!vars)
<1>1. PICK after :
        /\ UNCHANGED << spec, phase, due, cluster, pass >> /\ n \in Present
        /\ pools' = [pools EXCEPT ![n] = after]
        /\ after.settings = pools[n].settings
        /\ \/ after.status = "RECONCILING" /\ pools[n].status = "RUNNING"
           \/ after.status = "STOPPING" /\ n \notin Listed(spec)
  <2>1. CASE PoolAutoUpgrade(n)
    <3> DEFINE after == Pool("RECONCILING", pools[n].settings, [version |-> cluster.kubernetesVersion])
    <3>1. /\ UNCHANGED << spec, phase, due, cluster, pass >> /\ n \in Present
          /\ pools' = [pools EXCEPT ![n] = after] /\ pools[n].status = "RUNNING"
      BY <2>1 DEF PoolAutoUpgrade, Free, configVars
    <3>2. after.settings = pools[n].settings /\ after.status = "RECONCILING"
      BY DEF Pool
    <3> HIDE DEF after
    <3>3. QED
      BY <3>1, <3>2
  <2>2. CASE OthersRemove(n)
    <3> DEFINE after == Pool("STOPPING", pools[n].settings, NoRequest)
    <3>1. /\ UNCHANGED << spec, phase, due, cluster, pass >> /\ n \in Present
          /\ pools' = [pools EXCEPT ![n] = after] /\ n \notin Listed(spec)
      BY <2>2 DEF OthersRemove, configVars
    <3>2. after.settings = pools[n].settings /\ after.status = "STOPPING"
      BY DEF Pool
    <3> HIDE DEF after
    <3>3. QED
      BY <3>1, <3>2
  <2>3. QED
    BY <2>1, <2>2
<1>2. pools'[n] = after /\ pools[n] # Absent /\ after # Absent
  BY <1>1 DEF Inv, Present, Absent
<1>3. PoolOut(spec, pools', n) = PoolOut(spec, pools, n)
  BY <1>1, <1>2 DEF PoolOut, HasPool
<1>4. QED
  BY <1>1, <1>3, MapsPoolStep

\* A change of the cluster that nobody asked for.
LEMMA MapsClusterDrift ==
    ASSUME UNCHANGED << spec, phase, due, pools, pass >>, Alike(cluster, cluster')
    PROVE  [R!Next]_(R!vars)
<1>1. Alike(cluster', cluster)
  BY DEF Alike
<1>2. /\ Lacking(spec, cluster') \subseteq Lacking(spec, cluster) \cup {"kubernetesVersion", "labels"}
      /\ Lacking(spec, cluster) \subseteq Lacking(spec, cluster') \cup {"kubernetesVersion", "labels"}
  BY <1>1, LackingStays
<1>3. /\ OutOfSync(spec, cluster', pools) \ Drifts \subseteq OutOfSync(spec, cluster, pools) \ Drifts
      /\ OutOfSync(spec, cluster, pools) \ Drifts \subseteq OutOfSync(spec, cluster', pools) \ Drifts
  BY <1>2, OutButDrifts
<1>4. R!Drift
  BY <1>3 DEF R!Drift
<1>5. QED
  BY <1>4 DEF R!Next

LEMMA MapsOperationDone ==
    ASSUME RequestInv, SteadyInv, UNCHANGED spec, OperationDone
    PROVE  [R!Next]_(R!vars)
<1>1. /\ UNCHANGED << spec, phase, due, pools, pass >>
      /\ cluster' = Applied(operation.request, cluster)
  BY DEF OperationDone, OperationEnds, configVars
<1>2. CASE operation.by = "operator"
  <2>1. OutOfSync(spec, cluster', pools) \subseteq OutOfSync(spec, cluster, pools)
    BY <1>1, <1>2, OutWithin DEF SteadyInv, OperationRepairs
  <2>2. R!Repair
    BY <1>1, <1>2, <2>1 DEF R!Repair, RequestInv, OperationInv
  <2>3. QED
    BY <2>2 DEF R!Next
<1>3. CASE operation.by # "operator"
  <2>1. Alike(cluster, cluster')
    BY <1>1, <1>3 DEF Alike, Applied, RequestInv, OperationInv, ClusterFits
  <2>2. QED
    BY <1>1, <2>1, MapsClusterDrift
<1>4. QED
  BY <1>2, <1>3

LEMMA MapsPass ==
    ASSUME Inv, RequestInv, Typed, SteadyInv, QuietMeansInSync', UNCHANGED spec, Pass
    PROVE  [R!Next]_(R!vars)
<1>1. CASE CheckWaits
  <2>1. R!Await
    BY <1>1 DEF CheckWaits, gkeVars, R!Await
  <2>2. QED
    BY <2>1 DEF R!Next
<1>2. CASE CheckUpdates
  <2>1. UNCHANGED << Out, Missed, phase >>
    BY <1>2 DEF CheckUpdates, gkeVars, Out, Missed
  <2>2. Watched'
    BY <1>2 DEF CheckUpdates, Watched, Idle
  <2>3. QED
    BY <2>1, <2>2, Wakes
<1>3. CASE SetLabels
  <2>1. UNCHANGED << Out, Missed >> /\ pass # Idle /\ (Fails \/ Waits)
    BY <1>3 DEF SetLabels, CallsCluster, Out, Missed, At
  <2>2. QED
    BY <2>1, EndsLoudly
<1>4. CASE PoolsDone
  <2>1. UNCHANGED << Out, Missed >> /\ pass # Idle /\ (Waits \/ Settles)
    BY <1>4 DEF PoolsDone, gkeVars, Out, Missed, At
  <2>2. QED
    BY <2>1, EndsLoudly, EndsQuietly
<1>5. QED
  BY <1>1, <1>2, <1>3, <1>4, MapsUpdateCluster, MapsUpdatePool, MapsCreatePool, MapsRemovePool DEF Pass

LEMMA StepMaps ==
    Inv /\ RequestInv /\ Typed /\ QuietInv /\ SteadyInv /\ QuietMeansInSync' /\ [Next]_vars /\ UNCHANGED spec
        => [R!Next]_(R!vars)
<1> SUFFICES ASSUME Inv, RequestInv, Typed, QuietInv, SteadyInv, QuietMeansInSync', [Next]_vars,
                    UNCHANGED spec
             PROVE  [R!Next]_(R!vars)
  OBVIOUS
<1>1. CASE UNCHANGED << spec, phase, due, cluster, pools, pass >>
  BY <1>1 DEF R!vars
<1>2. CASE UNCHANGED vars \/ OperationFails \/ AutoUpgrade
  BY <1>1, <1>2 DEF vars, OperationFails, OperationEnds, AutoUpgrade, configVars
<1>3. CASE Edit \/ Restart
  <2>1. UNCHANGED << Out, Missed, phase >> /\ Watched'
    BY <1>3 DEF Edit, Restart, gkeVars, Out, Missed, Watched
  <2>2. QED
    BY <2>1, Wakes
<1>4. CASE ClusterCallRefused
  <2>1. UNCHANGED << Out, Missed >> /\ pass # Idle /\ (Fails \/ Waits)
    BY <1>4 DEF ClusterCallRefused, gkeVars, Out, Missed, At
  <2>2. QED
    BY <2>1, EndsLoudly
<1>5. ASSUME NEW n \in PoolNames, PoolCallRefused(n) PROVE [R!Next]_(R!vars)
  <2>1. UNCHANGED << Out, Missed >> /\ pass # Idle /\ (Fails \/ Passes(n, TRUE))
    BY <1>5 DEF PoolCallRefused, Visits, Out, Missed, At
  <2>2. QED
    BY <2>1, EndsLoudly, GoesOn
<1>6. CASE OthersLabel
  <2>1. UNCHANGED << spec, phase, due, pools, pass >>
    BY <1>6 DEF OthersLabel, configVars
  <2>2. Alike(cluster, cluster')
    BY <1>6 DEF OthersLabel, Alike, RequestInv, ClusterFits
  <2>3. QED
    BY <2>1, <2>2, MapsClusterDrift
<1>7. QED
  BY <1>2, <1>3, <1>4, <1>5, <1>6, MapsPass, MapsOperationDone, MapsPoolDone, MapsPoolFails,
     MapsPoolDisturbed DEF Next, Progress, Disturbance

\* For a spec that stays as it is, the passes keep the promise of Reconciliation:
\* whatever fails, is refused or restarts, no step takes the cluster further away
\* from the spec but GKE's own upgrades and other clients' labels, work is only done
\* while a pass is under way or to come, and the config is left alone only when
\* nothing else is lacking but what the comparisons overlook.
THEOREM KeepsReconciliation == Spec /\ [][UNCHANGED spec]_vars => ImplementsReconciliation
<1>1. Inv /\ RequestInv /\ QuietInv => QuietMeansInSync
  BY QuietIsInSync
<1>2. Init => R!Init
  BY DEF Init, R!Init
<1>3. /\ Inv /\ RequestInv /\ Typed /\ SteadyInv /\ [Next]_vars /\ [UNCHANGED spec]_vars => SteadyInv'
      /\ Inv /\ RequestInv /\ Typed /\ QuietInv /\ SteadyInv /\ QuietMeansInSync'
             /\ [Next]_vars /\ [UNCHANGED spec]_vars => [R!Next]_(R!vars)
  <2>1. [UNCHANGED spec]_vars => UNCHANGED spec
    BY DEF vars
  <2>2. QED
    BY <2>1, SteadyNext, StepMaps
<1>4. QED
  BY <1>1, <1>2, <1>3, InvInit, InvNext, RequestInit, RequestNext, TypedInit, TypedNext, QuietInit,
     QuietNext, SteadyInit, PTL
     DEF Spec, ImplementsReconciliation, R!Spec
=============================================================================
