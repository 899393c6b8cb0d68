------------------------- MODULE NodePoolUpdatesProofs -------------------------
(***************************************************************************)
(* Lemmas about the node pools of a spec and the requests for them, for    *)
(* every list of pools.                                                    *)
(***************************************************************************)
EXTENDS NodePoolUpdates, TLAPS

\* A set of a few numbers has a first one: the prover counts up, a step at a time.
LEMMA HasFirst ==
    ASSUME NEW S \in SUBSET (1 .. 14), S # {}
    PROVE  \E i \in S : \A j \in S : i <= j
<1> SUFFICES ASSUME \A i \in S : \E j \in S : j < i PROVE FALSE
  OBVIOUS
<1>1. \A i \in S : i > 4
  OBVIOUS
<1>2. \A i \in S : i > 9
  BY <1>1
<1>3. \A i \in S : i > 14
  BY <1>2
<1>4. PICK i \in S : TRUE
  OBVIOUS
<1>5. i \in 1 .. 14 /\ i > 14
  BY <1>3
<1>6. QED
  BY <1>5

\* A pool that validateNodePoolCreateRequest lets through can be asked for.
LEMMA PoolGiven ==
    ASSUME NEW np, NEW spec, validateNodePoolCreateRequest(np, spec) = Nil
    PROVE  ~PoolRequestPanics(np, spec)
<1> DEFINE required == << "name", "version", "autoscaling", "initialNodeCount",
                          "maxPodsConstraint", "config", "management" >>
           Optional(f) == f = "maxPodsConstraint" /\ ~UsesIPAliases(spec)
           missing == { i \in 1 .. 7 : np[required[i]] = Nil /\ ~Optional(required[i]) }
<1>1. ASSUME missing # {} PROVE FALSE
  <2>1. missing \in SUBSET (1 .. 14)
    OBVIOUS
  <2>2. \E i \in missing : \A j \in missing : i <= j
    BY <1>1, <2>1, HasFirst
  <2>3. (CHOOSE i \in missing : \A j \in missing : i <= j) \in 1 .. 7
    BY <2>2
  <2>4. validateNodePoolCreateRequest(np, spec)
            = required[CHOOSE i \in missing : \A j \in missing : i <= j]
    BY <1>1 DEF validateNodePoolCreateRequest
  <2>5. \A i \in 1 .. 7 : required[i] # Nil
    <3> DEFINE names == {"name", "version", "autoscaling", "initialNodeCount",
                         "maxPodsConstraint", "config", "management"}
    <3>1. \A i \in 1 .. 7 : required[i] \in names
      OBVIOUS
    <3>2. names \subseteq PoolProblems
      BY DEF PoolProblems
    <3> HIDE DEF names
    <3>3. QED
      BY <3>1, <3>2, PoolNilAssumption
  <2>6. QED
    BY <2>3, <2>4, <2>5
<1>2. \A i \in 1 .. 7 : np[required[i]] # Nil \/ Optional(required[i])
  BY <1>1
<1>3. QED
  BY <1>2 DEF PoolRequestPanics

\* buildNodePoolMap has the pools that have a name, each under its own.
LEMMA PoolMap ==
    ASSUME NEW nodePools, ~Duplicates(nodePools)
    PROVE  /\ DOMAIN buildNodePoolMap(nodePools) = { np.name : np \in Range(nodePools) } \ {Nil}
           /\ \A n \in DOMAIN buildNodePoolMap(nodePools) :
                    /\ buildNodePoolMap(nodePools)[n] \in Range(nodePools)
                    /\ buildNodePoolMap(nodePools)[n].name = n
<1>1. DOMAIN buildNodePoolMap(nodePools) = { np.name : np \in Range(nodePools) } \ {Nil}
  BY DEF buildNodePoolMap
<1>2. ASSUME NEW n \in DOMAIN buildNodePoolMap(nodePools)
      PROVE  /\ buildNodePoolMap(nodePools)[n] \in Range(nodePools)
             /\ buildNodePoolMap(nodePools)[n].name = n
  <2>1. buildNodePoolMap(nodePools)[n] = CHOOSE np \in Range(nodePools) : np.name = n
    BY <1>2 DEF buildNodePoolMap
  <2>2. \E np \in Range(nodePools) : np.name = n
    BY <1>1, <1>2
  <2>3. QED
    BY <2>1, <2>2
<1>3. QED
  BY <1>1, <1>2

\* The function whose turn it is has something to change, those before it have not.
LEMMA FirstOfUpdates ==
    ASSUME NEW spec, NEW upstream
    PROVE  LET first == FirstUpdate(spec, upstream)
               updates == Updates(spec, upstream)
           IN  /\ first \in 0 .. 9
               /\ first # 0 => DOMAIN updates[first] # {}
               /\ \A i \in 1 .. 9 : first = 0 \/ i < first => DOMAIN updates[i] = {}
<1> DEFINE updates == Updates(spec, upstream)
           sends == { i \in 1 .. 9 : DOMAIN updates[i] # {} }
           first == FirstUpdate(spec, upstream)
<1>1. CASE sends = {}
  <2>1. first = 0
    BY <1>1 DEF FirstUpdate
  <2> HIDE DEF first
  <2>2. QED
    BY <1>1, <2>1 DEF first
<1>2. CASE sends # {}
  <2>1. first = CHOOSE i \in sends : \A j \in sends : i <= j
    BY <1>2 DEF FirstUpdate
  <2>2. sends \in SUBSET (1 .. 14)
    OBVIOUS
  <2>3. \E i \in sends : \A j \in sends : i <= j
    <3> HIDE DEF sends
    <3>1. QED
      BY <1>2, <2>2, HasFirst
  <2>4. first \in sends /\ \A j \in sends : first <= j
    <3> HIDE DEF sends, first
    <3>1. QED
      BY <2>1, <2>3
  <2> HIDE DEF first, updates
  <2>5. QED
    BY <2>4 DEF first, updates
<1>3. QED
  BY <1>1, <1>2

\* The request for a pool is that of one of the five functions; it is empty only
\* when none of them has something to change.
LEMMA FirstOfPoolUpdates ==
    ASSUME NEW np, NEW upstream
    PROVE  LET request == FirstPoolUpdate(np, upstream)
               updates == PoolUpdates(np, upstream)
           IN  \/ request = NoRequest /\ \A i \in 1 .. 5 : DOMAIN updates[i] = {}
               \/ DOMAIN request # {} /\ \E i \in 1 .. 5 : request = updates[i]
<1> DEFINE updates == PoolUpdates(np, upstream)
           sends == { i \in 1 .. 5 : DOMAIN updates[i] # {} }
           first == CHOOSE i \in sends : \A j \in sends : i <= j
<1>1. CASE sends = {}
  BY <1>1 DEF FirstPoolUpdate
<1>2. CASE sends # {}
  <2>1. FirstPoolUpdate(np, upstream) = updates[first]
    BY <1>2 DEF FirstPoolUpdate
  <2>2. sends \in SUBSET (1 .. 14)
    OBVIOUS
  <2>3. \E i \in sends : \A j \in sends : i <= j
    <3> HIDE DEF sends
    <3>1. QED
      BY <1>2, <2>2, HasFirst
  <2>4. first \in sends
    <3> HIDE DEF sends
    <3>1. QED
      BY <2>3
  <2> HIDE DEF first, updates
  <2>5. QED
    BY <2>1, <2>4 DEF updates
<1>3. QED
  BY <1>1, <1>2

\* The five requests, one at a time.
LEMMA PoolUpdatesAre ==
    ASSUME NEW np, NEW upstream
    PROVE  LET updates == PoolUpdates(np, upstream)
           IN  /\ updates[1] = UpdateNodePoolKubernetesVersionOrImageType(np, upstream)
               /\ updates[2] = UpdateNodePoolSize(np, upstream)
               /\ updates[3] = UpdateNodePoolAutoscaling(np, upstream)
               /\ updates[4] = UpdateNodePoolManagement(np, upstream)
               /\ updates[5] = UpdateNodePoolConfig(np, upstream)
BY DEF PoolUpdates

\* A request for a pool changes its version only to the one the spec names.
LEMMA VersionAsked ==
    ASSUME NEW np, NEW upstream, "version" \in DOMAIN FirstPoolUpdate(np, upstream)
    PROVE  Given(np.version) /\ FirstPoolUpdate(np, upstream).version = np.version
<1> DEFINE request == FirstPoolUpdate(np, upstream)
           updates == PoolUpdates(np, upstream)
<1>1. "version" \notin DOMAIN NoRequest
  BY DEF NoRequest
<1>2. /\ "version" \notin DOMAIN UpdateNodePoolSize(np, upstream)
      /\ "version" \notin DOMAIN UpdateNodePoolAutoscaling(np, upstream)
      /\ "version" \notin DOMAIN UpdateNodePoolManagement(np, upstream)
      /\ "version" \notin DOMAIN UpdateNodePoolConfig(np, upstream)
  BY <1>1 DEF UpdateNodePoolSize, UpdateNodePoolAutoscaling, UpdateNodePoolManagement,
              UpdateNodePoolConfig
<1>3. PICK i \in 1 .. 5 : request = updates[i]
  BY <1>1, FirstOfPoolUpdates
<1>4. i = 1
  <2> HIDE DEF request, updates
  <2>1. QED
    BY <1>2, <1>3, PoolUpdatesAre DEF request, updates
<1>5. request = UpdateNodePoolKubernetesVersionOrImageType(np, upstream)
  BY <1>3, <1>4, PoolUpdatesAre
<1>6. QED
  BY <1>1, <1>5 DEF UpdateNodePoolKubernetesVersionOrImageType, Given
=============================================================================
