-------------------------- MODULE SharedHandlerProofs --------------------------
(***************************************************************************)
(* However the workers get into each other's way, a config is let go only  *)
(* when GKE has been told to delete its cluster.                           *)
(***************************************************************************)
EXTENDS SharedHandler, TLAPS

Inv ==
    /\ life \in [Configs -> {"live", "deleting", "gone"}]
    /\ ReleasedMeansDeleted

\* Steps that let no config go and delete no cluster.
LEMMA NothingReleased ==
    ASSUME Inv, life' \in [Configs -> {"live", "deleting", "gone"}],
           \A c \in Configs : life'[c] = "gone" => life[c] = "gone",
           clusters' \subseteq clusters
    PROVE  Inv'
  BY DEF Inv, ReleasedMeansDeleted

\* The invariant holds at first and every step of Next keeps it.
LEMMA InvInductive == (Init => Inv) /\ (Inv /\ [Next]_vars => Inv')
<1>1. Init => Inv
  BY DEF Init, Inv, ReleasedMeansDeleted
<1>2. ASSUME Inv, [Next]_vars PROVE Inv'
  <2>1. ASSUME NEW w \in Workers, DeletionSkipped(w) PROVE Inv'
    <3>1. clusters' = clusters /\ work[w].config \in Kept
          /\ life' = [life EXCEPT ![work[w].config] = "gone"]
      BY <2>1 DEF DeletionSkipped, Released
    <3>2. QED
      BY <1>2, <3>1 DEF Inv, ReleasedMeansDeleted
  <2>2. ASSUME NEW w \in Workers, DeleteAccepted(w) PROVE Inv'
    <3>1. clusters' = clusters \ {work[w].config}
          /\ life' = [life EXCEPT ![work[w].config] = "gone"]
      BY <2>2 DEF DeleteAccepted, Released
    <3>2. QED
      BY <1>2, <3>1 DEF Inv, ReleasedMeansDeleted
  <2>3. ASSUME NEW w \in Workers, DeleteNotFound(w) PROVE Inv'
    <3>1. clusters' = clusters /\ (work[w].config \notin clusters \/ work[w].config \in Hidden)
          /\ life' = [life EXCEPT ![work[w].config] = "gone"]
      BY <2>3 DEF DeleteNotFound, Seen, Released
    <3>2. QED
      BY <1>2, <3>1 DEF Inv, ReleasedMeansDeleted
  <2>4. ASSUME NEW w \in Workers, DeleteAcceptedOnly(w) PROVE Inv'
    <3>1. clusters' \subseteq clusters /\ life' = life
      BY <2>4 DEF DeleteAcceptedOnly
    <3>2. QED
      BY <1>2, <3>1, NothingReleased DEF Inv
  <2>5. ASSUME NEW c \in Configs, RequestDelete(c) PROVE Inv'
    <3>1. life' = [life EXCEPT ![c] = "deleting"] /\ clusters' = clusters
      BY <2>5 DEF RequestDelete
    <3>2. QED
      BY <1>2, <3>1, NothingReleased DEF Inv
  <2>6. CASE UNCHANGED << life, clusters >>
    BY <1>2, <2>6, NothingReleased DEF Inv
  <2>7. ASSUME NEW w \in Workers, Pass(w) \/ CallFails(w),
               ~DeletionSkipped(w), ~DeleteAccepted(w), ~DeleteNotFound(w)
        PROVE  UNCHANGED << life, clusters >>
    BY <2>7 DEF Pass, CallFails, Take, ClientMade, Call, Answered, CallCancelled, DeleteWaits,
                DeleteGivesUp, PassFails
  <2>8. ASSUME NEW c \in Configs, Queue(c) \/ Event(c) \/ Operation(c)
        PROVE  UNCHANGED << life, clusters >>
    BY <2>8 DEF Queue, Event, Operation
  <2>9. CASE UNCHANGED vars
    BY <2>6, <2>9 DEF vars
  <2>10. QED
    BY <1>2, <2>1, <2>2, <2>3, <2>4, <2>5, <2>6, <2>7, <2>8, <2>9 DEF Next
<1>3. QED
  BY <1>1, <1>2

\* OnGkeConfigRemoved lets no config go whose cluster GKE was not told to delete,
\* whatever number of workers shares the Handler and however often they try, but for
\* clusters that GKE denies to have to the client another config lent.
THEOREM Releases == Spec => []ReleasedMeansDeleted
<1>1. Inv => ReleasedMeansDeleted
  BY DEF Inv
<1>2. QED
  BY <1>1, InvInductive, PTL DEF Spec
=============================================================================
