----------------------------- MODULE SharedHandler -----------------------------
(***************************************************************************)
(* The workers of the operator share one Handler, and with it the fields   *)
(* gkeClient and gkeClientCtx: a pass writes both when it begins and reads *)
(* them again at every call into package gke.  A deletion keeps its worker *)
(* while GKE is busy with the cluster.  What a pass asks of GKE is left to *)
(* the other modules; here it is a number of call sites.                   *)
(*                                                                         *)
(* The fields are written and read without a lock.  All their values have  *)
(* one dynamic type and a worker reads only after it has written, so that  *)
(* a read returns a value some worker wrote.                               *)
(***************************************************************************)
EXTENDS Naturals, Sequences, Functions

CONSTANTS
    Nil,
    Cancelled,      \* a context whose pass has ended
    Workers,        \* three of them in main
    Configs,
    Kept,           \* the configs whose clusters stay: imported, or never created
    Credential,     \* the credential that each config names
    Hidden,         \* the configs whose clusters GKE denies to have to another's credential
    CallSites,      \* the calls of a pass into package gke
    backoffSteps    \* the attempts of RemoveCluster

ASSUME SharedHandlerAssumption ==
    /\ Kept \subseteq Configs
    /\ CallSites \in Nat \ {0}
    /\ backoffSteps \in Nat \ {0}
    /\ Nil \notin Workers \cup Configs
    /\ Cancelled \notin Workers
    /\ Hidden \subseteq Configs

VARIABLES
    gkeClient,      \* the credential of the shared client
    gkeClientCtx,   \* the worker whose pass the shared context is of
    queue,          \* the work queue
    waiting,        \* the configs to be queued: events, delays, keys that failed
    life,           \* "live", "deleting" or "gone", per config
    clusters,       \* the configs whose clusters GKE has and does not delete
    busy,           \* those whose clusters have an operation in the way of a deletion
    work            \* the pass of each worker, Nil if idle

vars == << gkeClient, gkeClientCtx, queue, waiting, life, clusters, busy, work >>

Init ==
    /\ gkeClient = Nil
    /\ gkeClientCtx = Nil
    /\ queue = << >>
    /\ waiting = Configs
    /\ life = [c \in Configs |-> "live"]
    /\ clusters = Configs
    /\ busy = {}
    /\ work = [w \in Workers |-> Nil]

Works(w, c) == work[w] # Nil /\ work[w].config = c

At(w, place) == work[w] # Nil /\ work[w].at = place

\* defer cancel(): whoever holds the context of the pass has a cancelled one.
PassEnds(w) ==
    /\ gkeClientCtx' = IF gkeClientCtx = w THEN Cancelled ELSE gkeClientCtx
    /\ work' = [v \in Workers |->
                    IF v = w THEN Nil
                    ELSE IF work[v] # Nil /\ work[v].ctx = w
                    THEN [work[v] EXCEPT !.ctx = Cancelled] ELSE work[v]]
    /\ UNCHANGED << gkeClient, queue >>

PassFails(w) ==
    /\ PassEnds(w)
    /\ waiting' = waiting \cup {work[w].config}
    /\ UNCHANGED << life, clusters, busy >>

\* The finalizer goes, and with it the config.
Released(w) ==
    /\ PassEnds(w)
    /\ life' = [life EXCEPT ![work[w].config] = "gone"]
    /\ UNCHANGED << waiting, busy >>

-----------------------------------------------------------------------------
(* A pass *)

\* OnGkeConfigChanged or OnGkeConfigRemoved begins with a context of its own.
Take(w) ==
    LET c == Head(queue)
    IN  /\ work[w] = Nil
        /\ queue # << >>
        /\ queue' = Tail(queue)
        /\ IF life[c] = "gone" THEN UNCHANGED << gkeClientCtx, work >>
           ELSE /\ gkeClientCtx' = w
                /\ work' = [work EXCEPT ![w] =
                        [config |-> c, at |-> "credential", removing |-> life[c] = "deleting",
                         left |-> CallSites, tries |-> 0, client |-> Nil, ctx |-> Nil]]
        /\ UNCHANGED << gkeClient, waiting, life, clusters, busy >>

\* GetSecret and GetGKEClusterClient.
ClientMade(w) ==
    /\ At(w, "credential")
    /\ gkeClient' = Credential[work[w].config]
    /\ work' = [work EXCEPT ![w].at = "call"]
    /\ UNCHANGED << gkeClientCtx, queue, waiting, life, clusters, busy >>

\* OnGkeConfigRemoved leaves the clusters alone that are imported or not created.
DeletionSkipped(w) ==
    /\ At(w, "call")
    /\ work[w].removing
    /\ work[w].config \in Kept
    /\ Released(w)
    /\ UNCHANGED clusters

\* The context and the client of a call are those of the Handler at that moment.
Call(w) ==
    /\ At(w, "call")
    /\ ~(work[w].removing /\ work[w].config \in Kept)
    /\ work' = [work EXCEPT ![w].at = "answer", ![w].client = gkeClient,
                            ![w].ctx = gkeClientCtx]
    /\ UNCHANGED << gkeClient, gkeClientCtx, queue, waiting, life, clusters, busy >>

Answered(w) ==
    /\ At(w, "answer")
    /\ ~work[w].removing
    /\ work[w].ctx # Cancelled
    /\ IF work[w].left > 1
       THEN /\ work' = [work EXCEPT ![w].at = "call", ![w].left = @ - 1]
            /\ UNCHANGED << gkeClient, gkeClientCtx, queue >>
       ELSE PassEnds(w)
    /\ UNCHANGED << waiting, life, clusters, busy >>

CallCancelled(w) ==
    /\ At(w, "answer")
    /\ work[w].ctx = Cancelled
    /\ PassFails(w)

\* The credential or the call is refused; what GKE or the API server may do.
CallFails(w) ==
    /\ At(w, "credential") \/ At(w, "answer")
    /\ PassFails(w)

-----------------------------------------------------------------------------
(* RemoveCluster *)

Removing(w) == At(w, "answer") /\ work[w].removing /\ work[w].ctx # Cancelled

\* GKE shows the cluster of a config to the client of the call.
Seen(w) ==
    /\ work[w].config \in clusters
    /\ work[w].client # Credential[work[w].config] => work[w].config \notin Hidden

\* GKE begins to delete the cluster.
DeleteAccepted(w) ==
    /\ Removing(w)
    /\ Seen(w)
    /\ work[w].config \notin busy
    /\ clusters' = clusters \ {work[w].config}
    /\ Released(w)

\* The same, but the finalizer stays: the API server refuses to write the config.
DeleteAcceptedOnly(w) ==
    /\ Removing(w)
    /\ Seen(w)
    /\ work[w].config \notin busy
    /\ clusters' = clusters \ {work[w].config}
    /\ PassEnds(w)
    /\ waiting' = waiting \cup {work[w].config}
    /\ UNCHANGED << life, busy >>

\* GKE answers the client that it has no such cluster, which counts as deleted.
DeleteNotFound(w) ==
    /\ Removing(w)
    /\ ~Seen(w)
    /\ Released(w)
    /\ UNCHANGED clusters

\* A slip for the runs to catch: the attempts are not counted.
DeleteWaitsOn(w) ==
    /\ Removing(w)
    /\ Seen(w)
    /\ work[w].config \in busy
    /\ work' = [work EXCEPT ![w].tries = (@ + 1) % backoffSteps]
    /\ UNCHANGED << gkeClient, gkeClientCtx, queue, waiting, life, clusters, busy >>

\* A pending operation stands in the way, and the worker waits for the next attempt.
DeleteWaits(w) ==
    /\ Removing(w)
    /\ Seen(w)
    /\ work[w].config \in busy
    /\ work[w].tries + 1 < backoffSteps
    /\ work' = [work EXCEPT ![w].tries = @ + 1]
    /\ UNCHANGED << gkeClient, gkeClientCtx, queue, waiting, life, clusters, busy >>

\* A slip for the runs to catch: giving up is taken for success.
DeleteEnds(w) ==
    /\ Removing(w)
    /\ Seen(w)
    /\ work[w].config \in busy
    /\ work[w].tries + 1 >= backoffSteps
    /\ Released(w)
    /\ UNCHANGED clusters

\* The last attempt: the error of the wait goes to the queue.
DeleteGivesUp(w) ==
    /\ Removing(w)
    /\ Seen(w)
    /\ work[w].config \in busy
    /\ work[w].tries + 1 >= backoffSteps
    /\ PassFails(w)

-----------------------------------------------------------------------------
(* The work queue, users and GKE *)

\* A key is not queued while a worker has it.
Queue(c) ==
    /\ c \in waiting
    /\ \A w \in Workers : ~Works(w, c)
    /\ waiting' = waiting \ {c}
    /\ queue' = Append(queue, c)
    /\ UNCHANGED << gkeClient, gkeClientCtx, life, clusters, busy, work >>

\* What happened to a config that is queued already makes no second key.
Noticed(c) == waiting' = IF c \in Range(queue) THEN waiting ELSE waiting \cup {c}

Event(c) ==
    /\ life[c] # "gone"
    /\ Noticed(c)
    /\ UNCHANGED << gkeClient, gkeClientCtx, queue, life, clusters, busy, work >>

RequestDelete(c) ==
    /\ life[c] = "live"
    /\ life' = [life EXCEPT ![c] = "deleting"]
    /\ Noticed(c)
    /\ UNCHANGED << gkeClient, gkeClientCtx, queue, clusters, busy, work >>

Operation(c) ==
    /\ c \in clusters \ Kept
    /\ busy' = IF c \in busy THEN busy \ {c} ELSE busy \cup {c}
    /\ UNCHANGED << gkeClient, gkeClientCtx, queue, waiting, life, clusters, work >>

-----------------------------------------------------------------------------
Pass(w) ==
    \/ Take(w) \/ ClientMade(w) \/ DeletionSkipped(w) \/ Call(w) \/ Answered(w)
    \/ CallCancelled(w) \/ DeleteAccepted(w) \/ DeleteNotFound(w) \/ DeleteWaits(w)
    \/ DeleteGivesUp(w)

Next ==
    \/ \E w \in Workers : Pass(w) \/ CallFails(w) \/ DeleteAcceptedOnly(w)
    \/ \E c \in Configs : Queue(c) \/ Event(c) \/ RequestDelete(c) \/ Operation(c)

Spec == Init /\ [][Next]_vars

\* Workers run and the delays of the queue end; GKE need never end an operation.
FairSpec ==
    /\ Spec
    /\ \A w \in Workers : WF_vars(Pass(w))
    /\ \A c \in Configs : WF_vars(Queue(c))

-----------------------------------------------------------------------------
(* Properties *)

\* A config is let go only when GKE has been told to delete its cluster, also when
\* another pass lent its client or took away its context half-way.  This is not so
\* where GKE answers "not found", which RemoveCluster takes for done, to a client
\* that another config lent.
ReleasedMeansDeleted ==
    \A c \in Configs \ (Kept \cup Hidden) : life[c] = "gone" => c \notin clusters

\* A config for which something happened gets a pass from its beginning, also one
\* that is in a worker's hands, and also while GKE never ends the operations that
\* stand in the way of the deletions that every worker is busy with.
EventuallyServed ==
    \A c \in Configs :
        c \in waiting ~> life[c] = "gone" \/ \E w \in Workers : Works(w, c) /\ At(w, "credential")

\* The calls for a config are made with "the secret containing Google credentials"
\* that it names (types.go).
CallsUseOwnCredential ==
    \A w \in Workers : At(w, "answer") =>
        work[w].client = Credential[work[w].config]
=============================================================================
