--------------------------- MODULE FederatedCluster ---------------------------
(***************************************************************************)
(* The life of a member cluster: the federated cluster controller joins    *)
(* it, collects its status and cleans up after it, the federated informer  *)
(* manager keeps a client for it while it is joined, and the sync          *)
(* controller puts objects into it and deletes them again before it goes   *)
(* (cascading deletion).                                                   *)
(*                                                                         *)
(* There is one FederatedCluster name; a deleted one may be created again, *)
(* with a new uid.  In the member cluster there is the system namespace,   *)
(* with the uid of the FederatedCluster it was created for, and the        *)
(* objects of the federation.                                              *)
(***************************************************************************)
EXTENDS Integers, FiniteSets

CONSTANTS
    Kinds,       \* what FederatedClusters specify: cascading deletion, a service account token
    MaxUids,     \* bound on FederatedClusters created
    MaxEvents    \* bound on FederatedClusters created or deleted, other control planes that come
                 \* or leave, failing requests, restarts and outages of the member cluster

ASSUME KindsAssumption == Kinds \subseteq [cascade : BOOLEAN, useToken : BOOLEAN]
ASSUME BoundsAssumption == MaxUids \in Nat \ {0} /\ MaxEvents \in Nat

VARIABLES
    api,         \* the FederatedCluster in the API server, or None
    cached,      \* the copy in the informer
    fresh,       \* the copy has the latest resource version
    uids,        \* FederatedClusters created so far
    ns, nsSeen,  \* whose system namespace the member cluster has, and has in its watch cache
    objs, shown, \* objects of the federation in the member cluster, and whether a list shows them
    reach,       \* the member cluster answers
    token,       \* the cluster's secret has the service account token
    queued, run, \* the worker of the controller: its key and its reconcile
    collectQueued, collect, \* the worker that collects the status
    saved,       \* clusterStatusCache
    late,        \* the join timeout has passed since the join first failed
    client,      \* the informer manager has a client for the cluster
    cascadeQueued, \* the sync controller's worker for clusters
    clobbered,   \* history: a write replaced what it had not seen
    events       \* events so far, the creation of FederatedClusters apart

member == <<ns, nsSeen, objs, shown, reach, token>>
ctl == <<queued, run>>
status == <<collectQueued, collect, saved>>
bounds == <<uids, events>>
vars == <<api, cached, fresh, member, ctl, status, late, client, cascadeQueued, clobbered, bounds>>

None == [none |-> TRUE]

(* Whose the system namespace may be, besides a FederatedCluster's: that   *)
(* of a control plane that was there before us, or of one that came later. *)
Nobody == 0
Other == -1
Newcomer == -2
Others == {Other, Newcomer}

Own == "federatedcluster-controller"
Cascading == "cascading-delete"

isClusterJoined(c) == c.joined = "true"
JoinFailed(c) == c.joined \in {"JoinTimeoutExceeded", "ClusterUnjoinable"}

-----------------------------------------------------------------------------
(* Writes of the FederatedCluster.  A deleted one goes with its last       *)
(* finalizer; a reconcile that holds an older copy will conflict.          *)
Stored(c) == IF c # None /\ c.deleting /\ c.finalizers = {} THEN None ELSE c

Write(c) == api' = Stored(c) /\ fresh' = FALSE

Outdated == run' = IF run = None THEN None ELSE [run EXCEPT !.fresh = FALSE]

Retry == run' = None /\ queued' = TRUE

(* Nothing is claimed once a write has hit what it was not meant for, and  *)
(* the environment stops there.                                            *)
Eventful == ~clobbered /\ uids + events < MaxEvents

Event == Eventful /\ events' = events + 1

-----------------------------------------------------------------------------
(* The controller: reconcile. *)

(* What reconcile goes on to do with the cluster it has. *)
Plan(c) ==
    IF c.deleting
    THEN IF c.finalizers # {Own} THEN "done" ELSE IF c.performed THEN "cleanup" ELSE "finalize"
    ELSE IF isClusterJoined(c) \/ JoinFailed(c) THEN "done"
    ELSE IF c.joined = "false" /\ late THEN "timeout" ELSE "look"

(* ensureFinalizer writes the copy, and reconcile goes on with the result. *)
Reconcile ==
    /\ queued /\ run = None
    /\ LET adds == cached # None /\ ~cached.deleting /\ Own \notin cached.finalizers
           c    == IF adds THEN [cached EXCEPT !.finalizers = @ \cup {Own}] ELSE cached
       IN /\ queued' = (adds /\ ~fresh)
          /\ run' = IF queued' \/ c = None \/ Plan(c) = "done" THEN None
                    ELSE [step |-> Plan(c), uid |-> c.uid, useToken |-> c.useToken, joined |-> c.joined,
                          performed |-> c.performed, fresh |-> fresh, error |-> FALSE]
          /\ IF adds /\ fresh THEN Write(c) ELSE UNCHANGED <<api, fresh>>
    /\ UNCHANGED <<cached, member, status, late, client, cascadeQueued, clobbered, bounds>>

(* Mutant: that something was made in the member cluster is not noted. *)
ConcludeUnrecorded(joined, performed, error) ==
    run' = [run EXCEPT !.step = "update", !.joined = joined, !.error = error]

(* The join attempt ends with this status, which is written next. *)
Conclude(joined, performed, error) ==
    run' = [run EXCEPT !.step = "update", !.joined = joined, !.performed = performed, !.error = error]

JoinTimeout ==
    /\ run # None /\ run.step = "timeout"
    /\ Conclude("JoinTimeoutExceeded", run.performed, FALSE)
    /\ UNCHANGED <<api, cached, fresh, member, queued, status, late, client, cascadeQueued, clobbered, bounds>>

(* The system namespace in the member cluster tells who manages it.  A Get *)
(* of resource version "0" is answered from the watch cache.               *)
JoinLook ==
    /\ run # None /\ run.step = "look"
    /\ IF ~reach THEN Conclude("false", run.performed, TRUE)
       ELSE IF nsSeen \notin {Nobody, run.uid} THEN Conclude("ClusterUnjoinable", FALSE, FALSE)
       ELSE run' = [run EXCEPT !.step = IF nsSeen = Nobody THEN "create" ELSE "grant"]
    /\ UNCHANGED <<api, cached, fresh, member, queued, status, late, client, cascadeQueued, clobbered, bounds>>

(* Mutant: that there is one by now is taken for success. *)
JoinCreateBlind ==
    /\ run # None /\ run.step = "create"
    /\ IF reach
       THEN ns' = (IF ns = Nobody THEN run.uid ELSE ns) /\ run' = [run EXCEPT !.step = "grant"]
       ELSE UNCHANGED ns /\ Conclude("false", TRUE, TRUE)
    /\ UNCHANGED <<api, cached, fresh, nsSeen, objs, shown, reach, token, queued, status, late, client,
                   cascadeQueued, clobbered, bounds>>

(* The namespace is created, which is refused when there is one by now,    *)
(* and may fail with and without effect.  In every case a join counts as   *)
(* performed.                                                              *)
JoinCreate ==
    /\ run # None /\ run.step = "create"
    /\ \/ /\ reach /\ ns = Nobody
          /\ ns' = run.uid
          /\ run' = [run EXCEPT !.step = "grant"]
          /\ UNCHANGED events
       \/ /\ reach /\ ns = Nobody /\ Event
          /\ ns' \in {ns, run.uid}
          /\ Conclude("false", TRUE, TRUE)
       \/ /\ ~reach \/ ns # Nobody
          /\ Conclude("false", TRUE, TRUE)
          /\ UNCHANGED <<ns, events>>
    /\ UNCHANGED <<api, cached, fresh, nsSeen, objs, shown, reach, token, queued, status, late, client,
                   cascadeQueued, clobbered, uids>>

(* The service account and its token. *)
getAndSaveClusterToken == token \/ run.useToken

JoinGrant ==
    /\ run # None /\ run.step = "grant"
    /\ \/ /\ reach \/ ~run.useToken
          /\ token' = getAndSaveClusterToken
          /\ Conclude("true", TRUE, FALSE)
          /\ UNCHANGED events
       \/ /\ reach /\ run.useToken /\ Event
          /\ token' \in {token, getAndSaveClusterToken}
          /\ Conclude("false", TRUE, TRUE)
       \/ /\ ~reach /\ run.useToken
          /\ Conclude("false", TRUE, TRUE)
          /\ UNCHANGED <<token, events>>
    /\ UNCHANGED <<api, cached, fresh, ns, nsSeen, objs, shown, reach, queued, status, late, client,
                   cascadeQueued, clobbered, uids>>

(* The status update, which conflicts when the copy was outdated. *)
JoinUpdate ==
    /\ run # None /\ run.step = "update"
    /\ run' = None
    /\ queued' = (queued \/ ~run.fresh \/ run.error)
    /\ IF run.fresh
       THEN /\ Write([api EXCEPT !.joined = run.joined, !.performed = run.performed])
            /\ late' = (late /\ (api.joined = "false" \/ run.joined # "false"))
            /\ collectQueued' = (collectQueued \/ isClusterJoined(run))
       ELSE UNCHANGED <<api, fresh, late, collectQueued>>
    /\ UNCHANGED <<cached, member, collect, saved, client, cascadeQueued, clobbered, bounds>>

(* Without the bootstrap credentials a client takes the token. *)
getClusterClient == run.useToken => token

(* handleTerminatingCluster: the token is taken out of the secret, then    *)
(* the namespace is deleted, with a client that was made with the token.   *)
Cleanup ==
    /\ run # None /\ run.step = "cleanup"
    /\ IF ~getClusterClient THEN Retry /\ UNCHANGED member
       ELSE /\ token' = (token /\ ~run.useToken)
            /\ IF reach THEN ns' = Nobody /\ run' = [run EXCEPT !.step = "finalize"] /\ UNCHANGED queued
               ELSE Retry /\ UNCHANGED ns
            /\ UNCHANGED <<nsSeen, objs, shown, reach>>
    /\ UNCHANGED <<api, cached, fresh, status, late, client, cascadeQueued, clobbered, bounds>>

(* On a conflict the latest FederatedCluster of the name is fetched, and   *)
(* that one loses its finalizers.                                          *)
Finalize ==
    /\ run # None /\ run.step = "finalize"
    /\ IF api = None THEN Retry /\ UNCHANGED <<api, fresh, clobbered>>
       ELSE /\ Write([api EXCEPT !.finalizers = {}]) /\ run' = None
            /\ clobbered' = (clobbered \/ api.uid # run.uid)
            /\ UNCHANGED queued
    /\ UNCHANGED <<cached, member, status, late, client, cascadeQueued, bounds>>

(* A write fails. *)
WriteFails ==
    /\ run # None /\ run.step \in {"update", "finalize"} /\ Event
    /\ Retry
    /\ UNCHANGED <<api, cached, fresh, member, status, late, client, cascadeQueued, clobbered, uids>>

-----------------------------------------------------------------------------
(* The status of the member cluster: collectClusterStatus. *)

(* Every period, and after a join, from the copy in the informer. *)
CollectBegin ==
    /\ collect = None
    /\ collectQueued \/ (cached # None /\ isClusterJoined(cached))
    /\ collectQueued' = FALSE
    /\ collect' = IF cached = None THEN None ELSE [joined |-> cached.joined, performed |-> cached.performed, ready |-> cached.ready,
                                                 probed |-> FALSE]
    /\ UNCHANGED <<api, cached, fresh, member, ctl, saved, late, client, cascadeQueued, clobbered, bounds>>

(* Mutant: a change is believed only once it has lasted for ever. *)
adjustNever(cur, observed) ==
    [ready |-> IF cur = "none" THEN observed ELSE cur, saved |-> saved]

(* A change of the observed status is believed once it has lasted; after a *)
(* restart the last known status counts first.                             *)
thresholdAdjustedStatusCondition(cur, observed) ==
    LET known == IF saved = None THEN [ready |-> IF cur = "none" THEN observed ELSE cur, ripe |-> TRUE]
                 ELSE IF cur # "none" /\ saved.ready # observed THEN [ready |-> observed, ripe |-> FALSE]
                 ELSE saved
    IN [saved |-> known,
        ready |-> IF cur # "none" /\ (saved = None \/ ~known.ripe) THEN cur ELSE observed]

CollectProbe ==
    /\ collect # None /\ ~collect.probed
    /\ IF ~client THEN collectQueued' = TRUE /\ collect' = None /\ UNCHANGED saved
       ELSE LET t == thresholdAdjustedStatusCondition(collect.ready, IF reach THEN "yes" ELSE "no")
            IN /\ collect' = [collect EXCEPT !.ready = t.ready, !.probed = TRUE]
               /\ saved' = t.saved
               /\ UNCHANGED collectQueued
    /\ UNCHANGED <<api, cached, fresh, member, ctl, late, client, cascadeQueued, clobbered, bounds>>

(* The whole status is written over that of the latest FederatedCluster. *)
CollectWrite ==
    /\ collect # None /\ collect.probed
    /\ collect' = None
    /\ IF api = None THEN collectQueued' = TRUE /\ UNCHANGED <<api, fresh, run, clobbered>>
       ELSE LET c == [api EXCEPT !.joined = collect.joined, !.performed = collect.performed,
                                 !.ready = collect.ready]
            IN /\ Write(c) /\ Outdated
               /\ clobbered' = (clobbered \/ c.joined # api.joined \/ c.performed # api.performed)
               /\ UNCHANGED collectQueued
    /\ UNCHANGED <<cached, member, queued, saved, late, client, cascadeQueued, bounds>>

(* Time passes. *)
Ripen ==
    /\ saved # None /\ ~saved.ripe
    /\ saved' = [saved EXCEPT !.ripe = TRUE]
    /\ UNCHANGED <<api, cached, fresh, member, ctl, collectQueued, collect, late, client, cascadeQueued,
                   clobbered, bounds>>

TimeOut ==
    /\ ~late /\ api # None /\ api.joined = "false"
    /\ late' = TRUE
    /\ UNCHANGED <<api, cached, fresh, member, ctl, status, client, cascadeQueued, clobbered, bounds>>

(* The federated informer manager, which follows the same informer. *)
processCluster ==
    LET wants == cached # None /\ isClusterJoined(cached)
    IN /\ client # wants
       /\ wants => (cached.useToken => token)
       /\ client' = wants
       /\ UNCHANGED <<api, cached, fresh, member, ctl, status, late, cascadeQueued, clobbered, bounds>>

-----------------------------------------------------------------------------
(* The sync controller. *)

(* Mutant: the finalizer is not waited for. *)
SyncsUnguarded(c) == ~c.deleting /\ isClusterJoined(c) /\ c.ready = "yes" /\ client

(* syncToClusters: an object goes to a cluster that is joined, ready, not  *)
(* on its way out, and has the finalizer.                                  *)
Syncs(c) == ~c.deleting /\ Cascading \in c.finalizers /\ isClusterJoined(c) /\ c.ready = "yes" /\ client

(* An object that arrives after the FederatedCluster was deleted may stay. *)
SyncObject ==
    /\ cached # None /\ Syncs(cached) /\ reach /\ objs # "ours"
    /\ objs' = IF api # None /\ ~api.deleting THEN "ours" ELSE "left"
    /\ UNCHANGED <<api, cached, fresh, ns, nsSeen, shown, reach, token, ctl, status, late, client,
                   cascadeQueued, clobbered, bounds>>

(* cascadingDeletionForFTC deletes the objects that a list shows: that of  *)
(* the informer, or of the watch cache until the informer has synced.      *)
Empties(c) == isClusterJoined(c) /\ c.cascade

Emptied == IF shown THEN "none" ELSE IF objs = "ours" THEN "missed" ELSE objs

(* The cluster need not be emptied, or it is ready and its objects can be  *)
(* listed and deleted.                                                     *)
CascadeDone(c) == Empties(c) => c.ready = "yes" /\ client /\ (shown => reach)

(* reconcileClusterForCascadingDeletion, until it has succeeded. *)
Cascade ==
    /\ cascadeQueued
    /\ \/ /\ cached = None
          /\ UNCHANGED <<api, fresh, run, objs>>
       \/ /\ cached # None /\ ~cached.deleting
          /\ api # None /\ (~api.deleting \/ Cascading \in api.finalizers)
          /\ IF Cascading \in api.finalizers THEN UNCHANGED <<api, fresh, run>>
             ELSE Write([api EXCEPT !.finalizers = @ \cup {Cascading}]) /\ Outdated
          /\ UNCHANGED objs
       \/ /\ cached # None /\ cached.deleting /\ CascadeDone(cached)
          /\ objs' = IF Empties(cached) THEN Emptied ELSE objs
          /\ IF api = None \/ Cascading \notin api.finalizers THEN UNCHANGED <<api, fresh, run>>
             ELSE Write([api EXCEPT !.finalizers = @ \ {Cascading}]) /\ Outdated
    /\ cascadeQueued' = FALSE
    /\ UNCHANGED <<cached, ns, nsSeen, shown, reach, token, queued, status, late, client, clobbered, bounds>>

(* A list, a deletion or the removal of the finalizer fails, and it is all *)
(* done again.                                                             *)
CascadeFails ==
    /\ cascadeQueued /\ cached # None /\ cached.deleting /\ Empties(cached) /\ CascadeDone(cached) /\ Event
    /\ objs' \in {objs, IF shown THEN "none" ELSE objs}
    /\ UNCHANGED <<api, cached, fresh, ns, nsSeen, shown, reach, token, ctl, status, late, client,
                   cascadeQueued, clobbered, uids>>

-----------------------------------------------------------------------------
(* The environment. *)

(* The informers deliver every change to the controller, and creation and  *)
(* deletion to the sync controller.                                        *)
Deliver ==
    /\ ~fresh
    /\ cached' = api /\ fresh' = TRUE
    /\ queued' = TRUE
    /\ cascadeQueued' = (cascadeQueued \/
          /\ api # None
          /\ cached = None \/ cached.uid # api.uid \/ (api.deleting /\ ~cached.deleting))
    /\ UNCHANGED <<api, member, run, status, late, client, clobbered, bounds>>

Register ==
    /\ api = None /\ uids < MaxUids /\ Eventful
    /\ uids' = uids + 1 /\ late' = FALSE
    /\ \E kind \in Kinds :
        Write([uid |-> uids', joined |-> "none", performed |-> FALSE, ready |-> "none", deleting |-> FALSE,
               finalizers |-> {}, cascade |-> kind.cascade, useToken |-> kind.useToken])
    /\ objs' = IF objs \in {"ours", "missed"} THEN "left" ELSE objs
    /\ Outdated
    /\ UNCHANGED <<cached, ns, nsSeen, shown, reach, token, queued, status, client, cascadeQueued,
                   clobbered, events>>

Delete ==
    /\ api # None /\ ~api.deleting /\ Event
    /\ Write([api EXCEPT !.deleting = TRUE]) /\ Outdated
    /\ objs' = IF objs = "ours" /\ ~api.cascade THEN "left" ELSE objs
    /\ UNCHANGED <<cached, ns, nsSeen, shown, reach, token, queued, status, late, client, cascadeQueued,
                   clobbered, uids>>

(* The member cluster goes down or comes back, another control plane takes *)
(* it, if no one has it, or leaves it.                                     *)
ChangeMember ==
    /\ \/ reach /\ Event /\ reach' = FALSE /\ UNCHANGED ns
       \/ ~reach /\ reach' = TRUE /\ UNCHANGED <<ns, events>>
       \/ ns = Nobody /\ Event /\ ns' = Newcomer /\ UNCHANGED reach
       \/ ns \in Others /\ Event /\ ns' = Nobody /\ UNCHANGED reach
    /\ UNCHANGED <<api, cached, fresh, nsSeen, objs, shown, token, ctl, status, late, client, cascadeQueued,
                   clobbered, uids>>

(* The watch cache of the member cluster's API server, and the sync        *)
(* controller's informer of its objects, follow.                           *)
Watch ==
    /\ nsSeen # ns
    /\ nsSeen' = ns
    /\ UNCHANGED <<api, cached, fresh, ns, objs, shown, reach, token, ctl, status, late, client,
                   cascadeQueued, clobbered, bounds>>

Show ==
    /\ shown # (objs # "none") /\ reach
    /\ shown' = (objs # "none")
    /\ UNCHANGED <<api, cached, fresh, ns, nsSeen, objs, reach, token, ctl, status, late, client,
                   cascadeQueued, clobbered, bounds>>

(* After a restart the informers see everything as new. *)
Restart ==
    /\ Event
    /\ cached' = api /\ fresh' = TRUE
    /\ queued' = (api # None) /\ run' = None
    /\ collectQueued' = FALSE /\ collect' = None /\ saved' = None
    /\ client' = FALSE
    /\ cascadeQueued' = (api # None)
    /\ UNCHANGED <<api, member, late, clobbered, uids>>

-----------------------------------------------------------------------------
Init ==
    /\ api = None /\ cached = None /\ fresh = TRUE
    /\ uids = 0
    /\ ns \in {Nobody, Other} /\ nsSeen = ns /\ objs = "none" /\ shown = FALSE
    /\ reach = TRUE /\ token = FALSE
    /\ queued = FALSE /\ run = None
    /\ collectQueued = FALSE /\ collect = None /\ saved = None
    /\ late = FALSE /\ client = FALSE /\ cascadeQueued = FALSE /\ clobbered = FALSE
    /\ events = 0

Work ==
    \/ Reconcile \/ JoinTimeout \/ JoinLook \/ JoinCreate \/ JoinGrant \/ JoinUpdate
    \/ Cleanup \/ Finalize

Collect == CollectBegin \/ CollectProbe \/ CollectWrite

Next ==
    \/ Work \/ WriteFails \/ Collect \/ Ripen \/ TimeOut \/ processCluster
    \/ SyncObject \/ Cascade \/ CascadeFails
    \/ Deliver \/ Watch \/ Show \/ Register \/ Delete \/ ChangeMember \/ Restart

Fairness ==
    /\ WF_vars(Work) /\ WF_vars(Collect) /\ WF_vars(Ripen) /\ WF_vars(processCluster)
    /\ WF_vars(Cascade) /\ WF_vars(Deliver) /\ WF_vars(Watch) /\ WF_vars(Show)

Spec == Init /\ [][Next]_vars /\ Fairness

-----------------------------------------------------------------------------
(* Properties. *)

IsCluster(c) ==
    /\ c.uid \in 1..MaxUids
    /\ c.joined \in {"none", "false", "true", "JoinTimeoutExceeded", "ClusterUnjoinable"}
    /\ c.ready \in {"none", "yes", "no"} /\ c.finalizers \subseteq {Own, Cascading}
    /\ isClusterJoined(c) => c.performed

(* Copies are older versions of the same cluster or of a former one; a     *)
(* deleted one is held by a finalizer; what is joined was joined by us.    *)
TypeOK ==
    /\ api = None \/ (IsCluster(api) /\ (api.deleting => api.finalizers # {}))
    /\ cached = None \/ (IsCluster(cached) /\ cached.uid <= uids)
    /\ fresh => cached = api
    /\ run = None \/ (run.fresh => run.uid = api.uid)
    /\ {ns, nsSeen} \subseteq Others \cup 0..uids /\ objs \in {"none", "ours", "left", "missed"}

(* A joined cluster is one whose system namespace carries its uid, though  *)
(* others may take the member cluster between the look at the namespace    *)
(* and its creation and the look may be at an old one; and a control plane *)
(* that had the member cluster before us keeps its namespace, through      *)
(* races of joining, deleting, creating again and restarting.  (As long as *)
(* neither a collected status nor the removal of finalizers was written    *)
(* over a newer version: see clobbered.)                                   *)
NamespaceOwned ==
    /\ [](~clobbered /\ api # None /\ isClusterJoined(api) /\ ~api.deleting => ns = api.uid)
    /\ [][Work /\ ns = Other => ns' = Other]_vars

(* What the comments say of every other control plane: the clean-up only   *)
(* takes away what a join has made, so nobody else's namespace.  It takes  *)
(* that of one that came between the look and the creation.                *)
OthersKept == [][Work /\ ns \in Others => ns' = ns]_vars

(* With cascading deletion, an object that was put into the cluster before *)
(* the cluster was deleted does not outlive the cluster there, nor the     *)
(* credentials that are needed to delete it: sync waits for the finalizer, *)
(* the controller for the other finalizers.  The exception is an object    *)
(* that the list of the cascading deletion does not show yet: once that    *)
(* list is through it is "missed", and the code has forgotten it.          *)
NoneStranded ==
    objs = "ours" /\ ~clobbered => api # None /\ ns = api.uid

(* The secret has lost the token that the next attempt of the clean-up     *)
(* needs.                                                                  *)
DeadEnd == api # None /\ api.deleting /\ api.performed /\ api.useToken /\ ~token

Settled ==
    \/ api = None \/ ~reach \/ DeadEnd \/ clobbered
    \/ ~api.deleting /\ JoinFailed(api)
    \/ ~api.deleting /\ isClusterJoined(api) /\ api.ready = "yes" /\ api.finalizers = {Own, Cascading}

(* A cluster ends up joined and ready, or failed to join; a deleted one    *)
(* goes, unless its member cluster does not answer (or its token is lost). *)
Settles == <>[]Settled
=============================================================================
