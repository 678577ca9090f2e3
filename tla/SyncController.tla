---------------------------- MODULE SyncController ----------------------------
(***************************************************************************)
(* The sync controller (pkg/controllers/sync) for one federated object: it *)
(* propagates the object to the member clusters of its placement, keeps    *)
(* the record of where it has been propagated in status.clusters, and on   *)
(* deletion removes or orphans the member objects before it gives up its   *)
(* finalizer.                                                              *)
(*                                                                         *)
(* Every read of the controller goes through an informer cache (fedCache,  *)
(* memberCache), every write through an API server that refuses a write    *)
(* made from an old resourceVersion.  An object carries no resourceVersion *)
(* here: a copy is current when it equals the stored object, for the retry *)
(* of a write refused after an A-B-A change writes the same thing.         *)
(*                                                                         *)
(* Abstracted: the template is the generation it was read at; overrides    *)
(* and the version manager, which only skips an Update that would change   *)
(* nothing; the retain-terminating-object finalizer of Jobs and Pods;      *)
(* derived Services; the Propagation condition.  Every cluster stays       *)
(* joined.  The bookkeeping of one dispatch round is ManagedDispatcher.    *)
(***************************************************************************)
EXTENDS Integers, FiniteSets

CONSTANTS
    Clusters,
    MaxGen,      \* bound: generations of the federated object
    MaxEvents,   \* bound: crashes, and events in clusters that nobody here controls
    MaxLate,     \* bound: operations left behind by rounds that timed out
    FedKinds,    \* annotations a federated object may have, a subset of AllFedKinds
    Faults       \* what the environment may do, a subset of AllFaults

AllFaults == {"fedLag", "memberLag", "timeout", "unready", "crash", "failure",
              "lostReply", "clusterDeleted", "memberUser"}

(* mode: whether the object is a dry run, or an HPA that works centrally; orphan: the
   orphaning behaviour; adopt: whether preexisting resources are adopted. *)
AllFedKinds == [mode : {"normal", "dryRun", "centralizedHPA"},
                orphan : {"none", "adopted", "all"}, adopt : BOOLEAN]

ASSUME SyncAssumption ==
    /\ MaxGen \in Nat \ {0} /\ MaxEvents \in Nat /\ MaxLate \in Nat
    /\ FedKinds \subseteq AllFedKinds
    /\ Faults \subseteq AllFaults

None == "none"

(* A cluster with status None has no entry in status.clusters.  "Failed" stands for
   every error of an operation, "NotSynced" for ClusterNotReady, ClusterTerminating
   and CachedRetrievalFailed, which the controller records without an operation. *)
Status == {None, "PendingCreate", "OK", "WaitingForRemoval", "WaitingForCascadingDeletion",
           "NotSynced", "FinalizerCheckFailed", "Failed"}

NoObject == [exists |-> FALSE, managed |-> FALSE, adopted |-> FALSE, deleting |-> FALSE, gen |-> 0]
UserObject == [NoObject EXCEPT !.exists = TRUE]

NoStatus == [c \in Clusters |-> None]
NoFed == [exists |-> FALSE, deleting |-> FALSE, finalizer |-> FALSE, pending |-> FALSE,
          gen |-> 0, placement |-> {}, status |-> NoStatus, syncedGen |-> 0,
          kind |-> [mode |-> "normal", orphan |-> "none", adopt |-> FALSE]]

(* What is left of a federated object once it is gone. *)
Gone(o) == [NoFed EXCEPT !.kind = o.kind]

VARIABLES
    fed,           \* the federated object in the API server
    fedCache,      \* its copy in the informer cache
    cluster,       \* the FederatedClusters, as the cluster lister shows them
    member,        \* per cluster: the target object in the member cluster
    memberCache,   \* per cluster: the informer cache, which holds managed objects only
    unseen,        \* clusters with events the informer has not delivered
    queued,        \* the object's key is in the worker's queue
    pc,            \* where reconcile is
    obj,           \* fedResource.Object()
    template,      \* fedResource.template: the generation it was read at.  Like the
                   \* next two it is not looked at once the operations are started
    selected,      \* selectedClusters
    requireSync,   \* clustersToSync
    listed,        \* the FederatedClusters as prepareToSync listed them
    collected,     \* the statuses of this round
    ops,           \* operations of this round that are not finished
    late,          \* operations of rounds that timed out: nobody waits for them
    events         \* counts against MaxEvents

vars == <<fed, fedCache, cluster, member, memberCache, unseen, queued, pc, obj, template, selected,
          requireSync, listed, collected, ops, late, events>>

local == <<obj, template, selected, requireSync, listed, collected>>

world == <<cluster, events>>

(* The clusters to begin with, and in place of the copies reconcile has no more use for. *)
Unlisted ==
    [c \in Clusters |-> [ready |-> TRUE, deleting |-> FALSE, cascade |-> FALSE, finalizer |-> FALSE]]

(* What reconcile knew is forgotten when it returns. *)
Forget ==
    /\ obj' = NoFed /\ template' = 0 /\ selected' = {} /\ requireSync' = {}
    /\ listed' = Unlisted /\ collected' = NoStatus

Init ==
    /\ fed \in [exists : {TRUE}, deleting : {FALSE}, finalizer : {FALSE}, pending : {FALSE},
                gen : {1}, placement : SUBSET Clusters, status : {NoStatus}, syncedGen : {0},
                kind : FedKinds]
    /\ fedCache = fed
    /\ cluster = Unlisted
    /\ member \in [Clusters -> {NoObject, UserObject}]
    /\ memberCache = [c \in Clusters |-> NoObject]
    /\ unseen = {}
    /\ queued = TRUE
    /\ pc = "idle"
    /\ obj = NoFed /\ template = 0 /\ selected = {} /\ requireSync = {} /\ listed = Unlisted
    /\ collected = NoStatus
    /\ ops = {} /\ late = {}
    /\ events = 0

(* What the informer of a member cluster would show now. *)
Managed(c) == IF member[c].managed THEN member[c] ELSE NoObject

(* Without lag, reconcile meets caches that are up to date. *)
FedFresh == "fedLag" \in Faults \/ fedCache = fed
MemberFresh == "memberLag" \in Faults \/ unseen = {}

(* The object in cluster c becomes o. *)
Store(c, o) ==
    /\ member' = [member EXCEPT ![c] = o]
    /\ unseen' = unseen \cup {c}

Recorded(o) == {c \in Clusters : o.status[c] # None}

(* reconcile returns; again says whether the key is put back (StatusError,
   StatusConflict or a RequeueAfter).  A key added meanwhile stays. *)
Return(again) ==
    /\ pc' = "idle"
    /\ queued' = (queued \/ again)
    /\ Forget

(* The write to the federated object that reconcile is at: the finalizer, the clusters
   pending creation, the status of the round, or the finalizer's removal. *)
FedWrite(o) ==
    CASE pc = "finalizer"  -> [o EXCEPT !.finalizer = TRUE]
      [] pc = "record"     -> [o EXCEPT !.status = collected]
      [] pc = "status"     -> [o EXCEPT !.status = collected, !.syncedGen = o.gen]
      [] pc = "unfinalize" -> Gone(o)

(* It fails, though the API server may have done it; reconcile is tried again. *)
FedWriteFails ==
    /\ "failure" \in Faults
    /\ pc \in {"finalizer", "record", "status", "unfinalize"}
    /\ pc = "finalizer" => ~obj.finalizer
    /\ \/ UNCHANGED fed
       \/ "lostReply" \in Faults /\ obj = fed /\ fed' = FedWrite(fed)
    /\ Return(TRUE)
    /\ UNCHANGED <<fedCache, member, memberCache, unseen, ops, late, world>>

-----------------------------------------------------------------------------
(* reconcile *)

(* Leaving out the objects being deleted, or those whose generation was synced. *)
IgnoredDeleting(o) ==
    \/ ~o.exists \/ o.deleting
    \/ o.pending /\ o.kind.mode # "centralizedHPA"

IgnoredSynced(o) ==
    \/ ~o.exists
    \/ o.deleting /\ ~o.finalizer
    \/ ~o.deleting /\ o.pending /\ o.kind.mode # "centralizedHPA"
    \/ ~o.deleting /\ o.syncedGen = o.gen

Ignored(o) ==
    \/ ~o.exists
    \/ o.deleting /\ ~o.finalizer
    \/ ~o.deleting /\ o.pending /\ o.kind.mode # "centralizedHPA"

(* Nothing to do: no such object, somebody else's turn, or already let go. *)
Ignore ==
    /\ pc = "idle" /\ queued /\ FedFresh
    /\ Ignored(fedCache)
    /\ queued' = FALSE
    /\ UNCHANGED <<fed, fedCache, member, memberCache, unseen, pc, ops, late, local, world>>

Begin ==
    /\ pc = "idle" /\ queued /\ FedFresh
    /\ ~Ignored(fedCache)
    /\ queued' = FALSE
    /\ obj' = fedCache
    /\ template' = IF fedCache.deleting THEN 0 ELSE fedCache.gen
    /\ pc' = IF fedCache.deleting THEN "removal" ELSE "finalizer"
    /\ selected' = {} /\ requireSync' = {} /\ listed' = Unlisted /\ collected' = NoStatus
    /\ UNCHANGED <<fed, fedCache, member, memberCache, unseen, ops, late, world>>

(* Going on although the write was refused. *)
EnsureFinalizerUnchecked ==
    /\ pc = "finalizer"
    /\ pc' = "prepare"
    /\ fed' = IF obj = fed THEN [fed EXCEPT !.finalizer = TRUE] ELSE fed
    /\ obj' = fed'
    /\ UNCHANGED <<queued, template, selected, requireSync, listed, collected>>
    /\ UNCHANGED <<fedCache, member, memberCache, unseen, ops, late, world>>

(* The write of ensureFinalizer: refused unless obj is current. *)
EnsureFinalizer ==
    /\ pc = "finalizer"
    /\ \/ /\ obj.finalizer
          /\ pc' = "prepare"
          /\ UNCHANGED <<fed, queued, local>>
       \/ /\ ~obj.finalizer /\ obj = fed
          /\ fed' = FedWrite(fed)
          /\ obj' = fed'
          /\ pc' = "prepare"
          /\ UNCHANGED <<queued, template, selected, requireSync, listed, collected>>
       \/ /\ ~obj.finalizer /\ obj # fed
          /\ Return(TRUE)
          /\ UNCHANGED fed
    /\ UNCHANGED <<fedCache, member, memberCache, unseen, ops, late, world>>

DryRun ==
    /\ pc = "prepare"
    /\ obj.kind.mode = "dryRun" /\ Recorded(obj) = {}
    /\ Return(FALSE)
    /\ UNCHANGED <<fed, fedCache, member, memberCache, unseen, ops, late, world>>

(* prepareToSync up to its loop: which clusters get an operation, and which of
   them have to be recorded first.  GetJoinedClusters lists a store in memory with
   labels.Everything(), which cannot fail: ClusterRetrievalFailed is never reached. *)
PrepareToSync ==
    /\ pc = "prepare"
    /\ ~(obj.kind.mode = "dryRun" /\ Recorded(obj) = {})
    /\ LET sel == IF obj.kind.mode = "centralizedHPA" THEN {} ELSE obj.placement
           pendingCreate == sel \ Recorded(obj)
           new == {c \in pendingCreate : ~cluster[c].deleting}
       IN  /\ selected' = sel
           /\ requireSync' = Recorded(obj) \cup new /\ listed' = cluster
           /\ collected' = [c \in Clusters |-> IF c \in new THEN "PendingCreate" ELSE obj.status[c]]
           /\ pc' = IF pendingCreate = {} THEN "dispatch" ELSE "record"
    /\ UNCHANGED <<fed, fedCache, member, memberCache, unseen, queued, obj, template, ops, late, world>>

(* Creating first, recording later. *)
RecordPendingCreateLater ==
    /\ pc = "record"
    /\ pc' = "dispatch"
    /\ UNCHANGED <<fed, queued, local>>
    /\ UNCHANGED <<fedCache, member, memberCache, unseen, ops, late, world>>

(* The body of prepareToSync's poll loop: status.clusters, computed once from the
   copy read first, is written over whatever the object has become. *)
RecordPendingCreate ==
    /\ pc = "record"
    /\ \/ /\ obj = fed
          /\ fed' = FedWrite(fed)
          /\ obj' = fed'
          /\ pc' = "dispatch"
          /\ UNCHANGED <<queued, template, selected, requireSync, listed, collected>>
       \/ /\ obj # fed /\ fed.exists
          /\ obj' = fed
          /\ UNCHANGED <<fed, pc, queued, template, selected, requireSync, listed, collected>>
       \/ /\ obj # fed
          /\ Return(TRUE)
          /\ UNCHANGED fed
    /\ UNCHANGED <<fedCache, member, memberCache, unseen, ops, late, world>>

-----------------------------------------------------------------------------
(* syncToClusters: what the loop does with one cluster, from the copy prepareToSync
   listed and the member cache.  A decision is the operation to start, if any, and the
   status the cluster has if that operation goes well. *)

Decision(operation, s) == [operation |-> operation, status |-> s]

Decide(c) ==
    LET cl == listed[c]
        clusterObj == memberCache[c]
        shouldBeDeleted == c \notin selected
    IN  CASE ~cl.ready /\ shouldBeDeleted  -> Decision(None, None)
          [] ~cl.ready /\ ~shouldBeDeleted -> Decision(None, "NotSynced")
          [] cl.ready /\ cl.deleting /\ cl.cascade ->
               Decision(None, IF clusterObj.exists /\ ~clusterObj.deleting
                              THEN "WaitingForCascadingDeletion" ELSE None)
          [] cl.ready /\ ~(cl.deleting /\ cl.cascade) /\ shouldBeDeleted ->
               (CASE ~clusterObj.exists -> Decision(None, None)
                  [] clusterObj.exists /\ clusterObj.deleting -> Decision(None, "WaitingForRemoval")
                  [] OTHER -> IF cl.deleting THEN Decision(None, None)
                              ELSE Decision("delete", "WaitingForRemoval"))
          [] OTHER ->
               (CASE cl.deleting -> Decision(None, "NotSynced")
                  [] ~cl.deleting /\ ~cl.finalizer -> Decision(None, "FinalizerCheckFailed")
                  [] OTHER -> Decision(IF clusterObj.exists THEN "update" ELSE "create", "OK"))

(* A member cache that cannot be read: CachedRetrievalFailed. *)
Unreadable(c) == Decision(None, "NotSynced")

(* Create and Update carry the template, and whether an existing object is adopted. *)
Operation(c, k, base) ==
    LET propagates == k \in {"create", "update"}
    IN  [cluster |-> c, kind |-> k, base |-> base,
         gen |-> IF propagates THEN template ELSE 0, adopt |-> propagates /\ obj.kind.adopt]

(* The loop of syncToClusters; its operations run once it is over. *)
SyncToClusters ==
    /\ pc = "dispatch" /\ MemberFresh
    /\ \E unreadable \in SUBSET (IF "failure" \in Faults THEN {c \in requireSync : listed[c].ready}
                                 ELSE {}) :
         LET decision == [c \in requireSync |-> IF c \in unreadable THEN Unreadable(c) ELSE Decide(c)]
         IN  /\ ops' = {Operation(c, decision[c].operation, memberCache[c]) :
                          c \in {d \in requireSync : decision[d].operation # None}}
             /\ collected' = [c \in Clusters |-> IF c \in requireSync THEN decision[c].status ELSE None]
    /\ pc' = "wait"
    /\ template' = 0 /\ selected' = {} /\ requireSync' = {} /\ listed' = Unlisted
    /\ UNCHANGED <<fed, fedCache, member, memberCache, unseen, queued, obj, late, world>>

(* A Wait that returns before every result of the round is in. *)
WaitReturnsEarly ==
    /\ pc = "wait"
    /\ pc' = "status"
    /\ UNCHANGED <<fed, fedCache, member, memberCache, unseen, queued, ops, late, local, world>>

(* Wait returned; nothing of the round is outstanding (ManagedDispatcher!AllReported). *)
WaitReturns ==
    /\ pc = "wait" /\ ops = {}
    /\ pc' = "status"
    /\ UNCHANGED <<fed, fedCache, member, memberCache, unseen, queued, ops, late, local, world>>

(* Wait timed out, here or in ensureRemovalFromClusters: reconcile is tried again,
   and the operations are left to themselves. *)
WaitTimesOut ==
    /\ "timeout" \in Faults
    /\ pc \in {"wait", "removalWait"} /\ ops # {}
    /\ late' = late \cup ops
    /\ Cardinality(late') <= MaxLate
    /\ ops' = {}
    /\ Return(TRUE)
    /\ UNCHANGED <<fed, fedCache, member, memberCache, unseen, world>>

(* The body of setFederatedStatus's poll loop: the status, generation included, is
   computed from the copy at hand, which after a conflict is a newer one.  A write that
   is required (by an updated resource, or a cluster without a version) though it
   changes no more than the condition's time comes back as an event. *)
SetFederatedStatus ==
    /\ pc = "status"
    /\ LET new == FedWrite(obj)
           again == \E c \in Clusters : collected[c] \in {"Failed", "FinalizerCheckFailed"}
       IN  \/ /\ new = obj
              /\ Return(again)
              /\ UNCHANGED fed
           \/ /\ obj = fed
              /\ fed' = new
              /\ Return(again \/ new = obj)
           \/ /\ obj # fed /\ fed.exists
              /\ obj' = fed
              /\ UNCHANGED <<fed, pc, queued, template, selected, requireSync, listed, collected>>
           \/ /\ obj # fed
              /\ Return(TRUE)
              /\ UNCHANGED fed
    /\ UNCHANGED <<fedCache, member, memberCache, unseen, ops, late, world>>

-----------------------------------------------------------------------------
(* handleTerminatingFederatedResource *)

ShouldBeOrphaned(o, clusterObj) ==
    \/ o.kind.orphan = "all"
    \/ o.kind.orphan = "adopted" /\ clusterObj.adopted

(* Taking a cluster that cannot be read for one without the object. *)
HandleDeletionIfReadable ==
    /\ pc = "removal" /\ MemberFresh
    /\ \E unreadable \in SUBSET (IF "failure" \in Faults THEN Recorded(obj) ELSE {}) :
         LET remaining == {c \in Recorded(obj) \ unreadable : memberCache[c].exists}
         IN  /\ ops' = {Operation(c, IF ShouldBeOrphaned(obj, memberCache[c]) THEN "unlabel"
                                     ELSE "delete", memberCache[c]) : c \in remaining}
             /\ collected' = [c \in Clusters |-> IF c \in remaining THEN "WaitingForRemoval" ELSE None]
    /\ pc' = "removalWait"
    /\ UNCHANGED <<fed, fedCache, member, memberCache, unseen, queued, obj, template, selected,
                   requireSync, listed, late, world>>

(* handleDeletionInClusters, called by ensureRemovalFromClusters, for the clusters
   getSyncedClusters finds in the status. *)
HandleDeletionInClusters ==
    /\ pc = "removal" /\ MemberFresh
    /\ \E unreadable \in SUBSET (IF "failure" \in Faults THEN Recorded(obj) ELSE {}) :
         LET skipped == unreadable \cup {c \in Recorded(obj) : ~cluster[c].ready}
             remaining == {c \in Recorded(obj) \ skipped : memberCache[c].exists}
         IN  /\ ops' = {Operation(c, IF ShouldBeOrphaned(obj, memberCache[c]) THEN "unlabel"
                                     ELSE "delete", memberCache[c]) : c \in remaining}
             /\ collected' = [c \in Clusters |-> IF c \in skipped THEN "NotSynced"
                                                 ELSE IF c \in remaining THEN "WaitingForRemoval"
                                                 ELSE None]
    /\ pc' = "removalWait"
    /\ UNCHANGED <<fed, fedCache, member, memberCache, unseen, queued, obj, template, selected,
                   requireSync, listed, late, world>>

RemovalReturns ==
    /\ pc = "removalWait" /\ ops = {}
    /\ IF \A c \in Clusters : collected[c] = None
       THEN pc' = "check" /\ UNCHANGED <<queued, local>>
       ELSE Return(TRUE)
    /\ UNCHANGED <<fed, fedCache, member, memberCache, unseen, ops, late, world>>

(* CheckRemovedOrUnlabeled asks the member cluster itself. *)
RemovedOrUnlabeled(c) == ~member[c].exists \/ (~member[c].deleting /\ ~member[c].managed)

(* The clusters clustersNoNeedHandleDeletion holds: those without a cached object. *)
NoNeedHandleDeletion == {c \in Recorded(obj) : collected[c] = None}

CheckObjectRemovedFromAllClusters ==
    /\ pc = "check"
    /\ IF /\ \A c \in Recorded(obj) : cluster[c].ready
          /\ \A c \in Recorded(obj) \ NoNeedHandleDeletion : RemovedOrUnlabeled(c)
       THEN pc' = "unfinalize" /\ UNCHANGED <<queued, local>>
       ELSE Return(TRUE)
    /\ UNCHANGED <<fed, fedCache, member, memberCache, unseen, ops, late, world>>

RemoveFinalizer ==
    /\ pc = "unfinalize"
    /\ IF obj = fed
       THEN fed' = FedWrite(fed) /\ Return(FALSE)
       ELSE UNCHANGED fed /\ Return(TRUE)
    /\ UNCHANGED <<fedCache, member, memberCache, unseen, ops, late, world>>

-----------------------------------------------------------------------------
(* The operations, each a goroutine of the dispatcher. *)

(* The operation is over.  A failure becomes the cluster's status, which for an
   operation nobody waits for goes to a map nobody reads. *)
Finish(op, failed) ==
    IF op \in ops
    THEN /\ ops' = ops \ {op}
         /\ collected' = IF failed THEN [collected EXCEPT ![op.cluster] = "Failed"] ELSE collected
         /\ UNCHANGED late
    ELSE late' = late \ {op} /\ UNCHANGED <<ops, collected>>

opFrame == <<fed, fedCache, cluster, memberCache, queued, pc, obj, template, selected,
             requireSync, listed, events>>

(* The answer of a request that was carried out may be lost, which is a failure. *)
Reported == IF "lostReply" \in Faults THEN BOOLEAN ELSE {FALSE}

Created(op) == [exists |-> TRUE, managed |-> TRUE, adopted |-> FALSE, deleting |-> FALSE,
                gen |-> op.gen]

CreateSucceeds(op) ==
    /\ op.kind = "create"
    /\ ~member[op.cluster].exists
    /\ Store(op.cluster, Created(op))
    /\ \E failed \in Reported : Finish(op, failed)
    /\ UNCHANGED opFrame

(* AlreadyExists, and adoption is allowed: an Update is started from the object
   just fetched, marked as adopted if it was not managed.  The refused Create has
   changed nothing, so the step is that of the Get; an object gone by then is
   RetrievalFailed, one of the ways in which OperationFails. *)
CreateAdopts(op) ==
    /\ op.kind = "create"
    /\ member[op.cluster].exists
    /\ op.adopt
    /\ LET update == [op EXCEPT !.kind = "update", !.base = member[op.cluster]]
       IN  IF op \in ops
           THEN ops' = (ops \ {op}) \cup {update} /\ UNCHANGED late
           ELSE late' = (late \ {op}) \cup {update} /\ UNCHANGED ops
    /\ UNCHANGED <<opFrame, member, unseen, collected>>

CreateRefused(op) ==
    /\ op.kind = "create"
    /\ member[op.cluster].exists
    /\ ~op.adopt
    /\ Finish(op, TRUE)
    /\ UNCHANGED <<opFrame, member, unseen>>

(* An Update carries the resourceVersion of the object it was computed from. *)
Updated(op) == [op.base EXCEPT !.managed = TRUE, !.adopted = op.base.adopted \/ ~op.base.managed,
                               !.gen = op.gen]

(* Nothing is sent to the cluster for an object that is current already, by the copy
   the controller has. *)
UpdateSkipped(op) ==
    /\ op.kind = "update"
    /\ Updated(op) = op.base
    /\ Finish(op, FALSE)
    /\ UNCHANGED <<opFrame, member, unseen>>

(* Not sending a resourceVersion. *)
UpdateUnconditional(op) ==
    /\ op.kind = "update"
    /\ Updated(op) # op.base
    /\ IF member[op.cluster].exists
       THEN Store(op.cluster, Updated(op)) /\ Finish(op, FALSE)
       ELSE Finish(op, TRUE) /\ UNCHANGED <<member, unseen>>
    /\ UNCHANGED opFrame

UpdateAnswered(op) ==
    /\ op.kind = "update"
    /\ Updated(op) # op.base
    /\ IF member[op.cluster] = op.base
       THEN /\ Store(op.cluster, Updated(op))
            /\ \E failed \in Reported : Finish(op, failed)
       ELSE Finish(op, TRUE) /\ UNCHANGED <<member, unseen>>
    /\ UNCHANGED opFrame

(* RemoveManagedLabel is an Update, too. *)
UnlabelAnswered(op) ==
    /\ op.kind = "unlabel"
    /\ IF member[op.cluster] = op.base
       THEN /\ Store(op.cluster, [op.base EXCEPT !.managed = FALSE])
            /\ \E failed \in Reported : Finish(op, failed)
       ELSE Finish(op, TRUE) /\ UNCHANGED <<member, unseen>>
    /\ UNCHANGED opFrame

(* Delete goes by name alone, and does not mind that there is nothing to delete. *)
DeleteAnswered(op) ==
    /\ op.kind = "delete"
    /\ IF member[op.cluster].exists /\ ~op.base.deleting
       THEN Store(op.cluster, [member[op.cluster] EXCEPT !.deleting = TRUE])
       ELSE UNCHANGED <<member, unseen>>
    /\ \E failed \in Reported : Finish(op, failed)
    /\ UNCHANGED opFrame

OperationFails(op) ==
    /\ "failure" \in Faults
    /\ Finish(op, TRUE)
    /\ UNCHANGED <<opFrame, member, unseen>>

-----------------------------------------------------------------------------
(* The caches and their event handlers. *)

ObserveFed ==
    /\ fedCache # fed
    /\ fedCache' = fed
    /\ queued' = TRUE
    /\ UNCHANGED <<fed, member, memberCache, unseen, pc, ops, late, local, world>>

(* The informer selects managed objects: of those that are not it says nothing, so that
   the key is enqueued here once or twice more than it is. *)
ObserveMember(c) ==
    /\ c \in unseen
    /\ unseen' = unseen \ {c}
    /\ memberCache' = [memberCache EXCEPT ![c] = Managed(c)]
    /\ queued' = TRUE
    /\ UNCHANGED <<fed, fedCache, member, pc, ops, late, local, world>>

(* The process is restarted: the goroutines are gone, the caches are listed anew
   and every key is enqueued. *)
Crash ==
    /\ "crash" \in Faults
    /\ events < MaxEvents /\ events' = events + 1
    /\ fedCache' = fed
    /\ memberCache' = [c \in Clusters |-> Managed(c)] /\ unseen' = {}
    /\ ops' = {} /\ late' = {}
    /\ pc' = "idle" /\ queued' = TRUE /\ Forget
    /\ UNCHANGED <<fed, member, cluster>>

-----------------------------------------------------------------------------
(* The environment. *)

envFrame == <<fedCache, memberCache, pc, ops, late, local>>

(* Upstream controllers write the spec, with or without controllers left to run. *)
EditSpec(placement, pending) ==
    /\ fed.exists /\ ~fed.deleting /\ fed.gen < MaxGen
    /\ fed' = [fed EXCEPT !.gen = @ + 1, !.placement = placement, !.pending = pending]
    /\ UNCHANGED <<envFrame, member, unseen, queued, world>>

FinishPipeline ==
    /\ fed.exists /\ fed.pending
    /\ fed' = [fed EXCEPT !.pending = FALSE]
    /\ UNCHANGED <<envFrame, member, unseen, queued, world>>

DeleteFed ==
    /\ fed.exists /\ ~fed.deleting
    /\ fed' = IF fed.finalizer THEN [fed EXCEPT !.deleting = TRUE] ELSE Gone(fed)
    /\ UNCHANGED <<envFrame, member, unseen, queued, world>>

(* reconcileClusterForCascadingDeletion adds its finalizer; nothing enqueues the
   federated objects then. *)
ClusterFinalizerAdded(c) ==
    /\ ~cluster[c].finalizer /\ ~cluster[c].deleting
    /\ cluster' = [cluster EXCEPT ![c].finalizer = TRUE]
    /\ UNCHANGED <<envFrame, fed, member, unseen, queued, events>>

ClusterReadiness(c) ==
    /\ "unready" \in Faults
    /\ ~cluster[c].ready \/ events < MaxEvents
    /\ cluster' = [cluster EXCEPT ![c].ready = ~@]
    /\ events' = IF cluster[c].ready THEN events + 1 ELSE events
    /\ queued' = TRUE
    /\ UNCHANGED <<envFrame, fed, member, unseen>>

ClusterDeleted(c, cascade) ==
    /\ "clusterDeleted" \in Faults
    /\ events < MaxEvents /\ events' = events + 1
    /\ ~cluster[c].deleting
    /\ cluster' = [cluster EXCEPT ![c].deleting = TRUE, ![c].cascade = cascade]
    /\ queued' = TRUE
    /\ UNCHANGED <<envFrame, fed, member, unseen>>

(* The member cluster finishes a deletion. *)
MemberGone(c) ==
    /\ member[c].deleting
    /\ Store(c, NoObject)
    /\ UNCHANGED <<envFrame, fed, queued, world>>

(* A user of the member cluster deletes the object, or creates one of their own. *)
MemberUser(c) ==
    /\ "memberUser" \in Faults
    /\ events < MaxEvents /\ events' = events + 1
    /\ Store(c, IF member[c].exists THEN NoObject ELSE UserObject)
    /\ UNCHANGED <<envFrame, fed, cluster, queued>>

-----------------------------------------------------------------------------
Reconcile ==
    \/ Ignore \/ Begin \/ EnsureFinalizer \/ DryRun \/ PrepareToSync \/ RecordPendingCreate
    \/ SyncToClusters \/ WaitReturns \/ SetFederatedStatus
    \/ HandleDeletionInClusters \/ RemovalReturns \/ CheckObjectRemovedFromAllClusters
    \/ RemoveFinalizer

(* The member cluster answers. *)
Answered(op) ==
    \/ CreateSucceeds(op) \/ CreateAdopts(op) \/ CreateRefused(op)
    \/ UpdateSkipped(op) \/ UpdateAnswered(op) \/ UnlabelAnswered(op) \/ DeleteAnswered(op)

Environment ==
    \/ \E placement \in SUBSET Clusters, pending \in BOOLEAN : EditSpec(placement, pending)
    \/ FinishPipeline
    \/ DeleteFed
    \/ \E c \in Clusters :
          \/ ClusterFinalizerAdded(c) \/ ClusterReadiness(c) \/ MemberGone(c) \/ MemberUser(c)
          \/ \E cascade \in BOOLEAN : ClusterDeleted(c, cascade)

Next ==
    \/ Reconcile
    \/ FedWriteFails
    \/ WaitTimesOut
    \/ \E op \in ops \cup late : Answered(op) \/ OperationFails(op)
    \/ ObserveFed \/ \E c \in Clusters : ObserveMember(c)
    \/ Crash
    \/ Environment

Spec == Init /\ [][Next]_vars

(* The workers and the informers run; a member cluster answers in the end, finishes
   its deletions and becomes ready again; upstream controllers finish. *)
FairSpec ==
    /\ Spec
    /\ WF_vars(Reconcile)
    /\ WF_vars(\E op \in ops \cup late : Answered(op))
    /\ WF_vars(ObserveFed)
    /\ WF_vars(FinishPipeline)
    /\ \A c \in Clusters : /\ WF_vars(ObserveMember(c))
                           /\ WF_vars(MemberGone(c))
                           /\ WF_vars(ClusterFinalizerAdded(c))
                           /\ WF_vars(~cluster[c].ready /\ ClusterReadiness(c))

-----------------------------------------------------------------------------
FedObjects == [exists : BOOLEAN, deleting : BOOLEAN, finalizer : BOOLEAN, pending : BOOLEAN,
               gen : 0 .. MaxGen, placement : SUBSET Clusters, status : [Clusters -> Status],
               syncedGen : 0 .. MaxGen, kind : AllFedKinds]

ClusterObjects == [ready : BOOLEAN, deleting : BOOLEAN, cascade : BOOLEAN, finalizer : BOOLEAN]

MemberObjects == [exists : BOOLEAN, managed : BOOLEAN, adopted : BOOLEAN, deleting : BOOLEAN,
                  gen : 0 .. MaxGen]

Operations == [cluster : Clusters, kind : {"create", "update", "delete", "unlabel"},
               base : MemberObjects, gen : 0 .. MaxGen, adopt : BOOLEAN]

(* Objects, copies and operations are well-formed, and a goroutine of the dispatcher is
   either waited for or one of a round that timed out: reconcile is never past Wait with
   an operation of its round still running. *)
TypeOK ==
    /\ fed \in FedObjects /\ fedCache \in FedObjects /\ obj \in FedObjects
    /\ cluster \in [Clusters -> ClusterObjects] /\ listed \in [Clusters -> ClusterObjects]
    /\ member \in [Clusters -> MemberObjects]
    /\ memberCache \in [Clusters -> MemberObjects]
    /\ unseen \subseteq Clusters
    /\ queued \in BOOLEAN
    /\ pc \in {"idle", "finalizer", "prepare", "record", "dispatch", "wait", "status",
               "removal", "removalWait", "check", "unfinalize"}
    /\ template \in 0 .. MaxGen
    /\ selected \subseteq Clusters /\ requireSync \subseteq Clusters
    /\ collected \in [Clusters -> Status]
    /\ ops \subseteq Operations /\ late \subseteq Operations
    /\ ops # {} => pc \in {"wait", "removalWait"}
    /\ events \in 0 .. MaxEvents

(* From ensureFinalizer to setFederatedStatus the federated object in the API server
   exists and has the sync controller's finalizer, however old the copy reconcile
   works on is: no Create is started for an object that may already be gone. *)
FinalizerHeld ==
    pc \in {"prepare", "record", "dispatch", "wait", "status"} => fed.exists /\ fed.finalizer

(* Nothing will happen until somebody acts. *)
Quiet ==
    /\ pc = "idle" /\ ~queued /\ late = {}
    /\ fedCache = fed /\ unseen = {}

Active == fed.exists /\ ~fed.deleting /\ ~fed.pending /\ fed.kind.mode = "normal"

(* No wakeup is lost: when the key is not queued and the caches are current, the status
   is that of the current generation, and a cluster it calls OK holds that generation,
   whatever conflict, crash or late operation came before. *)
QuietIsTruthful ==
    Quiet /\ Active =>
        /\ fed.syncedGen = fed.gen
        /\ \A c \in fed.placement : fed.status[c] = "OK" => member[c].managed /\ member[c].gen = fed.gen

(* The Update and RemoveManagedLabel goroutines, late ones included, never turn an object
   into a managed one that a user created, or that was orphaned, unless the federated
   object adopts preexisting resources. *)
NoCapture ==
    [][\A c \in Clusters : member[c].exists /\ ~member[c].managed /\ member'[c].managed
                            => fed.kind.adopt]_vars

(* Every managed object in a member cluster has a federated object, with an entry for
   that cluster in its status: the record from which deletions are derived.  (The
   objects of a cluster that is being deleted are the cascading deletion's.) *)
Tracked ==
    \A c \in Clusters : member[c].managed /\ ~cluster[c].deleting =>
        fed.exists /\ fed.status[c] # None

(* The finalizer is not removed before the managed objects are. *)
NoLeftovers == ~fed.exists => \A c \in Clusters : member[c].managed => cluster[c].deleting

(* A federated object that is being deleted goes away. *)
DeletionCompletes == fed.deleting ~> ~fed.exists

(* In the end every selected cluster holds the current generation, unless an object of
   a user is in the way or the cluster is being deleted. *)
Converges ==
    <>[](Active => \A c \in fed.placement :
            \/ cluster[c].deleting
            \/ member[c].exists /\ ~member[c].managed
            \/ member[c].managed /\ member[c].gen = fed.gen)
=============================================================================
