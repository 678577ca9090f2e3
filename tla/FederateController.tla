-------------------------- MODULE FederateController --------------------------
(***************************************************************************)
(* The federate controller (pkg/controllers/federate) for one source       *)
(* object: it keeps a FederatedObject whose template is the source         *)
(* object, and deletes it before a source object that is being deleted may *)
(* go.  Both objects are read from informer caches and written to the API  *)
(* server, which refuses a write made from an old copy.                    *)
(*                                                                         *)
(* Abstracted: everything the FederatedObject takes from the source (the   *)
(* template, labels, annotations, the merge patch) is one version number,  *)
(* new with every edit; a uid tells a source object from its successor of  *)
(* the same name.  A copy is current when it equals the stored object.     *)
(* The FederatedTypeConfig is there and its lister has synced.             *)
(***************************************************************************)
EXTENDS Integers

CONSTANTS
    MaxVersion,  \* bound: versions of the source
    MaxUID,      \* bound: source objects of this name, one after the other
    MaxEvents,   \* bound: crashes, failed writes, deletions of the FederatedObject by users
    Invalid,     \* versions the API server does not accept in a template
    Faults       \* what the environment may do, a subset of AllFaults

AllFaults == {"fedLag", "crash", "failure", "userDeletesFed"}

ASSUME FederateAssumption ==
    /\ MaxVersion \in Nat \ {0} /\ MaxUID \in Nat \ {0} /\ MaxEvents \in Nat
    /\ Invalid \subseteq 1 .. MaxVersion
    /\ Faults \subseteq AllFaults

(* The owner of a FederatedObject: the uid of a source object of this kind and name,
   nobody, or an object of another kind or name. *)
Nobody == 0
Stranger == -1

VARIABLES
    source,      \* the source object in the API server
    sourceCache,
    fed,         \* the FederatedObject in the API server
    fedCache,
    fedNews,     \* events of the FederatedObject that the informer has not delivered
    queued,      \* the source object's key is in the worker's queue
    pc,          \* where reconcile is
    sourceObject, fedObject, \* reconcile's copies
    version,     \* the last version of the source
    uid,         \* the last uid
    events

vars == <<source, sourceCache, fed, fedCache, fedNews, queued, pc, sourceObject, fedObject,
          version, uid, events>>

NoSource == [exists |-> FALSE, deleting |-> FALSE, finalizer |-> FALSE, skip |-> FALSE,
             version |-> 0, uid |-> 0]

(* finalizer: that of the sync controller; pending: controllers have to run. *)
NoFed == [exists |-> FALSE, deleting |-> FALSE, finalizer |-> FALSE, pending |-> FALSE,
          template |-> 0, owner |-> Nobody]

NewSource(v, u, skip) == [NoSource EXCEPT !.exists = TRUE, !.version = v, !.uid = u, !.skip = skip]

(* A FederatedObject may be there before its source: an orphan, or a stranger's. *)
Init ==
    /\ source = NewSource(1, 1, FALSE)
    /\ sourceCache = source
    /\ fed \in {NoFed} \cup
              {[NoFed EXCEPT !.exists = TRUE, !.owner = o] : o \in {Nobody, Stranger}}
    /\ fedCache = fed /\ fedNews = FALSE
    /\ queued = TRUE
    /\ pc = "idle"
    /\ sourceObject = NoSource /\ fedObject = NoFed
    /\ version = 1 /\ uid = 1
    /\ events = 0

Return(again) ==
    /\ pc' = "idle"
    /\ queued' = (queued \/ again)
    /\ sourceObject' = NoSource /\ fedObject' = NoFed

FedFresh == "fedLag" \in Faults \/ ~fedNews

(* The FederatedObject becomes f. *)
Store(f) == fed' = f /\ fedNews' = TRUE

fedVars == <<fed, fedNews>>

Event == events < MaxEvents /\ events' = events + 1

(* An API server deletes an object once it has no finalizer. *)
Deleted(o, none) == IF o.finalizer THEN [o EXCEPT !.deleting = TRUE] ELSE none

-----------------------------------------------------------------------------
(* reconcile *)

(* Looking at the annotation before the deletion. *)
RouteSkipFirst(src, f) ==
    CASE ~src.exists \/ (f.exists /\ f.owner = Stranger) \/ src.skip -> "idle"
      [] src.exists /\ src.deleting ->
           IF ~f.exists THEN (IF src.finalizer THEN "unfinalize" ELSE "idle")
           ELSE IF f.deleting THEN "idle" ELSE "delete"
      [] OTHER -> IF ~src.finalizer THEN "finalizer" ELSE IF f.exists THEN "update" ELSE "create"

(* Where it goes from the two copies; "idle" when there is nothing to do. *)
Route(src, f) ==
    CASE ~src.exists \/ (f.exists /\ f.owner = Stranger) -> "idle"
      [] src.exists /\ src.deleting /\ ~(f.exists /\ f.owner = Stranger) ->
           IF ~f.exists THEN (IF src.finalizer THEN "unfinalize" ELSE "idle")
           ELSE IF f.deleting THEN "idle" ELSE "delete"
      [] src.exists /\ ~src.deleting /\ src.skip -> "idle"
      [] OTHER -> IF ~src.finalizer THEN "finalizer" ELSE IF f.exists THEN "update" ELSE "create"

Reconcile ==
    /\ pc = "idle" /\ queued /\ FedFresh
    /\ queued' = FALSE
    /\ pc' = Route(sourceCache, fedCache)
    /\ IF pc' = "idle" THEN sourceObject' = NoSource /\ fedObject' = NoFed
       ELSE sourceObject' = sourceCache /\ fedObject' = fedCache
    /\ UNCHANGED <<source, sourceCache, fedVars, fedCache, version, uid, events>>

(* Creating or updating the FederatedObject whatever became of the finalizer. *)
EnsureFinalizerUnchecked ==
    /\ pc = "finalizer"
    /\ source' = IF sourceObject = source THEN [source EXCEPT !.finalizer = TRUE] ELSE source
    /\ pc' = IF fedObject.exists THEN "update" ELSE "create"
    /\ UNCHANGED <<sourceCache, fedVars, fedCache, queued, sourceObject, fedObject, version, uid, events>>

EnsureFinalizer ==
    /\ pc = "finalizer"
    /\ IF sourceObject = source
       THEN /\ source' = [source EXCEPT !.finalizer = TRUE]
            /\ sourceObject' = source'
            /\ pc' = IF fedObject.exists THEN "update" ELSE "create"
            /\ UNCHANGED <<queued, fedObject>>
       ELSE Return(TRUE) /\ UNCHANGED source
    /\ UNCHANGED <<sourceCache, fedVars, fedCache, version, uid, events>>

(* No owner. *)
ForSourceUnowned(f, src) == [f EXCEPT !.exists = TRUE, !.template = src.version, !.pending = TRUE]

(* newFederatedObjectForSourceObject, updateFederatedObjectForSourceObject: both set the
   owner and the template, and put every controller of the type back to work. *)
ForSource(f, src) ==
    [f EXCEPT !.exists = TRUE, !.template = src.version, !.owner = src.uid, !.pending = TRUE]

(* An object of that name exists: an error like any other, tried again.  An invalid
   template is not: "reenqueueing will not help solve the problem". *)
HandleCreateFederatedObject ==
    /\ pc = "create"
    /\ LET invalid == sourceObject.version \in Invalid
       IN  /\ IF fed.exists \/ invalid THEN UNCHANGED fedVars ELSE Store(ForSource(NoFed, sourceObject))
           /\ \/ invalid /\ Return(FALSE)
              \/ (~invalid \/ fed.exists) /\ Return(fed.exists)
    /\ UNCHANGED <<source, sourceCache, fedCache, version, uid, events>>

(* Comparing the template only, and the owner only. *)
NeedsUpdateTemplate == fedObject.template # sourceObject.version
NeedsUpdateOwner == fedObject.owner # sourceObject.uid

NeedsUpdate == fedObject.template # sourceObject.version \/ fedObject.owner # sourceObject.uid

HandleExistingFederatedObject ==
    /\ pc = "update"
    /\ LET accepted == fedObject = fed /\ sourceObject.version \notin Invalid
       IN  /\ IF NeedsUpdate /\ accepted THEN Store(ForSource(fed, sourceObject)) ELSE UNCHANGED fedVars
           /\ Return(NeedsUpdate /\ ~accepted)
    /\ UNCHANGED <<source, sourceCache, fedCache, version, uid, events>>

(* By name.  An object that is not there any more is an error, and tried again. *)
DeleteFederatedObject ==
    /\ pc = "delete"
    /\ IF fed.exists THEN Store(Deleted(fed, NoFed)) ELSE UNCHANGED fedVars
    /\ Return(~fed.exists)
    /\ UNCHANGED <<source, sourceCache, fedCache, version, uid, events>>

(* The source object is being deleted, and this is its last finalizer. *)
RemoveFinalizer ==
    /\ pc = "unfinalize"
    /\ source' = IF sourceObject = source THEN NoSource ELSE source
    /\ Return(sourceObject # source)
    /\ UNCHANGED <<sourceCache, fedVars, fedCache, version, uid, events>>

Handle ==
    \/ EnsureFinalizer \/ HandleCreateFederatedObject \/ HandleExistingFederatedObject
    \/ DeleteFederatedObject \/ RemoveFinalizer

(* A write fails, or is done and its reply lost. *)
Failure ==
    /\ "failure" \in Faults /\ Event
    /\ pc # "idle"
    /\ Return(TRUE)
    /\ UNCHANGED <<source, fedVars, sourceCache, fedCache, version, uid>>

ReplyLost ==
    /\ "failure" \in Faults /\ Event
    /\ \/ pc = "finalizer" /\ sourceObject = source
          /\ source' = [source EXCEPT !.finalizer = TRUE] /\ UNCHANGED fedVars
       \/ pc = "create" /\ ~fed.exists /\ sourceObject.version \notin Invalid
          /\ Store(ForSource(NoFed, sourceObject)) /\ UNCHANGED source
       \/ pc = "update" /\ NeedsUpdate /\ fedObject = fed /\ sourceObject.version \notin Invalid
          /\ Store(ForSource(fed, sourceObject)) /\ UNCHANGED source
       \/ pc = "delete" /\ fed.exists
          /\ Store(Deleted(fed, NoFed)) /\ UNCHANGED source
       \/ pc = "unfinalize" /\ sourceObject = source
          /\ source' = NoSource /\ UNCHANGED fedVars
    /\ Return(TRUE)
    /\ UNCHANGED <<sourceCache, fedCache, version, uid>>

Crash ==
    /\ "crash" \in Faults /\ Event
    /\ sourceCache' = source /\ fedCache' = fed /\ fedNews' = FALSE
    /\ pc' = "idle" /\ queued' = TRUE /\ sourceObject' = NoSource /\ fedObject' = NoFed
    /\ UNCHANGED <<source, fed, version, uid>>

-----------------------------------------------------------------------------
(* The event handlers: every change of either object enqueues the source object. *)

ObserveSource ==
    /\ sourceCache # source
    /\ sourceCache' = source /\ queued' = TRUE
    /\ UNCHANGED <<source, fedVars, fedCache, pc, sourceObject, fedObject, version, uid, events>>

ObserveFed ==
    /\ fedNews /\ fedNews' = FALSE
    /\ fedCache' = fed /\ queued' = TRUE
    /\ UNCHANGED <<source, sourceCache, fed, pc, sourceObject, fedObject, version, uid, events>>

-----------------------------------------------------------------------------
(* Users, the sync controller and the garbage collector of the control plane.  A stranger
   keeps its FederatedObject: were it to go, nothing would enqueue this source again. *)

envFrame == <<sourceCache, fedCache, queued, pc, sourceObject, fedObject>>

EditSource(skip) ==
    /\ source.exists /\ version < MaxVersion
    /\ version' = version + 1
    /\ source' = [source EXCEPT !.version = version', !.skip = skip]
    /\ UNCHANGED <<envFrame, fedVars, uid, events>>

DeleteSource ==
    /\ source.exists /\ ~source.deleting
    /\ source' = Deleted(source, NoSource)
    /\ UNCHANGED <<envFrame, fedVars, version, uid, events>>

(* A new source object may have what the last one had. *)
RecreateSource ==
    /\ ~source.exists /\ uid < MaxUID
    /\ version' \in {version, version + 1} /\ version' <= MaxVersion
    /\ uid' = uid + 1
    /\ source' = NewSource(version', uid', FALSE)
    /\ UNCHANGED <<envFrame, fedVars, events>>

UserDeletesFed ==
    /\ "userDeletesFed" \in Faults /\ Event
    /\ fed.exists /\ ~fed.deleting /\ fed.owner # Stranger
    /\ Store(Deleted(fed, NoFed))
    /\ UNCHANGED <<envFrame, source, version, uid>>

(* The controllers of the type get through, and the sync controller sets its finalizer
   (SyncController!EnsureFinalizer). *)
Propagate ==
    /\ fed.exists /\ ~fed.deleting /\ fed.owner # Stranger
    /\ fed.pending \/ ~fed.finalizer
    /\ Store([fed EXCEPT !.pending = FALSE, !.finalizer = TRUE])
    /\ UNCHANGED <<envFrame, source, version, uid, events>>

(* The sync controller has removed the member objects (SyncController!RemoveFinalizer). *)
SyncReleases ==
    /\ fed.exists /\ fed.deleting
    /\ Store(NoFed)
    /\ UNCHANGED <<envFrame, source, version, uid, events>>

(* The owner is a source object that is gone. *)
Dangling == fed.exists /\ fed.owner \in 1 .. MaxUID /\ ~(source.exists /\ source.uid = fed.owner)

GarbageCollect ==
    /\ Dangling /\ ~fed.deleting
    /\ Store(Deleted(fed, NoFed))
    /\ UNCHANGED <<envFrame, source, version, uid, events>>

Environment ==
    \/ \E skip \in BOOLEAN : EditSource(skip)
    \/ DeleteSource \/ RecreateSource \/ UserDeletesFed
    \/ Propagate \/ SyncReleases \/ GarbageCollect

Next ==
    \/ Reconcile \/ Handle \/ Failure \/ ReplyLost \/ Crash
    \/ ObserveSource \/ ObserveFed
    \/ Environment

Spec == Init /\ [][Next]_vars

(* The worker and the informers run, the sync controller finishes a deletion
   (SyncController!DeletionCompletes), the garbage collector collects. *)
FairSpec ==
    /\ Spec
    /\ WF_vars(Reconcile) /\ WF_vars(Handle)
    /\ WF_vars(ObserveSource) /\ WF_vars(ObserveFed)
    /\ WF_vars(SyncReleases) /\ WF_vars(GarbageCollect)

-----------------------------------------------------------------------------
(* The FederatedObject is the source's. *)
Federated == fed.exists /\ fed.template = source.version /\ fed.owner = source.uid

(* There is something to federate, and nothing in the way. *)
Federable ==
    /\ source.exists /\ ~source.deleting /\ ~source.skip
    /\ source.version \notin Invalid
    /\ ~(fed.exists /\ fed.owner = Stranger)

(* No wakeup is lost: when nothing is queued and the caches are current, the source is
   federated, and a source that still waits to be deleted waits for a FederatedObject
   that is being deleted. *)
QuietIsFederated ==
    pc = "idle" /\ ~queued /\ sourceCache = source /\ ~fedNews =>
        /\ Federable => Federated
        /\ source.exists /\ source.deleting => fed.exists /\ (fed.deleting \/ fed.owner = Stranger)

(* ensureFinalizer comes first: reconcile gives a FederatedObject to a source only while
   that source carries the finalizer in the API server, however old the copies are, so
   that the source cannot go unnoticed. *)
CreatedUnderFinalizer ==
    [][fed'.exists /\ (fed'.template # fed.template \/ fed'.owner # fed.owner) =>
          source.exists /\ source.finalizer /\ source.uid = fed'.owner]_vars

(* The source is federated in the end. *)
GetsFederated == <>[](Federable => Federated)

(* A source object that is being deleted goes, though its finalizer waits for the
   FederatedObject. *)
SourceDeletionCompletes ==
    \A u \in 1 .. MaxUID :
        (source.uid = u /\ source.deleting) ~>
            (source.uid # u \/ (fed.exists /\ fed.owner = Stranger))

(* A FederatedObject that was made for a source (its template is not 0) does not stay
   without one, though the finalizer does not always wait for it: the owner reference
   lets the garbage collector have it. *)
NoneLeftBehind == ~source.exists ~> (source.exists \/ ~fed.exists \/ fed.template = 0)
=============================================================================
