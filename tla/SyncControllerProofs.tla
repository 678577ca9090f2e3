------------------------- MODULE SyncControllerProofs -------------------------
(***************************************************************************)
(* The sync controller for every set of clusters, every bound and every    *)
(* combination of faults.                                                  *)
(***************************************************************************)
EXTENDS SyncController, TLAPS

Syncing == {"prepare", "record", "dispatch", "wait", "status"}
Removing == {"removal", "removalWait", "check", "unfinalize"}

(* A copy of the object may be old, but the finalizer it shows is still there: only a
   reconcile of an object being deleted gives it up, and the cache never goes back to
   before the deletion. *)
FinalizerInv ==
    /\ fed.deleting => fed.exists /\ fed.finalizer
    /\ fedCache.deleting => fed.deleting \/ ~fed.exists
    /\ ~fedCache.exists => ~fed.exists
    /\ fedCache.exists /\ fedCache.finalizer /\ ~fedCache.deleting => fed.exists /\ fed.finalizer
    /\ pc = "finalizer" => /\ obj.exists /\ ~obj.deleting
                           /\ obj.finalizer => fed.exists /\ fed.finalizer
    /\ pc \in Removing => obj.deleting /\ (fedCache.deleting \/ ~fedCache.exists)
    /\ FinalizerHeld

(* Every copy has the annotations of the object, the member caches hold managed objects
   only, and an Update of an object that is not managed is a nested one, which adopts. *)
AdoptionInv ==
    /\ fedCache.kind = fed.kind
    /\ pc # "idle" => obj.kind = fed.kind
    /\ \A c \in Clusters : memberCache[c].exists => memberCache[c].managed
    /\ \A op \in ops \cup late :
         /\ op.adopt => fed.kind.adopt
         /\ op.kind = "update" /\ ~op.base.managed => op.adopt

(* The caches lag, but they tell: a change they have not seen is still to come as an
   event, one they have seen since the round began has queued the key again. *)
CopiesInv ==
    /\ fed.exists => /\ fedCache.gen <= fed.gen
                     /\ fedCache.gen = fed.gen /\ ~fedCache.pending => ~fed.pending
    /\ \A c \in Clusters \ unseen : memberCache[c] = Managed(c)
    /\ pc # "idle" => queued \/ fedCache # fed \/ obj = fed
    /\ pc \in {"finalizer", "prepare", "record", "dispatch"} => queued \/ template = fedCache.gen

(* What an operation of this round was started with is still so, or the key is queued. *)
CurrentOp(op) ==
    /\ op.kind \in {"create", "update"} => queued \/ op.gen = fedCache.gen
    /\ op.kind = "update" => queued \/ op.cluster \in unseen \/ op.base = member[op.cluster]
    /\ op.kind \in {"delete", "unlabel"} => collected[op.cluster] # "OK"

OpsInv ==
    /\ ops # {} => pc \in {"wait", "removalWait"}
    /\ \A op \in ops : CurrentOp(op)

Synced(c, gen) == c \in unseen \/ (member[c].managed /\ member[c].gen = gen)

(* What the round is about to report is true, or there is a reason to come back. *)
RoundInv ==
    pc \in {"wait", "status"} /\ ~queued =>
        \A c \in Clusters : collected[c] = "OK" =>
            (\E op \in ops : op.cluster = c) \/ Synced(c, fedCache.gen)

(* So is what was reported. *)
RestInv ==
    pc = "idle" /\ ~queued /\ fedCache = fed /\ Active =>
        /\ fed.syncedGen = fed.gen
        /\ \A c \in Clusters : fed.status[c] = "OK" => Synced(c, fed.gen)

TruthInv == CopiesInv /\ OpsInv /\ RoundInv /\ RestInv

(* The faults that can take the controller's record from it: each of them alone does. *)
Obscured == {"fedLag", "memberLag", "timeout", "unready"}

(* An object the controller has to answer for. *)
Owned(c) == member[c].managed /\ ~cluster[c].deleting

(* An operation runs only in a cluster that has been recorded, and stays so. *)
RecordedOps ==
    \A op \in ops : /\ fed.exists /\ fed.status[op.cluster] # None /\ collected[op.cluster] # None
                    /\ op.kind = "update" => op.base.exists

(* What reconcile is about to write, or derives its operations from, leaves out no cluster
   with an object to answer for; the clusters it listed were ready, and the deletion of one stands. *)
RecordInv ==
    /\ late = {} /\ \A c \in Clusters : cluster[c].ready
    /\ \A c \in Clusters : member[c].managed => member[c].exists
    /\ RecordedOps
    /\ pc \in {"finalizer", "prepare", "record"} \cup Removing => (fed.exists => obj.status = fed.status)
    /\ pc \in Removing => fed.deleting
    /\ pc = "record" => \A c \in Clusters : /\ collected[c] # None <=> c \in requireSync
                                            /\ fed.status[c] # None => c \in requireSync
    /\ pc = "dispatch" => requireSync = Recorded(fed)
    /\ pc \in {"record", "dispatch"} =>
         \A c \in Clusters : listed[c].ready /\ (listed[c].deleting => cluster[c].deleting)
    /\ pc \in {"wait", "status", "removalWait"} => \A c \in Clusters : collected[c] = None => ~Owned(c)
    /\ pc \in {"check", "unfinalize"} => \A c \in Clusters : ~Owned(c)
    /\ ~(fed.exists /\ fed.finalizer) => \A c \in Clusters : ~Owned(c)
    /\ Tracked

-----------------------------------------------------------------------------
(* Type correctness. *)

LEMMA NoneTyped == /\ NoStatus \in [Clusters -> Status] /\ NoFed \in FedObjects
                   /\ NoObject \in MemberObjects /\ Unlisted \in [Clusters -> ClusterObjects]
<1>1. NoStatus \in [Clusters -> Status]
  BY DEF NoStatus, Status, None
<1>2. [mode |-> "normal", orphan |-> "none", adopt |-> FALSE] \in AllFedKinds
  BY DEF AllFedKinds
<1>3. Unlisted \in [Clusters -> ClusterObjects]
  BY DEF Unlisted, ClusterObjects
<1> QED BY <1>1, <1>2, <1>3, SyncAssumption DEF NoFed, FedObjects, NoObject, MemberObjects

LEMMA GoneTyped ==
  ASSUME NEW o \in FedObjects
  PROVE  /\ Gone(o) \in FedObjects /\ Gone(o).kind = o.kind
         /\ ~Gone(o).exists /\ ~Gone(o).deleting /\ ~Gone(o).finalizer
  BY NoneTyped DEF Gone, NoFed, FedObjects

LEMMA FedWriteTyped ==
  ASSUME TypeOK, NEW o \in FedObjects, pc \in {"finalizer", "record", "status", "unfinalize"}
  PROVE  FedWrite(o) \in FedObjects
  BY GoneTyped DEF FedWrite, TypeOK, FedObjects

LEMMA DecisionTyped ==
  ASSUME NEW c, TypeOK, c \in Clusters
  PROVE  /\ Decide(c).operation \in {None, "create", "update", "delete"}
         /\ Decide(c).status \in Status
         /\ Decide(c).operation = "update" => memberCache[c].exists
         /\ Decide(c).status = "OK" => Decide(c).operation \in {"create", "update"}
         /\ Decide(c).operation # None => Decide(c).status \in {"OK", "WaitingForRemoval"}
         /\ Decide(c).operation = "delete" => Decide(c).status # "OK"
  BY DEF Decide, Decision, Status, None

LEMMA OperationTyped ==
  ASSUME TypeOK, NEW c \in Clusters, NEW k \in {"create", "update", "delete", "unlabel"},
         NEW base \in MemberObjects
  PROVE  Operation(c, k, base) \in Operations
<1>1. obj.kind.adopt \in BOOLEAN
  BY DEF TypeOK, FedObjects, AllFedKinds
<1>2. template \in 0 .. MaxGen /\ 0 \in 0 .. MaxGen
  BY SyncAssumption DEF TypeOK
<1> QED BY <1>1, <1>2 DEF Operation, Operations

LEMMA UpdatedTyped ==
  ASSUME NEW op \in Operations
  PROVE  /\ Updated(op) \in MemberObjects
         /\ Updated(op).managed /\ Updated(op).gen = op.gen /\ Updated(op).exists = op.base.exists
  BY DEF Updated, Operations, MemberObjects

LEMMA ReturnTyped ==
  ASSUME TypeOK, NEW again, Return(again), again \in BOOLEAN,
         fed' \in FedObjects, ops' = {}, late' \subseteq Operations,
         UNCHANGED <<fedCache, member, memberCache, unseen, world>>
  PROVE  TypeOK'
  BY NoneTyped, SyncAssumption DEF Return, Forget, TypeOK, world

(* An operation that ends, with or without having changed its object. *)
LEMMA FinishTyped ==
  ASSUME TypeOK, NEW op \in Operations, NEW failed, Finish(op, failed),
         UNCHANGED opFrame, member' \in [Clusters -> MemberObjects], unseen' \subseteq Clusters
  PROVE  TypeOK'
<1>1. collected' \in [Clusters -> Status]
  BY DEF Finish, TypeOK, Operations, Status
<1>2. ops' \subseteq Operations /\ late' \subseteq Operations /\ ops' \subseteq ops
  BY DEF Finish, TypeOK
<1>3. pc' = pc /\ (ops' # {} => ops # {})
  BY <1>2 DEF opFrame
<1> QED BY <1>1, <1>2, <1>3 DEF TypeOK, opFrame

LEMMA StoreTyped ==
  ASSUME TypeOK, NEW c \in Clusters, NEW o \in MemberObjects, Store(c, o)
  PROVE  member' \in [Clusters -> MemberObjects] /\ unseen' \subseteq Clusters
  BY DEF Store, TypeOK

LEMMA OpsTypeOK ==
  ASSUME TypeOK, NEW op \in ops \cup late, Answered(op) \/ OperationFails(op)
  PROVE  TypeOK'
<1>0. op \in Operations /\ op.cluster \in Clusters /\ op.base \in MemberObjects
  BY DEF TypeOK, Operations
<1>1. CASE CreateSucceeds(op)
  <2>1. Created(op) \in MemberObjects
    BY <1>0 DEF Created, MemberObjects, Operations
  <2>2. PICK failed : Finish(op, failed)
    BY <1>1 DEF CreateSucceeds
  <2> QED BY <1>0, <1>1, <2>1, <2>2, StoreTyped, FinishTyped DEF CreateSucceeds
<1>2. CASE CreateAdopts(op)
  <2>1. [op EXCEPT !.kind = "update", !.base = member[op.cluster]] \in Operations
    BY <1>0 DEF Operations, TypeOK
  <2> QED BY <1>2, <2>1 DEF CreateAdopts, TypeOK, opFrame
<1>3. CASE CreateRefused(op) \/ UpdateSkipped(op) \/ OperationFails(op)
  <2>1. PICK failed : Finish(op, failed)
    BY <1>3 DEF CreateRefused, UpdateSkipped, OperationFails
  <2>2. UNCHANGED <<opFrame, member, unseen>>
    BY <1>3 DEF CreateRefused, UpdateSkipped, OperationFails
  <2> QED BY <1>0, <2>1, <2>2, FinishTyped DEF TypeOK
<1>4. CASE UpdateAnswered(op)
  <2>1. PICK failed : Finish(op, failed)
    BY <1>4 DEF UpdateAnswered
  <2>2. member' \in [Clusters -> MemberObjects] /\ unseen' \subseteq Clusters
    BY <1>0, <1>4, UpdatedTyped, StoreTyped DEF UpdateAnswered, TypeOK
  <2> QED BY <1>0, <1>4, <2>1, <2>2, FinishTyped DEF UpdateAnswered
<1>5. CASE UnlabelAnswered(op)
  <2>1. PICK failed : Finish(op, failed)
    BY <1>5 DEF UnlabelAnswered
  <2>2. [op.base EXCEPT !.managed = FALSE] \in MemberObjects
    BY <1>0 DEF MemberObjects
  <2>3. member' \in [Clusters -> MemberObjects] /\ unseen' \subseteq Clusters
    BY <1>0, <1>5, <2>2, StoreTyped DEF UnlabelAnswered, TypeOK
  <2> QED BY <1>0, <1>5, <2>1, <2>3, FinishTyped DEF UnlabelAnswered
<1>6. CASE DeleteAnswered(op)
  <2>1. PICK failed : Finish(op, failed)
    BY <1>6 DEF DeleteAnswered
  <2>2. [member[op.cluster] EXCEPT !.deleting = TRUE] \in MemberObjects
    BY <1>0 DEF MemberObjects, TypeOK
  <2>3. member' \in [Clusters -> MemberObjects] /\ unseen' \subseteq Clusters
    BY <1>0, <1>6, <2>2, StoreTyped DEF DeleteAnswered, TypeOK
  <2> QED BY <1>0, <1>6, <2>1, <2>3, FinishTyped DEF DeleteAnswered
<1> QED BY <1>1, <1>2, <1>3, <1>4, <1>5, <1>6 DEF Answered

LEMMA ReconcileTypeOK ==
  ASSUME TypeOK, Reconcile \/ FedWriteFails \/ WaitTimesOut
  PROVE  TypeOK'
<1> USE DEF local, world
<1>1. CASE Ignore
  BY <1>1 DEF Ignore, TypeOK
<1>2. CASE Begin
  <2>1. fedCache.gen \in 0 .. MaxGen /\ 0 \in 0 .. MaxGen
    BY SyncAssumption DEF TypeOK, FedObjects
  <2> QED BY <1>2, <2>1, NoneTyped DEF Begin, TypeOK
<1>3. CASE EnsureFinalizer
  <2>1. CASE Return(TRUE) /\ UNCHANGED fed
    BY <1>3, <2>1, ReturnTyped DEF EnsureFinalizer, TypeOK
  <2>2. CASE ~Return(TRUE) \/ fed' # fed
    <3>1. pc' = "prepare" /\ fed' \in FedObjects /\ obj' \in FedObjects
      BY <1>3, <2>2, FedWriteTyped DEF EnsureFinalizer, TypeOK
    <3> QED BY <1>3, <2>2, <3>1 DEF EnsureFinalizer, TypeOK
  <2> QED BY <2>1, <2>2
<1>4. CASE DryRun
  BY <1>4, ReturnTyped DEF DryRun, TypeOK
<1>5. CASE PrepareToSync
  <2>1. obj.placement \in SUBSET Clusters /\ Recorded(obj) \in SUBSET Clusters /\ obj.status \in [Clusters -> Status]
    BY DEF TypeOK, FedObjects, Recorded
  <2>2. selected' \subseteq Clusters /\ requireSync' \subseteq Clusters
    BY <1>5, <2>1 DEF PrepareToSync
  <2>3. collected' \in [Clusters -> Status]
    BY <1>5, <2>1 DEF PrepareToSync, Status
  <2>4. pc' \in {"dispatch", "record"}
    BY <1>5 DEF PrepareToSync
  <2>5. /\ UNCHANGED <<fed, fedCache, member, memberCache, unseen, queued, obj, template, ops, late, world>>
        /\ listed' = cluster /\ pc = "prepare"
    BY <1>5 DEF PrepareToSync
  <2> QED BY <2>2, <2>3, <2>4, <2>5 DEF TypeOK
<1>6. CASE RecordPendingCreate
  <2>1. CASE Return(TRUE) /\ UNCHANGED fed
    BY <1>6, <2>1, ReturnTyped DEF RecordPendingCreate, TypeOK
  <2>2. CASE ~Return(TRUE) \/ fed' # fed
    <3>1. pc' \in {pc, "dispatch"} /\ fed' \in FedObjects /\ obj' \in FedObjects
      BY <1>6, <2>2, FedWriteTyped DEF RecordPendingCreate, TypeOK
    <3> QED BY <1>6, <2>2, <3>1 DEF RecordPendingCreate, TypeOK
  <2> QED BY <2>1, <2>2
<1>7. CASE SyncToClusters
  <2>1. PICK unreadable \in SUBSET Clusters :
          LET decision == [c \in requireSync |-> IF c \in unreadable THEN Unreadable(c) ELSE Decide(c)]
          IN  /\ ops' = {Operation(c, decision[c].operation, memberCache[c]) :
                           c \in {d \in requireSync : decision[d].operation # None}}
              /\ collected' = [c \in Clusters |-> IF c \in requireSync THEN decision[c].status ELSE None]
    BY <1>7 DEF SyncToClusters, TypeOK
  <2> DEFINE decision == [c \in requireSync |-> IF c \in unreadable THEN Unreadable(c) ELSE Decide(c)]
  <2>2. ASSUME NEW c \in requireSync
        PROVE  decision[c].operation \in {None, "create", "update", "delete"} /\ decision[c].status \in Status
    BY DecisionTyped DEF Unreadable, Decision, Status, TypeOK
  <2>3. /\ ops' = {Operation(c, decision[c].operation, memberCache[c]) :
                     c \in {d \in requireSync : decision[d].operation # None}}
        /\ collected' = [c \in Clusters |-> IF c \in requireSync THEN decision[c].status ELSE None]
    BY <2>1
  <2> HIDE DEF decision
  <2>4. ops' \subseteq Operations
    BY <2>2, <2>3, OperationTyped DEF TypeOK
  <2>5. collected' \in [Clusters -> Status]
    BY <2>2, <2>3 DEF Status
  <2> QED BY <1>7, <2>4, <2>5, NoneTyped, SyncAssumption DEF SyncToClusters, TypeOK
<1>8. CASE WaitReturns
  BY <1>8 DEF WaitReturns, TypeOK
<1>9. CASE SetFederatedStatus
  <2>1. FedWrite(obj) \in FedObjects
    BY <1>9, FedWriteTyped DEF SetFederatedStatus, TypeOK
  <2>2. CASE \E again \in BOOLEAN : Return(again)
    BY <1>9, <2>1, <2>2, ReturnTyped DEF SetFederatedStatus, TypeOK
  <2>3. CASE obj' = fed /\ UNCHANGED <<fed, pc, queued, template, selected, requireSync, listed, collected>>
    BY <1>9, <2>3 DEF SetFederatedStatus, TypeOK
  <2> QED BY <1>9, <2>2, <2>3 DEF SetFederatedStatus
<1>10. CASE HandleDeletionInClusters
  <2>1. PICK skipped \in SUBSET Clusters, remaining \in SUBSET Clusters :
          /\ ops' = {Operation(c, IF ShouldBeOrphaned(obj, memberCache[c]) THEN "unlabel"
                                     ELSE "delete", memberCache[c]) : c \in remaining}
          /\ collected' = [c \in Clusters |-> IF c \in skipped THEN "NotSynced"
                                                 ELSE IF c \in remaining THEN "WaitingForRemoval"
                                                 ELSE None]
    <3>1. PICK unreadable \in SUBSET Recorded(obj) :
            LET skipped == unreadable \cup {c \in Recorded(obj) : ~cluster[c].ready}
                remaining == {c \in Recorded(obj) \ skipped : memberCache[c].exists}
            IN  /\ ops' = {Operation(c, IF ShouldBeOrphaned(obj, memberCache[c]) THEN "unlabel"
                                        ELSE "delete", memberCache[c]) : c \in remaining}
                /\ collected' = [c \in Clusters |-> IF c \in skipped THEN "NotSynced"
                                                    ELSE IF c \in remaining THEN "WaitingForRemoval"
                                                    ELSE None]
      BY <1>10 DEF HandleDeletionInClusters
    <3> DEFINE skipped == unreadable \cup {c \in Recorded(obj) : ~cluster[c].ready}
               remaining == {c \in Recorded(obj) \ skipped : memberCache[c].exists}
    <3>2. skipped \in SUBSET Clusters /\ remaining \in SUBSET Clusters
      BY DEF Recorded
    <3>3. /\ ops' = {Operation(c, IF ShouldBeOrphaned(obj, memberCache[c]) THEN "unlabel"
                                  ELSE "delete", memberCache[c]) : c \in remaining}
          /\ collected' = [c \in Clusters |-> IF c \in skipped THEN "NotSynced"
                                              ELSE IF c \in remaining THEN "WaitingForRemoval"
                                              ELSE None]
      BY <3>1
    <3> HIDE DEF skipped, remaining
    <3> QED BY <3>2, <3>3
  <2>2. ops' \subseteq Operations
    BY <2>1, OperationTyped DEF TypeOK
  <2>3. collected' \in [Clusters -> Status]
    BY <2>1 DEF Status
  <2> QED BY <1>10, <2>2, <2>3 DEF HandleDeletionInClusters, TypeOK
<1>11. CASE RemovalReturns
  <2>1. CASE Return(TRUE)
    BY <1>11, <2>1, ReturnTyped DEF RemovalReturns, TypeOK
  <2>2. CASE ~Return(TRUE)
    BY <1>11, <2>2 DEF RemovalReturns, TypeOK
  <2> QED BY <2>1, <2>2
<1>12. CASE CheckObjectRemovedFromAllClusters
  <2>1. CASE Return(TRUE)
    BY <1>12, <2>1, ReturnTyped DEF CheckObjectRemovedFromAllClusters, TypeOK
  <2>2. CASE ~Return(TRUE)
    BY <1>12, <2>2 DEF CheckObjectRemovedFromAllClusters, TypeOK
  <2> QED BY <2>1, <2>2
<1>13. CASE RemoveFinalizer
  <2>1. fed' \in FedObjects
    BY <1>13, FedWriteTyped DEF RemoveFinalizer, TypeOK
  <2> QED BY <1>13, <2>1, ReturnTyped DEF RemoveFinalizer, TypeOK
<1>14. CASE FedWriteFails
  <2>1. fed' \in FedObjects
    BY <1>14, FedWriteTyped DEF FedWriteFails, TypeOK
  <2> QED BY <1>14, <2>1, ReturnTyped DEF FedWriteFails, TypeOK
<1>15. CASE WaitTimesOut
  BY <1>15, ReturnTyped DEF WaitTimesOut, TypeOK
<1> QED
  BY <1>1, <1>2, <1>3, <1>4, <1>5, <1>6, <1>7, <1>8, <1>9, <1>10, <1>11, <1>12, <1>13, <1>14, <1>15
  DEF Reconcile

LEMMA EnvironmentTypeOK ==
  ASSUME TypeOK, Environment \/ ObserveFed \/ (\E c \in Clusters : ObserveMember(c)) \/ Crash
  PROVE  TypeOK'
<1> USE DEF envFrame, local, world
<1>1. ASSUME NEW placement \in SUBSET Clusters, NEW pending \in BOOLEAN, EditSpec(placement, pending)
      PROVE  TypeOK'
  <2>1. fed' \in FedObjects
    <3>1. fed \in FedObjects /\ fed.gen + 1 \in 0 .. MaxGen
      BY <1>1, SyncAssumption DEF EditSpec, TypeOK, FedObjects
    <3>2. fed' = [fed EXCEPT !.gen = fed.gen + 1, !.placement = placement, !.pending = pending]
      BY <1>1 DEF EditSpec
    <3> QED BY <3>1, <3>2 DEF FedObjects
  <2> QED BY <1>1, <2>1 DEF EditSpec, TypeOK
<1>2. CASE FinishPipeline
  <2>1. fed' \in FedObjects
    BY <1>2 DEF FinishPipeline, TypeOK, FedObjects
  <2> QED BY <1>2, <2>1 DEF FinishPipeline, TypeOK
<1>3. CASE DeleteFed
  <2>1. fed' \in FedObjects
    BY <1>3, GoneTyped DEF DeleteFed, TypeOK, FedObjects
  <2> QED BY <1>3, <2>1 DEF DeleteFed, TypeOK
<1>4. ASSUME NEW c \in Clusters,
             ClusterFinalizerAdded(c) \/ ClusterReadiness(c) \/ \E cascade \in BOOLEAN : ClusterDeleted(c, cascade)
      PROVE  TypeOK'
  <2>1. CASE ClusterFinalizerAdded(c)
    BY <2>1 DEF ClusterFinalizerAdded, TypeOK, ClusterObjects
  <2>2. CASE ClusterReadiness(c)
    <3>1. [cluster[c] EXCEPT !.ready = ~cluster[c].ready] \in ClusterObjects
      BY DEF TypeOK, ClusterObjects
    <3>2. cluster' = [cluster EXCEPT ![c] = [cluster[c] EXCEPT !.ready = ~cluster[c].ready]]
      BY <2>2 DEF ClusterReadiness
    <3>3. events' \in 0 .. MaxEvents
      BY <2>2, SyncAssumption DEF ClusterReadiness, TypeOK
    <3>4. UNCHANGED <<envFrame, fed, member, unseen>> /\ queued' = TRUE
      BY <2>2 DEF ClusterReadiness
    <3> QED BY <3>1, <3>2, <3>3, <3>4 DEF TypeOK
  <2>3. ASSUME NEW cascade \in BOOLEAN, ClusterDeleted(c, cascade) PROVE TypeOK'
    <3>1. [cluster[c] EXCEPT !.deleting = TRUE, !.cascade = cascade] \in ClusterObjects
      <4>1. cluster[c] \in ClusterObjects
        BY DEF TypeOK
      <4> QED BY <4>1 DEF ClusterObjects
    <3> QED BY <2>3, <3>1, SyncAssumption DEF ClusterDeleted, TypeOK
  <2> QED BY <1>4, <2>1, <2>2, <2>3
<1>5. ASSUME NEW c \in Clusters, MemberGone(c) \/ MemberUser(c) PROVE TypeOK'
  <2>1. UserObject \in MemberObjects
    BY NoneTyped DEF UserObject, MemberObjects
  <2>2. member' \in [Clusters -> MemberObjects] /\ unseen' \subseteq Clusters
    BY <1>5, <2>1, NoneTyped, StoreTyped DEF MemberGone, MemberUser
  <2> QED BY <1>5, <2>2, SyncAssumption DEF MemberGone, MemberUser, TypeOK
<1>6. CASE ObserveFed
  BY <1>6 DEF ObserveFed, TypeOK
<1>7. ASSUME NEW c \in Clusters PROVE Managed(c) \in MemberObjects
  BY NoneTyped DEF Managed, TypeOK
<1>8. ASSUME NEW c \in Clusters, ObserveMember(c) PROVE TypeOK'
  BY <1>7, <1>8 DEF ObserveMember, TypeOK
<1>9. CASE Crash
  BY <1>7, <1>9, NoneTyped, SyncAssumption DEF Crash, Forget, TypeOK
<1> QED BY <1>1, <1>2, <1>3, <1>4, <1>5, <1>6, <1>8, <1>9 DEF Environment

LEMMA InitTypeOK == Init => TypeOK
<1> SUFFICES ASSUME Init PROVE TypeOK
  OBVIOUS
<1>1. fed \in FedObjects
  <2>1. 1 \in 0 .. MaxGen /\ 0 \in 0 .. MaxGen
    BY SyncAssumption
  <2> QED BY <2>1, NoneTyped, SyncAssumption DEF Init, FedObjects
<1>2. UserObject \in MemberObjects
  BY NoneTyped DEF UserObject, MemberObjects
<1> QED BY <1>1, <1>2, NoneTyped, SyncAssumption DEF Init, TypeOK

LEMMA NextTypeOK == TypeOK /\ [Next]_vars => TypeOK'
<1>1. ASSUME TypeOK, UNCHANGED vars PROVE TypeOK'
  BY <1>1 DEF TypeOK, vars
<1> QED BY <1>1, OpsTypeOK, ReconcileTypeOK, EnvironmentTypeOK DEF Next

(* Type correctness of the sync controller: generations stay within what users made, and
   the operations and statuses are of the kinds listed. *)
THEOREM TypeCorrect == Spec => []TypeOK
  BY InitTypeOK, NextTypeOK, PTL DEF Spec

-----------------------------------------------------------------------------
(* The operations leave the federated object, its copies and reconcile's place alone. *)
LEMMA OpsFrame ==
  ASSUME NEW op, Answered(op) \/ OperationFails(op)
  PROVE  UNCHANGED opFrame
  BY DEF Answered, CreateSucceeds, CreateAdopts, CreateRefused, UpdateSkipped, UpdateAnswered,
     UnlabelAnswered, DeleteAnswered, OperationFails

(* What the four writes to the federated object do. *)
LEMMA FedWriteEffect ==
  ASSUME NEW o \in FedObjects
  PROVE  /\ pc \in {"finalizer", "record", "status"} =>
              /\ FedWrite(o).exists = o.exists /\ FedWrite(o).deleting = o.deleting
              /\ FedWrite(o).pending = o.pending /\ FedWrite(o).gen = o.gen
              /\ FedWrite(o).kind = o.kind
              /\ FedWrite(o).finalizer = (pc = "finalizer" \/ o.finalizer)
         /\ pc = "finalizer" => FedWrite(o).status = o.status
         /\ pc \in {"record", "status"} => FedWrite(o).status = collected
         /\ pc = "status" => FedWrite(o).syncedGen = o.gen
         /\ pc = "unfinalize" => FedWrite(o) = Gone(o)
  BY DEF FedWrite, FedObjects

(* What the environment does to the federated object. *)
LEMMA EnvFed ==
  ASSUME TypeOK, NEW placement \in SUBSET Clusters, NEW pending \in BOOLEAN,
         EditSpec(placement, pending) \/ FinishPipeline \/ DeleteFed
  PROVE  /\ fed.exists /\ fed'.kind = fed.kind
         /\ fed'.deleting => fed.deleting \/ fed'.finalizer
         /\ \/ /\ fed'.exists /\ fed'.finalizer = fed.finalizer /\ fed'.status = fed.status
               /\ fed.deleting => fed'.deleting
            \/ ~fed.finalizer /\ ~fed.deleting /\ fed' = Gone(fed)
         /\ UNCHANGED <<fedCache, member, memberCache, unseen, queued, pc, ops, late, local, cluster>>
<1> USE DEF envFrame, world
<1>1. CASE EditSpec(placement, pending)
  <2>1. UNCHANGED <<fedCache, member, memberCache, unseen, queued, pc, ops, late, local, cluster>>
    BY <1>1 DEF EditSpec
  <2> QED BY <1>1, <2>1 DEF EditSpec, TypeOK, FedObjects
<1>2. CASE FinishPipeline
  <2>1. UNCHANGED <<fedCache, member, memberCache, unseen, queued, pc, ops, late, local, cluster>>
    BY <1>2 DEF FinishPipeline
  <2> QED BY <1>2, <2>1 DEF FinishPipeline, TypeOK, FedObjects
<1>3. CASE DeleteFed
  <2>1. UNCHANGED <<fedCache, member, memberCache, unseen, queued, pc, ops, late, local, cluster>>
    BY <1>3 DEF DeleteFed
  <2>2. CASE fed.finalizer
    BY <1>3, <2>1, <2>2 DEF DeleteFed, TypeOK, FedObjects
  <2>3. CASE ~fed.finalizer
    BY <1>3, <2>1, <2>3, GoneTyped DEF DeleteFed, TypeOK
  <2> QED BY <2>2, <2>3
<1> QED BY <1>1, <1>2, <1>3

(* The rest of the environment, and the informers of the member clusters. *)
LEMMA ElsewhereFrame ==
  ASSUME NEW c, \/ ClusterFinalizerAdded(c) \/ ClusterReadiness(c) \/ MemberGone(c) \/ MemberUser(c)
                \/ \E cascade \in BOOLEAN : ClusterDeleted(c, cascade)
                \/ ObserveMember(c)
  PROVE  UNCHANGED <<fed, fedCache, pc, ops, late, local>>
  BY DEF ClusterFinalizerAdded, ClusterReadiness, MemberGone, MemberUser, ClusterDeleted,
     ObserveMember, envFrame

LEMMA NextFinalizerInv == TypeOK /\ FinalizerInv /\ [Next]_vars => FinalizerInv'
<1> SUFFICES ASSUME TypeOK, FinalizerInv, [Next]_vars PROVE FinalizerInv'
  OBVIOUS
<1> USE DEF FinalizerInv, FinalizerHeld, Syncing, Removing
<1>1. CASE UNCHANGED <<fed, fedCache, pc, obj>>
  BY <1>1
<1>2. CASE pc' = "idle" /\ UNCHANGED <<fed, fedCache>>
  BY <1>2
<1>3. CASE /\ UNCHANGED <<fed, fedCache, obj>>
           /\ (pc \in Syncing /\ pc' \in Syncing) \/ (pc \in Removing /\ pc' \in Removing)
  BY <1>3
<1>4. CASE Begin
  BY <1>4 DEF Begin, Ignored
<1>5. CASE EnsureFinalizer
  <2>1. CASE obj.finalizer
    BY <1>3, <1>5, <2>1 DEF EnsureFinalizer, local
  <2>2. CASE ~obj.finalizer /\ obj = fed
    BY <1>5, <2>2, FedWriteEffect DEF EnsureFinalizer, TypeOK
  <2>3. CASE ~obj.finalizer /\ obj # fed
    BY <1>2, <1>5, <2>3 DEF EnsureFinalizer, Return
  <2> QED BY <2>1, <2>2, <2>3
<1>6. CASE RecordPendingCreate
  <2>1. CASE obj = fed
    <3>1. /\ pc = "record" /\ fed \in FedObjects
          /\ fed' = FedWrite(fed) /\ obj' = fed' /\ pc' = "dispatch" /\ fedCache' = fedCache
      BY <1>6, <2>1 DEF RecordPendingCreate, TypeOK
    <3>2. /\ fed'.exists = fed.exists /\ fed'.deleting = fed.deleting
          /\ fed'.finalizer = fed.finalizer /\ fed'.kind = fed.kind
      BY <3>1, FedWriteEffect
    <3> QED BY <2>1, <3>1, <3>2
  <2>2. CASE obj # fed
    BY <1>2, <1>6, <2>2 DEF RecordPendingCreate, Return
  <2> QED BY <2>1, <2>2
<1>7. CASE SetFederatedStatus
  <2>1. CASE UNCHANGED fed
    BY <1>1, <1>2, <1>7, <2>1 DEF SetFederatedStatus, Return
  <2>2. CASE obj = fed /\ fed' = FedWrite(obj) /\ pc' = "idle"
    BY <1>7, <2>2, FedWriteEffect DEF SetFederatedStatus, TypeOK
  <2> QED BY <1>7, <2>1, <2>2 DEF SetFederatedStatus, Return
<1>8. CASE RemoveFinalizer
  BY <1>2, <1>8, FedWriteEffect, GoneTyped DEF RemoveFinalizer, TypeOK, Return
<1>9. CASE FedWriteFails
  <2>1. CASE UNCHANGED fed
    BY <1>2, <1>9, <2>1 DEF FedWriteFails, Return
  <2>2. CASE obj = fed /\ fed' = FedWrite(fed)
    BY <1>9, <2>2, FedWriteEffect, GoneTyped DEF FedWriteFails, TypeOK, Return
  <2> QED BY <1>9, <2>1, <2>2 DEF FedWriteFails
<1>10. CASE DryRun \/ WaitTimesOut
  BY <1>2, <1>10 DEF DryRun, WaitTimesOut, Return
<1>11. CASE PrepareToSync \/ SyncToClusters \/ WaitReturns
  BY <1>3, <1>11 DEF PrepareToSync, SyncToClusters, WaitReturns, local
<1>12. CASE HandleDeletionInClusters \/ RemovalReturns \/ CheckObjectRemovedFromAllClusters
  BY <1>2, <1>3, <1>12 DEF HandleDeletionInClusters, RemovalReturns,
     CheckObjectRemovedFromAllClusters, local, Return
<1>13. CASE Ignore
  BY <1>1, <1>13 DEF Ignore, local
<1>14. CASE ObserveFed
  BY <1>14 DEF ObserveFed, local
<1>15. CASE Crash
  BY <1>15 DEF Crash
<1>16. ASSUME NEW placement \in SUBSET Clusters, NEW pending \in BOOLEAN,
              EditSpec(placement, pending) \/ FinishPipeline \/ DeleteFed
       PROVE  FinalizerInv'
  <2>1. /\ fed.exists
        /\ fed'.deleting => fed.deleting \/ fed'.finalizer
        /\ \/ /\ fed'.exists /\ fed'.finalizer = fed.finalizer
              /\ fed.deleting => fed'.deleting
           \/ ~fed.finalizer /\ ~fed.deleting /\ fed' = Gone(fed)
        /\ UNCHANGED <<fedCache, pc, obj>>
    BY <1>16, EnvFed DEF local
  <2> QED BY <2>1, GoneTyped DEF TypeOK
<1>17. ASSUME NEW op, Answered(op) \/ OperationFails(op) PROVE FinalizerInv'
  BY <1>1, <1>17, OpsFrame DEF opFrame
<1>18. CASE UNCHANGED vars
  BY <1>1, <1>18 DEF vars
<1>19. ASSUME NEW c, \/ ClusterFinalizerAdded(c) \/ ClusterReadiness(c) \/ MemberGone(c) \/ MemberUser(c)
                     \/ \E cascade \in BOOLEAN : ClusterDeleted(c, cascade)
                     \/ ObserveMember(c)
       PROVE  FinalizerInv'
  BY <1>1, <1>19, ElsewhereFrame DEF local
<1> HIDE DEF FinalizerInv
<1>20. ({} \in SUBSET Clusters) /\ FALSE \in BOOLEAN
  OBVIOUS
<1> QED
  BY <1>4, <1>5, <1>6, <1>7, <1>8, <1>9, <1>10, <1>11, <1>12, <1>13, <1>14, <1>15, <1>16, <1>17,
     <1>18, <1>19, <1>20
  DEF Next, Reconcile, Environment

LEMMA InitFinalizerInv == Init => FinalizerInv
  BY DEF Init, FinalizerInv, FinalizerHeld, Removing

(* From ensureFinalizer to setFederatedStatus the object in the API server has the
   finalizer, with every set of clusters and faults: the copy that skips the write of the
   finalizer may be old, but it is never one from before the finalizer was given up. *)
THEOREM FinalizerIsHeld == Spec => []FinalizerHeld
<1>1. FinalizerInv => FinalizerHeld
  BY DEF FinalizerInv
<1>2. TypeOK /\ FinalizerInv /\ [Next]_vars => (TypeOK /\ FinalizerInv)'
  BY NextTypeOK, NextFinalizerInv
<1> QED BY <1>1, <1>2, InitTypeOK, InitFinalizerInv, PTL DEF Spec

-----------------------------------------------------------------------------
(* An operation that answers ends, or is the Create that becomes an Update. *)
LEMMA FinishShrinks ==
  ASSUME NEW op, NEW failed, Finish(op, failed)
  PROVE  ops' \subseteq ops /\ late' \subseteq late
  BY DEF Finish

LEMMA OpsShrink ==
  ASSUME NEW op \in ops \cup late, Answered(op) \/ OperationFails(op), ~CreateAdopts(op)
  PROVE  (\E failed : Finish(op, failed)) /\ ops' \subseteq ops /\ late' \subseteq late
  BY FinishShrinks DEF Answered, CreateSucceeds, CreateRefused, UpdateSkipped, UpdateAnswered,
     UnlabelAnswered, DeleteAnswered, OperationFails

(* The operations SyncToClusters starts, one at most for each cluster of requireSync. *)
LEMMA SyncStarts ==
  ASSUME TypeOK, SyncToClusters
  PROVE  /\ \A op \in ops' :
              /\ op \in Operations /\ op.cluster \in requireSync
              /\ op.kind \in {"create", "update", "delete"} /\ op.base = memberCache[op.cluster]
              /\ op.kind = "update" => op.base.exists
              /\ op.kind \in {"create", "update"} => op.gen = template
              /\ op.adopt => obj.kind.adopt
              /\ collected'[op.cluster] \in {"OK", "WaitingForRemoval"}
              /\ op.kind = "delete" => collected'[op.cluster] # "OK"
         /\ \A c \in Clusters : collected'[c] = "OK" => \E op \in ops' : op.cluster = c
<1>1. PICK unreadable \in SUBSET Clusters :
        LET decision == [c \in requireSync |-> IF c \in unreadable THEN Unreadable(c) ELSE Decide(c)]
        IN  /\ ops' = {Operation(c, decision[c].operation, memberCache[c]) :
                         c \in {d \in requireSync : decision[d].operation # None}}
            /\ collected' = [c \in Clusters |-> IF c \in requireSync THEN decision[c].status ELSE None]
  BY DEF SyncToClusters, TypeOK
<1> DEFINE decision == [c \in requireSync |-> IF c \in unreadable THEN Unreadable(c) ELSE Decide(c)]
<1>2. /\ ops' = {Operation(c, decision[c].operation, memberCache[c]) :
                   c \in {d \in requireSync : decision[d].operation # None}}
      /\ collected' = [c \in Clusters |-> IF c \in requireSync THEN decision[c].status ELSE None]
  BY <1>1
<1>3. ASSUME NEW c \in requireSync
      PROVE  /\ c \in Clusters
             /\ decision[c].operation \in {None, "create", "update", "delete"}
             /\ decision[c].operation # None => decision[c].status \in {"OK", "WaitingForRemoval"}
             /\ decision[c].status = "OK" => decision[c].operation # None
             /\ decision[c].operation = "update" => memberCache[c].exists
             /\ decision[c].operation = "delete" => decision[c].status # "OK"
  BY DecisionTyped DEF Unreadable, Decision, Status, TypeOK, None
<1> HIDE DEF decision
<1>4. ASSUME NEW c \in requireSync, decision[c].operation # None
      PROVE  /\ Operation(c, decision[c].operation, memberCache[c]) \in Operations
             /\ Operation(c, decision[c].operation, memberCache[c]).cluster = c
             /\ Operation(c, decision[c].operation, memberCache[c]).kind = decision[c].operation
             /\ Operation(c, decision[c].operation, memberCache[c]).base = memberCache[c]
             /\ decision[c].operation \in {"create", "update"} =>
                  Operation(c, decision[c].operation, memberCache[c]).gen = template
             /\ Operation(c, decision[c].operation, memberCache[c]).adopt => obj.kind.adopt
  <2>1. Operation(c, decision[c].operation, memberCache[c]) \in Operations
    BY <1>3, <1>4, OperationTyped DEF TypeOK
  <2>2. Operation(c, decision[c].operation, memberCache[c]).adopt => obj.kind.adopt
    BY DEF Operation
  <2> QED BY <2>1, <2>2 DEF Operation
<1>5. ASSUME NEW op \in ops'
      PROVE  \E c \in requireSync : /\ decision[c].operation # None
                                    /\ op = Operation(c, decision[c].operation, memberCache[c])
  BY <1>2
<1>6. ASSUME NEW c \in Clusters, collected'[c] = "OK" PROVE \E op \in ops' : op.cluster = c
  <2>1. c \in requireSync /\ decision[c].operation # None
    BY <1>2, <1>3, <1>6 DEF None
  <2> QED BY <1>2, <1>4, <2>1
<1>7. ASSUME NEW c \in requireSync PROVE collected'[c] = decision[c].status
  BY <1>2, <1>3
<1> QED BY <1>3, <1>4, <1>5, <1>6, <1>7

(* Those of HandleDeletionInClusters. *)
LEMMA RemovalStarts ==
  ASSUME TypeOK, HandleDeletionInClusters
  PROVE  /\ \A op \in ops' :
              /\ op \in Operations /\ op.cluster \in Recorded(obj)
              /\ op.kind \in {"delete", "unlabel"} /\ ~op.adopt
              /\ collected'[op.cluster] = "WaitingForRemoval"
         /\ \A c \in Clusters : collected'[c] # "OK"
         /\ \A c \in Recorded(obj) : collected'[c] = None => ~memberCache[c].exists
<1>1. PICK unreadable \in SUBSET Recorded(obj) :
        LET skipped == unreadable \cup {c \in Recorded(obj) : ~cluster[c].ready}
            remaining == {c \in Recorded(obj) \ skipped : memberCache[c].exists}
        IN  /\ ops' = {Operation(c, IF ShouldBeOrphaned(obj, memberCache[c]) THEN "unlabel"
                                    ELSE "delete", memberCache[c]) : c \in remaining}
            /\ collected' = [c \in Clusters |-> IF c \in skipped THEN "NotSynced"
                                                ELSE IF c \in remaining THEN "WaitingForRemoval"
                                                ELSE None]
  BY DEF HandleDeletionInClusters
<1> DEFINE skipped == unreadable \cup {c \in Recorded(obj) : ~cluster[c].ready}
           remaining == {c \in Recorded(obj) \ skipped : memberCache[c].exists}
           kind(c) == IF ShouldBeOrphaned(obj, memberCache[c]) THEN "unlabel" ELSE "delete"
<1>2. /\ ops' = {Operation(c, kind(c), memberCache[c]) : c \in remaining}
      /\ collected' = [c \in Clusters |-> IF c \in skipped THEN "NotSynced"
                                          ELSE IF c \in remaining THEN "WaitingForRemoval"
                                          ELSE None]
  BY <1>1
<1>3. /\ remaining \subseteq Recorded(obj) /\ remaining \cap skipped = {} /\ Recorded(obj) \subseteq Clusters
      /\ \A c \in Recorded(obj) : c \notin skipped /\ c \notin remaining => ~memberCache[c].exists
  BY DEF Recorded
<1> HIDE DEF skipped, remaining
<1>4. \A c \in Clusters : collected'[c] = IF c \in skipped THEN "NotSynced"
                                          ELSE IF c \in remaining THEN "WaitingForRemoval"
                                          ELSE None
  BY <1>2
<1>5. ASSUME NEW c \in remaining
      PROVE  /\ Operation(c, kind(c), memberCache[c]) \in Operations
             /\ Operation(c, kind(c), memberCache[c]).cluster = c
             /\ Operation(c, kind(c), memberCache[c]).kind = kind(c)
             /\ ~Operation(c, kind(c), memberCache[c]).adopt
  <2>1. Operation(c, kind(c), memberCache[c]) \in Operations
    BY <1>3, OperationTyped DEF TypeOK
  <2>2. ~Operation(c, kind(c), memberCache[c]).adopt
    BY DEF Operation
  <2> QED BY <2>1, <2>2 DEF Operation
<1> QED BY <1>2, <1>3, <1>4, <1>5 DEF None

-----------------------------------------------------------------------------
(* A Create that goes on to an Update. *)
LEMMA AdoptsEffect ==
  ASSUME TypeOK, NEW op \in ops \cup late, CreateAdopts(op)
  PROVE  \E update \in Operations :
           /\ update.kind = "update" /\ update.cluster = op.cluster /\ update.gen = op.gen
           /\ update.adopt /\ op.adopt /\ op.kind = "create" /\ update.base = member[op.cluster]
           /\ \/ op \in ops /\ ops' = (ops \ {op}) \cup {update} /\ late' = late
              \/ op \notin ops /\ ops' = ops /\ late' = (late \ {op}) \cup {update}
           /\ UNCHANGED <<member, unseen, collected>>
<1> DEFINE update == [op EXCEPT !.kind = "update", !.base = member[op.cluster]]
<1>1. op \in Operations
  BY DEF TypeOK
<1>2. update \in Operations
  BY <1>1 DEF Operations, TypeOK
<1>3. /\ update.kind = "update" /\ update.cluster = op.cluster /\ update.gen = op.gen
      /\ update.adopt = op.adopt /\ update.base = member[op.cluster]
  BY <1>1 DEF Operations
<1>4. /\ op.adopt /\ op.kind = "create"
      /\ \/ op \in ops /\ ops' = (ops \ {op}) \cup {update} /\ late' = late
         \/ op \notin ops /\ ops' = ops /\ late' = (late \ {op}) \cup {update}
      /\ UNCHANGED <<member, unseen, collected>>
  BY DEF CreateAdopts
<1> HIDE DEF update
<1> QED BY <1>2, <1>3, <1>4

LEMMA NextAdoptionInv == TypeOK /\ AdoptionInv /\ [Next]_vars => AdoptionInv'
<1> SUFFICES ASSUME TypeOK, AdoptionInv, [Next]_vars PROVE AdoptionInv'
  OBVIOUS
<1> USE DEF AdoptionInv, local
<1>0. NoObject.exists = FALSE
  BY DEF NoObject
\* steps that start no operation and observe no cluster
<1>1. CASE /\ fed'.kind = fed.kind /\ UNCHANGED <<fedCache, memberCache>>
           /\ pc' = "idle" \/ obj'.kind = fed.kind
           /\ ops' \cup late' \subseteq ops \cup late
  BY <1>1
<1>2. CASE Begin
  BY <1>2 DEF Begin
<1>3. CASE EnsureFinalizer
  BY <1>1, <1>3, FedWriteEffect DEF EnsureFinalizer, TypeOK, Return
<1>4. CASE RecordPendingCreate
  BY <1>1, <1>4, FedWriteEffect DEF RecordPendingCreate, TypeOK, Return
<1>5. CASE SetFederatedStatus
  <2>1. fed'.kind = fed.kind
    <3>1. pc = "status" /\ fed \in FedObjects /\ (fed' = FedWrite(fed) \/ fed' = fed)
      BY <1>5 DEF SetFederatedStatus, TypeOK
    <3> QED BY <3>1, FedWriteEffect
  <2>2. UNCHANGED <<fedCache, memberCache, ops, late>> /\ (pc' = "idle" \/ obj' = fed)
    BY <1>5 DEF SetFederatedStatus, Return
  <2> QED BY <1>1, <2>1, <2>2
<1>6. CASE RemoveFinalizer
  BY <1>1, <1>6, FedWriteEffect, GoneTyped DEF RemoveFinalizer, TypeOK, Return
<1>7. CASE FedWriteFails
  <2>1. fed'.kind = fed.kind
    BY <1>7, FedWriteEffect, GoneTyped DEF FedWriteFails, TypeOK
  <2> QED BY <1>1, <1>7, <2>1 DEF FedWriteFails, Return
<1>8. CASE DryRun \/ WaitTimesOut
  BY <1>1, <1>8 DEF DryRun, WaitTimesOut, Return
<1>9. CASE Ignore \/ PrepareToSync \/ WaitReturns
  BY <1>9 DEF Ignore, PrepareToSync, WaitReturns
<1>10. CASE SyncToClusters
  <2>1. UNCHANGED <<fed, fedCache, memberCache, obj, late>> /\ pc # "idle"
    BY <1>10 DEF SyncToClusters
  <2>2. ASSUME NEW op \in ops'
        PROVE  (op.adopt => obj.kind.adopt) /\ (op.kind = "update" => op.base.managed)
    BY <1>10, <2>2, SyncStarts DEF TypeOK
  <2> QED BY <2>1, <2>2
<1>11. CASE HandleDeletionInClusters
  <2>1. UNCHANGED <<fed, fedCache, memberCache, obj, late>> /\ pc # "idle"
    BY <1>11 DEF HandleDeletionInClusters
  <2>2. \A op \in ops' : ~op.adopt /\ op.kind # "update"
    BY <1>11, RemovalStarts
  <2> QED BY <2>1, <2>2
<1>12. CASE RemovalReturns \/ CheckObjectRemovedFromAllClusters
  BY <1>1, <1>12 DEF RemovalReturns, CheckObjectRemovedFromAllClusters, Return
<1>13. ASSUME NEW op \in ops \cup late, Answered(op) \/ OperationFails(op) PROVE AdoptionInv'
  <2>1. UNCHANGED <<fed, fedCache, memberCache, pc, obj>>
    BY <1>13, OpsFrame DEF opFrame
  <2>2. CASE CreateAdopts(op)
    <3>1. PICK update \in Operations :
            update.adopt /\ op.adopt /\ ops' \cup late' \subseteq ops \cup late \cup {update}
      BY <2>2, AdoptsEffect
    <3> QED BY <2>1, <3>1
  <2>3. CASE ~CreateAdopts(op)
    BY <1>13, <2>1, <2>3, OpsShrink
  <2> QED BY <2>2, <2>3
<1>14. CASE ObserveFed
  BY <1>14 DEF ObserveFed
<1>15. ASSUME NEW c \in Clusters, ObserveMember(c) PROVE AdoptionInv'
  <2>1. Managed(c).exists => Managed(c).managed
    BY <1>0 DEF Managed
  <2>2. \A d \in Clusters : memberCache'[d] \in {memberCache[d], Managed(c)}
    BY <1>15 DEF ObserveMember, TypeOK
  <2> QED BY <1>15, <2>1, <2>2 DEF ObserveMember
<1>16. CASE Crash
  <2>1. \A c \in Clusters : Managed(c).exists => Managed(c).managed
    BY <1>0 DEF Managed
  <2> QED BY <1>16, <2>1 DEF Crash
<1>17. ASSUME NEW placement \in SUBSET Clusters, NEW pending \in BOOLEAN,
              EditSpec(placement, pending) \/ FinishPipeline \/ DeleteFed
       PROVE  AdoptionInv'
  BY <1>17, EnvFed
<1>18. ASSUME NEW c, \/ ClusterFinalizerAdded(c) \/ ClusterReadiness(c) \/ MemberGone(c) \/ MemberUser(c)
                     \/ \E cascade \in BOOLEAN : ClusterDeleted(c, cascade)
       PROVE  AdoptionInv'
  <2>1. UNCHANGED <<fed, fedCache, pc, ops, late, local>>
    BY <1>18, ElsewhereFrame
  <2>2. UNCHANGED memberCache
    BY <1>18 DEF ClusterFinalizerAdded, ClusterReadiness, MemberGone, MemberUser, ClusterDeleted, envFrame
  <2> QED BY <2>1, <2>2
<1>19. CASE UNCHANGED vars
  BY <1>19 DEF vars
<1> HIDE DEF AdoptionInv
<1>20. ({} \in SUBSET Clusters) /\ FALSE \in BOOLEAN
  OBVIOUS
<1> QED
  BY <1>2, <1>3, <1>4, <1>5, <1>6, <1>7, <1>8, <1>9, <1>10, <1>11, <1>12, <1>13, <1>14, <1>15, <1>16,
     <1>17, <1>18, <1>19, <1>20
  DEF Next, Reconcile, Environment

LEMMA InitAdoptionInv == Init => AdoptionInv
  BY DEF Init, AdoptionInv, NoObject

(* No operation makes a managed object of one that exists and is not managed, unless the
   federated object adopts. *)
LEMMA StepNoCapture ==
  ASSUME TypeOK, AdoptionInv, [Next]_vars, NEW c \in Clusters,
         member[c].exists, ~member[c].managed, member'[c].managed
  PROVE  fed.kind.adopt
<1>1. ASSUME NEW op \in ops \cup late, Answered(op) \/ OperationFails(op)
      PROVE  fed.kind.adopt
  <2>0. op \in Operations /\ op.cluster \in Clusters /\ op.base \in MemberObjects
    BY DEF TypeOK, Operations
  <2>1. CASE CreateSucceeds(op)
    BY <2>0, <2>1 DEF CreateSucceeds, Store, TypeOK
  <2>2. CASE UpdateAnswered(op)
    BY <2>0, <2>2 DEF UpdateAnswered, Store, TypeOK, AdoptionInv
  <2>3. CASE UnlabelAnswered(op)
    <3> DEFINE bare == [op.base EXCEPT !.managed = FALSE]
    <3>1. ~bare.managed
      BY <2>0 DEF MemberObjects
    <3> HIDE DEF bare
    <3>2. member' = [member EXCEPT ![op.cluster] = bare] \/ member' = member
      BY <2>3 DEF UnlabelAnswered, Store, bare
    <3>3. member'[c] = member[c] \/ member'[c] = bare
      BY <2>0, <3>2 DEF TypeOK
    <3> QED BY <3>1, <3>3
  <2>4. CASE DeleteAnswered(op)
    <3>1. [member[op.cluster] EXCEPT !.deleting = TRUE].managed = member[op.cluster].managed
      BY <2>0 DEF TypeOK, MemberObjects
    <3> QED BY <2>0, <2>4, <3>1 DEF DeleteAnswered, Store, TypeOK
  <2>5. CASE CreateAdopts(op) \/ CreateRefused(op) \/ UpdateSkipped(op) \/ OperationFails(op)
    BY <2>5 DEF CreateAdopts, CreateRefused, UpdateSkipped, OperationFails
  <2> QED BY <1>1, <2>1, <2>2, <2>3, <2>4, <2>5 DEF Answered
<1>2. ASSUME NEW d \in Clusters, MemberGone(d) \/ MemberUser(d) PROVE FALSE
  <2>1. ~NoObject.managed /\ ~UserObject.managed
    BY DEF NoObject, UserObject
  <2> QED BY <1>2, <2>1 DEF MemberGone, MemberUser, Store, TypeOK
<1>3. ASSUME UNCHANGED member PROVE FALSE
  BY <1>3
<1>4. CASE Reconcile \/ FedWriteFails \/ WaitTimesOut
  BY <1>3, <1>4 DEF Reconcile, Ignore, Begin, EnsureFinalizer, DryRun, PrepareToSync,
     RecordPendingCreate, SyncToClusters, WaitReturns, SetFederatedStatus,
     HandleDeletionInClusters, RemovalReturns, CheckObjectRemovedFromAllClusters, RemoveFinalizer,
     FedWriteFails, WaitTimesOut
<1>5. CASE ObserveFed \/ Crash \/ UNCHANGED vars
  BY <1>3, <1>5 DEF ObserveFed, Crash, vars
<1>6. ASSUME NEW d \in Clusters,
             \/ ClusterFinalizerAdded(d) \/ ClusterReadiness(d) \/ ObserveMember(d)
             \/ \E cascade \in BOOLEAN : ClusterDeleted(d, cascade)
      PROVE  FALSE
  BY <1>3, <1>6 DEF ClusterFinalizerAdded, ClusterReadiness, ObserveMember, ClusterDeleted
<1>7. ASSUME NEW placement, NEW pending, EditSpec(placement, pending) \/ FinishPipeline \/ DeleteFed
      PROVE  FALSE
  BY <1>3, <1>7 DEF EditSpec, FinishPipeline, DeleteFed
<1> QED BY <1>1, <1>2, <1>4, <1>5, <1>6, <1>7 DEF Next, Environment

(* No goroutine, late ones included, turns an object that a user created or that was
   orphaned into a managed one unless the federated object adopts: an Update carries the
   version of the object it was computed from, and that was a managed one. *)
THEOREM NothingIsCaptured == Spec => NoCapture
<1>1. TypeOK /\ AdoptionInv /\ [Next]_vars => (TypeOK /\ AdoptionInv)'
  BY NextTypeOK, NextAdoptionInv
<1>2. ASSUME TypeOK, AdoptionInv, [Next]_vars
      PROVE  [\A c \in Clusters : member[c].exists /\ ~member[c].managed /\ member'[c].managed
                                    => fed.kind.adopt]_vars
  BY <1>2, StepNoCapture
<1> QED BY <1>1, <1>2, InitTypeOK, InitAdoptionInv, PTL DEF Spec, NoCapture

-----------------------------------------------------------------------------
(* A change the environment makes is one the cache has not seen yet. *)
LEMMA EnvFedIsNew ==
  ASSUME TypeOK, FinalizerInv, CopiesInv, NEW placement \in SUBSET Clusters, NEW pending \in BOOLEAN,
         EditSpec(placement, pending) \/ FinishPipeline \/ DeleteFed
  PROVE  /\ fed' # fedCache
         /\ fed'.exists => /\ fedCache.gen <= fed'.gen
                           /\ fedCache.gen = fed'.gen /\ ~fedCache.pending => ~fed'.pending
<1>0. fed \in FedObjects /\ fedCache \in FedObjects /\ fed.gen \in Nat /\ fedCache.gen \in Nat
  BY SyncAssumption DEF TypeOK, FedObjects
<1>1. CASE EditSpec(placement, pending)
  <2>1. fed'.gen = fed.gen + 1 /\ fed.exists
    BY <1>0, <1>1 DEF EditSpec, FedObjects
  <2> QED BY <1>0, <2>1 DEF CopiesInv
<1>2. CASE FinishPipeline
  <2>1. /\ fed'.gen = fed.gen /\ fed'.pending = FALSE /\ fed.pending /\ fed.exists
    BY <1>0, <1>2 DEF FinishPipeline, FedObjects
  <2> QED BY <1>0, <2>1 DEF CopiesInv
<1>3. CASE DeleteFed
  <2>1. CASE fed.finalizer
    <3>1. fed'.deleting /\ fed'.gen = fed.gen /\ fed'.pending = fed.pending /\ fed.exists /\ ~fed.deleting
      BY <1>0, <1>3, <2>1 DEF DeleteFed, FedObjects
    <3> QED BY <1>0, <3>1 DEF CopiesInv, FinalizerInv
  <2>2. CASE ~fed.finalizer
    <3>1. ~fed'.exists /\ fed.exists
      BY <1>0, <1>3, <2>2, GoneTyped DEF DeleteFed
    <3> QED BY <3>1 DEF FinalizerInv
  <2> QED BY <2>1, <2>2
<1> QED BY <1>1, <1>2, <1>3

LEMMA ReconcileFrame ==
  ASSUME Reconcile \/ FedWriteFails \/ WaitTimesOut
  PROVE  UNCHANGED <<fedCache, member, memberCache, unseen, cluster, events>>
  BY DEF Reconcile, Ignore, Begin, EnsureFinalizer, DryRun, PrepareToSync,
     RecordPendingCreate, SyncToClusters, WaitReturns, SetFederatedStatus,
     HandleDeletionInClusters, RemovalReturns, CheckObjectRemovedFromAllClusters, RemoveFinalizer,
     FedWriteFails, WaitTimesOut, world

(* Whatever changes an object in a member cluster is an event to come. *)
LEMMA StoreIsUnseen ==
  ASSUME TypeOK, NEW c, NEW o, Store(c, o)
  PROVE  unseen \subseteq unseen' /\ c \in unseen' /\ \A d \in Clusters \ unseen' : member'[d] = member[d]
  BY DEF Store, TypeOK

LEMMA OpsUnseen ==
  ASSUME TypeOK, NEW op \in ops \cup late, Answered(op) \/ OperationFails(op)
  PROVE  unseen \subseteq unseen' /\ \A d \in Clusters \ unseen' : member'[d] = member[d]
<1>1. CASE \E o : Store(op.cluster, o)
  BY <1>1, StoreIsUnseen
<1>2. CASE UNCHANGED <<member, unseen>>
  BY <1>2
<1> QED BY <1>1, <1>2 DEF Answered, CreateSucceeds, CreateAdopts, CreateRefused, UpdateSkipped,
           UpdateAnswered, UnlabelAnswered, DeleteAnswered, OperationFails

LEMMA ElsewhereUnseen ==
  ASSUME TypeOK, NEW c, \/ ClusterFinalizerAdded(c) \/ ClusterReadiness(c) \/ MemberGone(c) \/ MemberUser(c)
                        \/ \E cascade \in BOOLEAN : ClusterDeleted(c, cascade)
  PROVE  /\ UNCHANGED memberCache /\ (queued' = queued \/ queued')
         /\ unseen \subseteq unseen' /\ \A d \in Clusters \ unseen' : member'[d] = member[d]
<1>1. CASE \E o : Store(c, o)
  BY <1>1, StoreIsUnseen DEF ClusterFinalizerAdded, ClusterReadiness, MemberGone, MemberUser,
     ClusterDeleted, envFrame
<1>2. CASE UNCHANGED <<member, unseen>>
  BY <1>2 DEF ClusterFinalizerAdded, ClusterReadiness, MemberGone, MemberUser, ClusterDeleted, envFrame
<1> QED BY <1>1, <1>2 DEF ClusterFinalizerAdded, ClusterReadiness, MemberGone, MemberUser, ClusterDeleted

LEMMA NextCopiesInv ==
  ASSUME TypeOK, FinalizerInv, CopiesInv, [Next]_vars
  PROVE  CopiesInv'
<1> USE DEF CopiesInv, local
<1>1. CASE /\ UNCHANGED <<fed, fedCache, pc, obj, template, memberCache>> /\ (queued => queued')
           /\ unseen \subseteq unseen' /\ \A d \in Clusters \ unseen' : member'[d] = member[d]
  BY <1>1 DEF Managed
<1>2. CASE /\ UNCHANGED <<fedCache, member, memberCache, unseen>> /\ pc' = "idle"
           /\ fed'.exists => UNCHANGED fed \/ (fed.exists /\ fed'.gen = fed.gen /\ fed'.pending = fed.pending)
  BY <1>2 DEF Managed
<1>3. CASE /\ UNCHANGED <<fedCache, member, memberCache, unseen, queued, template>>
           /\ fed'.exists = fed.exists /\ fed'.gen = fed.gen /\ fed'.pending = fed.pending
           /\ obj' = fed' /\ pc \in {"finalizer", "record", "status"}
           /\ pc' \in {pc, "prepare", "dispatch"} /\ (pc = "status" => pc' = "status")
  BY <1>3 DEF Managed
<1>4. CASE /\ UNCHANGED <<fed, fedCache, member, memberCache, unseen, queued, obj>> /\ pc # "idle"
           /\ pc' \in {"finalizer", "prepare", "record", "dispatch"} =>
                pc \in {"finalizer", "prepare", "record", "dispatch"} /\ UNCHANGED template
  BY <1>4 DEF Managed
<1>5. CASE Begin
  BY <1>5 DEF Begin, Managed, world, Ignored
<1>6. CASE Ignore
  BY <1>6 DEF Ignore, Managed, world
<1>7. CASE EnsureFinalizer
  <2>1. CASE obj.finalizer
    BY <1>4, <1>7, <2>1 DEF EnsureFinalizer
  <2>2. CASE ~obj.finalizer /\ obj = fed
    BY <1>3, <1>7, <2>2, FedWriteEffect DEF EnsureFinalizer, TypeOK
  <2>3. CASE ~obj.finalizer /\ obj # fed
    BY <1>2, <1>7, <2>3 DEF EnsureFinalizer, Return
  <2> QED BY <2>1, <2>2, <2>3
<1>8. CASE RecordPendingCreate
  <2>1. CASE obj = fed
    BY <1>3, <1>8, <2>1, FedWriteEffect DEF RecordPendingCreate, TypeOK
  <2>2. CASE obj # fed
    BY <1>2, <1>3, <1>8, <2>2 DEF RecordPendingCreate, Return
  <2> QED BY <2>1, <2>2
<1>9. CASE SetFederatedStatus
  <2>1. CASE UNCHANGED fed
    BY <1>2, <1>3, <1>9, <2>1 DEF SetFederatedStatus, Return
  <2>2. CASE obj = fed /\ fed' = FedWrite(obj) /\ pc' = "idle"
    BY <1>2, <1>9, <2>2, FedWriteEffect DEF SetFederatedStatus, TypeOK, FinalizerInv, FinalizerHeld
  <2> QED BY <1>9, <2>1, <2>2 DEF SetFederatedStatus, Return
<1>10. CASE RemoveFinalizer
  BY <1>2, <1>10, FedWriteEffect, GoneTyped DEF RemoveFinalizer, TypeOK, Return
<1>11. CASE FedWriteFails
  <2>1. CASE UNCHANGED fed
    BY <1>2, <1>11, <2>1 DEF FedWriteFails, Return
  <2>2. CASE obj = fed /\ fed' = FedWrite(fed)
    BY <1>2, <1>11, <2>2, FedWriteEffect, GoneTyped DEF FedWriteFails, TypeOK, Return
  <2> QED BY <1>11, <2>1, <2>2 DEF FedWriteFails
<1>12. CASE DryRun \/ WaitTimesOut
  BY <1>2, <1>12 DEF DryRun, WaitTimesOut, Return
<1>13. CASE PrepareToSync \/ SyncToClusters \/ WaitReturns
  BY <1>4, <1>13 DEF PrepareToSync, SyncToClusters, WaitReturns
<1>14. CASE HandleDeletionInClusters \/ RemovalReturns \/ CheckObjectRemovedFromAllClusters
  BY <1>2, <1>4, <1>14 DEF HandleDeletionInClusters, RemovalReturns,
     CheckObjectRemovedFromAllClusters, Return
<1>15. CASE ObserveFed
  <2>1. UNCHANGED <<fed, member, memberCache, unseen>> /\ fedCache' = fed /\ queued'
    BY <1>15 DEF ObserveFed
  <2>2. fed.gen \in Nat
    BY SyncAssumption DEF TypeOK, FedObjects
  <2> QED BY <2>1, <2>2 DEF Managed
<1>16. ASSUME NEW c \in Clusters, ObserveMember(c) PROVE CopiesInv'
  <2>1. \A d \in Clusters \ unseen' : memberCache'[d] = Managed(d)
    BY <1>16 DEF ObserveMember, TypeOK
  <2> QED BY <1>16, <2>1 DEF ObserveMember, Managed
<1>17. CASE Crash
  <2>1. fed.gen \in Nat
    BY SyncAssumption DEF TypeOK, FedObjects
  <2> QED BY <1>17, <2>1 DEF Crash, Managed
<1>18. ASSUME NEW placement \in SUBSET Clusters, NEW pending \in BOOLEAN,
              EditSpec(placement, pending) \/ FinishPipeline \/ DeleteFed
       PROVE  CopiesInv'
  <2>1. UNCHANGED <<fedCache, member, memberCache, unseen, queued, pc, template>>
    BY <1>18, EnvFed
  <2>2. /\ fed' # fedCache
        /\ fed'.exists => /\ fedCache.gen <= fed'.gen
                          /\ fedCache.gen = fed'.gen /\ ~fedCache.pending => ~fed'.pending
    BY <1>18, EnvFedIsNew
  <2> QED BY <2>1, <2>2 DEF Managed
<1>19. ASSUME NEW op \in ops \cup late, Answered(op) \/ OperationFails(op) PROVE CopiesInv'
  BY <1>1, <1>19, OpsFrame, OpsUnseen DEF opFrame
<1>20. ASSUME NEW c, \/ ClusterFinalizerAdded(c) \/ ClusterReadiness(c) \/ MemberGone(c) \/ MemberUser(c)
                     \/ \E cascade \in BOOLEAN : ClusterDeleted(c, cascade)
       PROVE  CopiesInv'
  BY <1>1, <1>20, ElsewhereFrame, ElsewhereUnseen
<1>21. CASE UNCHANGED vars
  BY <1>21 DEF vars, Managed
<1> HIDE DEF CopiesInv
<1>22. ({} \in SUBSET Clusters) /\ FALSE \in BOOLEAN
  OBVIOUS
<1> QED
  BY <1>5, <1>6, <1>7, <1>8, <1>9, <1>10, <1>11, <1>12, <1>13, <1>14, <1>15, <1>16, <1>17, <1>18,
     <1>19, <1>20, <1>21, <1>22
  DEF Next, Reconcile, Environment

(* Reconcile waits for its operations before it goes on. *)
LEMMA ReconcileOps ==
  ASSUME OpsInv, Reconcile \/ FedWriteFails \/ WaitTimesOut, ~SyncToClusters, ~HandleDeletionInClusters
  PROVE  ops' = {}
<1>1. CASE ops' = ops /\ pc \notin {"wait", "removalWait"}
  BY <1>1 DEF OpsInv
<1>2. CASE ops' = ops /\ ops = {}
  BY <1>2
<1> QED BY <1>1, <1>2 DEF Reconcile, Ignore, Begin, EnsureFinalizer, DryRun, PrepareToSync,
     RecordPendingCreate, WaitReturns, SetFederatedStatus, RemovalReturns,
     CheckObjectRemovedFromAllClusters, RemoveFinalizer, FedWriteFails, WaitTimesOut

LEMMA FinishCollects ==
  ASSUME TypeOK, NEW op, NEW failed, Finish(op, failed), NEW c \in Clusters, collected'[c] = "OK"
  PROVE  collected[c] = "OK" /\ (op \in ops /\ op.cluster = c => failed # TRUE)
  BY DEF Finish, TypeOK

LEMMA NextOpsInv ==
  ASSUME TypeOK, AdoptionInv, CopiesInv, OpsInv, [Next]_vars
  PROVE  OpsInv'
<1> USE DEF OpsInv, CurrentOp, local
<1>0. \A op \in ops : op \in Operations /\ op.cluster \in Clusters
  BY DEF TypeOK, Operations
<1>1. CASE /\ UNCHANGED <<pc, fedCache, collected, ops>> /\ (queued => queued')
           /\ unseen \subseteq unseen' /\ \A d \in Clusters \ unseen' : member'[d] = member[d]
  BY <1>0, <1>1
<1>2. CASE queued' /\ UNCHANGED <<pc, collected, ops>>
  BY <1>2
<1>3. CASE ops' = {}
  BY <1>3
<1>4. CASE SyncToClusters
  <2>1. ASSUME NEW op \in ops' PROVE CurrentOp(op)'
    <3>1. UNCHANGED <<fedCache, queued, member, unseen>> /\ pc = "dispatch"
      BY <1>4 DEF SyncToClusters
    <3>2. op \in Operations /\ op.cluster \in Clusters
      BY <1>4, SyncStarts DEF Operations
    <3>3. op.kind \in {"create", "update"} => queued \/ op.gen = fedCache.gen
      BY <1>4, <3>1, SyncStarts DEF CopiesInv
    <3>4. op.kind = "update" => op.cluster \in unseen \/ op.base = member[op.cluster]
      <4>1. ~NoObject.exists
        BY DEF NoObject
      <4>2. op.kind = "update" => op.base = memberCache[op.cluster] /\ op.base.exists
        BY <1>4, SyncStarts
      <4> QED BY <3>2, <4>1, <4>2 DEF CopiesInv, Managed
    <3>5. op.kind \in {"delete", "unlabel"} => collected'[op.cluster] # "OK"
      BY <1>4, SyncStarts
    <3> QED BY <3>1, <3>3, <3>4, <3>5
  <2> QED BY <1>4, <2>1 DEF SyncToClusters
<1>5. CASE HandleDeletionInClusters
  <2>1. \A op \in ops' : op.kind \in {"delete", "unlabel"} /\ collected'[op.cluster] = "WaitingForRemoval"
    BY <1>5, RemovalStarts
  <2> QED BY <1>5, <2>1 DEF HandleDeletionInClusters
<1>6. CASE Reconcile \/ FedWriteFails \/ WaitTimesOut
  BY <1>3, <1>4, <1>5, <1>6, ReconcileOps
<1>7. ASSUME NEW op \in ops \cup late, Answered(op) \/ OperationFails(op) PROVE OpsInv'
  <2>1. UNCHANGED <<fedCache, queued, pc>>
    BY <1>7, OpsFrame DEF opFrame
  <2>2. unseen \subseteq unseen' /\ \A d \in Clusters \ unseen' : member'[d] = member[d]
    BY <1>7, OpsUnseen
  <2>3. CASE CreateAdopts(op)
    <3>1. PICK update \in Operations :
            /\ update.kind = "update" /\ update.cluster = op.cluster /\ update.gen = op.gen
            /\ op.kind = "create" /\ update.base = member[op.cluster]
            /\ \/ op \in ops /\ ops' = (ops \ {op}) \cup {update}
               \/ op \notin ops /\ ops' = ops
            /\ UNCHANGED <<member, unseen, collected>>
      BY <2>3, AdoptsEffect
    <3>2. CASE ops' = ops
      BY <1>1, <2>1, <3>1, <3>2
    <3>3. CASE op \in ops /\ ops' = (ops \ {op}) \cup {update}
      BY <2>1, <3>1, <3>3
    <3> QED BY <3>1, <3>2, <3>3
  <2>4. CASE ~CreateAdopts(op)
    <3>1. PICK failed : Finish(op, failed)
      BY <1>7, <2>4, OpsShrink
    <3>2. ops' \subseteq ops
      BY <3>1, FinishShrinks
    <3>3. \A c \in Clusters : collected'[c] = "OK" => collected[c] = "OK"
      BY <3>1, FinishCollects
    <3> QED BY <1>0, <2>1, <2>2, <3>2, <3>3
  <2> QED BY <2>3, <2>4
<1>8. CASE ObserveFed
  BY <1>2, <1>8 DEF ObserveFed
<1>9. ASSUME NEW c \in Clusters, ObserveMember(c) PROVE OpsInv'
  BY <1>2, <1>9 DEF ObserveMember
<1>10. CASE Crash
  BY <1>3, <1>10 DEF Crash
<1>11. ASSUME NEW placement \in SUBSET Clusters, NEW pending \in BOOLEAN,
              EditSpec(placement, pending) \/ FinishPipeline \/ DeleteFed
       PROVE  OpsInv'
  BY <1>1, <1>11, EnvFed
<1>12. ASSUME NEW c, \/ ClusterFinalizerAdded(c) \/ ClusterReadiness(c) \/ MemberGone(c) \/ MemberUser(c)
                     \/ \E cascade \in BOOLEAN : ClusterDeleted(c, cascade)
       PROVE  OpsInv'
  BY <1>1, <1>12, ElsewhereFrame, ElsewhereUnseen
<1>13. CASE UNCHANGED vars
  BY <1>1, <1>13 DEF vars
<1> HIDE DEF OpsInv
<1>14. ({} \in SUBSET Clusters) /\ FALSE \in BOOLEAN
  OBVIOUS
<1> QED
  BY <1>6, <1>7, <1>8, <1>9, <1>10, <1>11, <1>12, <1>13, <1>14 DEF Next, Environment

(* An operation that ends well leaves its cluster synced, or with an event to come. *)
LEMMA OperationOutcome ==
  ASSUME TypeOK, OpsInv, ~queued, NEW op \in ops, Answered(op) \/ OperationFails(op),
         collected'[op.cluster] = "OK"
  PROVE  (\E update \in ops' : update.cluster = op.cluster) \/ Synced(op.cluster, fedCache.gen)'
<1>0. op \in Operations /\ op.cluster \in Clusters /\ op.base \in MemberObjects /\ CurrentOp(op)
  BY DEF TypeOK, Operations, OpsInv
<1>1. UNCHANGED <<fedCache, queued>>
  BY OpsFrame DEF opFrame
<1>2. CASE \E o : Store(op.cluster, o)
  BY <1>2, StoreIsUnseen DEF Synced
<1>3. CASE Finish(op, TRUE)
  BY <1>0, <1>3, FinishCollects
<1>4. CASE CreateAdopts(op)
  <2>1. PICK update \in Operations :
          /\ update.cluster = op.cluster
          /\ \/ op \in ops /\ ops' = (ops \ {op}) \cup {update}
             \/ op \notin ops /\ ops' = ops
    BY <1>4, AdoptsEffect
  <2> QED BY <2>1
<1>5. CASE UpdateSkipped(op)
  <2>1. op.base.managed /\ op.base.gen = op.gen
    BY <1>0, <1>5, UpdatedTyped DEF UpdateSkipped
  <2>2. op.gen = fedCache.gen /\ (op.cluster \in unseen \/ op.base = member[op.cluster])
    BY <1>0, <1>5 DEF UpdateSkipped, CurrentOp
  <2>3. UNCHANGED <<member, unseen>>
    BY <1>5 DEF UpdateSkipped
  <2> QED BY <1>1, <2>1, <2>2, <2>3 DEF Synced
<1>6. CASE UnlabelAnswered(op) \/ DeleteAnswered(op)
  <2>1. PICK failed : Finish(op, failed)
    BY <1>6 DEF UnlabelAnswered, DeleteAnswered
  <2>2. collected[op.cluster] = "OK"
    BY <1>0, <2>1, FinishCollects
  <2> QED BY <1>0, <1>6, <2>2 DEF UnlabelAnswered, DeleteAnswered, CurrentOp
<1> QED BY <1>2, <1>3, <1>4, <1>5, <1>6
        DEF Answered, CreateSucceeds, CreateRefused, UpdateAnswered, OperationFails

LEMMA NextRoundInv ==
  ASSUME TypeOK, OpsInv, RoundInv, [Next]_vars
  PROVE  RoundInv'
<1> USE DEF RoundInv, local
<1>1. CASE /\ UNCHANGED <<pc, fedCache, collected, ops>> /\ (queued => queued')
           /\ unseen \subseteq unseen' /\ \A d \in Clusters \ unseen' : member'[d] = member[d]
  BY <1>1 DEF Synced
<1>2. CASE queued' \/ pc' \notin {"wait", "status"}
  BY <1>2
<1>3. CASE SyncToClusters
  BY <1>3, SyncStarts
<1>4. CASE WaitReturns
  BY <1>4 DEF WaitReturns, Synced
<1>5. CASE SetFederatedStatus
  <2>1. CASE pc' = "idle"
    BY <1>2, <2>1
  <2>2. CASE UNCHANGED <<fed, pc, queued, template, selected, requireSync, listed, collected>>
    BY <1>1, <1>5, <2>2 DEF SetFederatedStatus
  <2> QED BY <1>5, <2>1, <2>2 DEF SetFederatedStatus, Return
<1>6. CASE Reconcile \/ FedWriteFails \/ WaitTimesOut
  <2>1. CASE Ignore \/ Begin \/ EnsureFinalizer \/ DryRun \/ PrepareToSync
    BY <1>2, <2>1 DEF Ignore, Begin, EnsureFinalizer, DryRun, PrepareToSync, Return
  <2>2. CASE RecordPendingCreate \/ HandleDeletionInClusters \/ RemovalReturns
    BY <1>2, <2>2 DEF RecordPendingCreate, HandleDeletionInClusters, RemovalReturns, Return
  <2>3. CASE CheckObjectRemovedFromAllClusters \/ RemoveFinalizer \/ FedWriteFails \/ WaitTimesOut
    BY <1>2, <2>3 DEF CheckObjectRemovedFromAllClusters, RemoveFinalizer, FedWriteFails,
       WaitTimesOut, Return
  <2> QED BY <1>3, <1>4, <1>5, <1>6, <2>1, <2>2, <2>3 DEF Reconcile
<1>7. ASSUME NEW op \in ops \cup late, Answered(op) \/ OperationFails(op) PROVE RoundInv'
  <2> SUFFICES ASSUME pc' \in {"wait", "status"}, ~queued', NEW c \in Clusters, collected'[c] = "OK"
               PROVE  (\E o \in ops' : o.cluster = c) \/ Synced(c, fedCache.gen)'
    OBVIOUS
  <2>1. UNCHANGED <<fedCache, queued, pc>>
    BY <1>7, OpsFrame DEF opFrame
  <2>2. unseen \subseteq unseen' /\ \A d \in Clusters \ unseen' : member'[d] = member[d]
    BY <1>7, OpsUnseen
  <2>3. collected[c] = "OK" /\ ops \ {op} \subseteq ops' /\ (op \notin ops => ops' = ops)
    <3>1. CASE CreateAdopts(op)
      BY <3>1 DEF CreateAdopts
    <3>2. CASE ~CreateAdopts(op)
      <4>1. PICK failed : Finish(op, failed)
        BY <1>7, <3>2, OpsShrink
      <4> QED BY <4>1, FinishCollects DEF Finish
    <3> QED BY <3>1, <3>2
  <2>4. CASE Synced(c, fedCache.gen)
    BY <2>1, <2>2, <2>4 DEF Synced
  <2>5. ASSUME NEW o \in ops, o.cluster = c
        PROVE  (\E u \in ops' : u.cluster = c) \/ Synced(c, fedCache.gen)'
    <3>1. CASE o # op \/ op \notin ops
      BY <2>3, <2>5, <3>1
    <3>2. CASE o = op
      BY <1>7, <2>1, <2>5, <3>2, OperationOutcome
    <3> QED BY <3>1, <3>2
  <2> QED BY <2>1, <2>3, <2>4, <2>5
<1>8. CASE ObserveFed \/ Crash
  BY <1>2, <1>8 DEF ObserveFed, Crash
<1>9. ASSUME NEW c \in Clusters, ObserveMember(c) PROVE RoundInv'
  BY <1>2, <1>9 DEF ObserveMember
<1>10. ASSUME NEW placement \in SUBSET Clusters, NEW pending \in BOOLEAN,
              EditSpec(placement, pending) \/ FinishPipeline \/ DeleteFed
       PROVE  RoundInv'
  BY <1>1, <1>10, EnvFed
<1>11. ASSUME NEW c, \/ ClusterFinalizerAdded(c) \/ ClusterReadiness(c) \/ MemberGone(c) \/ MemberUser(c)
                     \/ \E cascade \in BOOLEAN : ClusterDeleted(c, cascade)
       PROVE  RoundInv'
  BY <1>1, <1>11, ElsewhereFrame, ElsewhereUnseen
<1>12. CASE UNCHANGED vars
  BY <1>1, <1>12 DEF vars
<1> HIDE DEF RoundInv
<1>13. ({} \in SUBSET Clusters) /\ FALSE \in BOOLEAN
  OBVIOUS
<1> QED
  BY <1>6, <1>7, <1>8, <1>9, <1>10, <1>11, <1>12, <1>13 DEF Next, Environment

LEMMA NextRestInv ==
  ASSUME TypeOK, FinalizerInv, AdoptionInv, TruthInv, [Next]_vars
  PROVE  RestInv'
<1> USE DEF RestInv, local
<1>1. CASE /\ UNCHANGED <<pc, fed, fedCache>> /\ (queued => queued')
           /\ unseen \subseteq unseen' /\ \A d \in Clusters \ unseen' : member'[d] = member[d]
  BY <1>1 DEF Synced, Active, TruthInv
<1>2. CASE queued' \/ pc' # "idle" \/ fedCache' # fed' \/ ~Active'
  BY <1>2
<1>3. CASE Ignore
  <2>1. UNCHANGED <<fed, fedCache>> /\ Ignored(fedCache)
    BY <1>3 DEF Ignore
  <2>2. fedCache = fed => ~Active
    BY <2>1 DEF Ignored, Active
  <2> QED BY <1>2, <2>1, <2>2 DEF Active
<1>4. CASE DryRun
  <2>1. fed.kind.mode = "dryRun" /\ UNCHANGED fed
    BY <1>4 DEF DryRun, AdoptionInv
  <2> QED BY <1>2, <2>1 DEF Active
<1>5. CASE SetFederatedStatus
  <2> SUFFICES ASSUME pc' = "idle", ~queued', fedCache' = fed', Active'
               PROVE  /\ fed'.syncedGen = fed'.gen
                      /\ \A c \in Clusters : fed'.status[c] = "OK" => Synced(c, fed.gen)'
    BY <1>2
  <2>0. pc = "status" /\ obj \in FedObjects /\ fed \in FedObjects /\ UNCHANGED <<fedCache, member, unseen>>
    BY <1>5 DEF SetFederatedStatus, TypeOK
  <2>1. ~queued /\ ops = {}
    BY <1>5, <2>0 DEF SetFederatedStatus, Return, TruthInv, OpsInv
  <2>2. obj = fed /\ fed' = FedWrite(fed)
    <3>1. CASE FedWrite(obj) = obj /\ UNCHANGED fed
      BY <2>0, <2>1, <3>1 DEF TruthInv, CopiesInv
    <3>2. CASE obj = fed /\ fed' = FedWrite(obj)
      BY <3>2
    <3> QED BY <1>5, <2>0, <3>1, <3>2 DEF SetFederatedStatus, Return
  <2>3. fed'.status = collected /\ fed'.syncedGen = fed.gen /\ fed'.gen = fed.gen
    BY <2>0, <2>2, FedWriteEffect
  <2>4. \A c \in Clusters : collected[c] = "OK" => Synced(c, fedCache.gen)
    BY <2>0, <2>1 DEF TruthInv, RoundInv
  <2> QED BY <2>0, <2>3, <2>4 DEF Synced
<1>6. CASE RemoveFinalizer
  <2>1. CASE Return(TRUE)
    BY <1>2, <2>1 DEF Return
  <2>2. CASE fed' = FedWrite(fed)
    <3>1. ~fed'.exists
      BY <1>6, <2>2, FedWriteEffect, GoneTyped DEF RemoveFinalizer, TypeOK
    <3> QED BY <1>2, <3>1 DEF Active
  <2> QED BY <1>6, <2>1, <2>2 DEF RemoveFinalizer
<1>7. CASE Reconcile \/ FedWriteFails \/ WaitTimesOut
  <2>1. CASE Begin \/ EnsureFinalizer \/ PrepareToSync \/ RecordPendingCreate
    BY <1>2, <2>1 DEF Begin, EnsureFinalizer, PrepareToSync, RecordPendingCreate, Return
  <2>2. CASE SyncToClusters \/ WaitReturns \/ HandleDeletionInClusters \/ RemovalReturns
    BY <1>2, <2>2 DEF SyncToClusters, WaitReturns, HandleDeletionInClusters, RemovalReturns, Return
  <2>3. CASE CheckObjectRemovedFromAllClusters \/ FedWriteFails \/ WaitTimesOut
    BY <1>2, <2>3 DEF CheckObjectRemovedFromAllClusters, FedWriteFails, WaitTimesOut, Return
  <2> QED BY <1>3, <1>4, <1>5, <1>6, <1>7, <2>1, <2>2, <2>3 DEF Reconcile
<1>8. ASSUME NEW op \in ops \cup late, Answered(op) \/ OperationFails(op) PROVE RestInv'
  BY <1>1, <1>8, OpsFrame, OpsUnseen DEF opFrame
<1>9. CASE ObserveFed \/ Crash
  BY <1>2, <1>9 DEF ObserveFed, Crash
<1>10. ASSUME NEW c \in Clusters, ObserveMember(c) PROVE RestInv'
  BY <1>2, <1>10 DEF ObserveMember
<1>11. ASSUME NEW placement \in SUBSET Clusters, NEW pending \in BOOLEAN,
              EditSpec(placement, pending) \/ FinishPipeline \/ DeleteFed
       PROVE  RestInv'
  BY <1>2, <1>11, EnvFed, EnvFedIsNew DEF TruthInv
<1>12. ASSUME NEW c, \/ ClusterFinalizerAdded(c) \/ ClusterReadiness(c) \/ MemberGone(c) \/ MemberUser(c)
                     \/ \E cascade \in BOOLEAN : ClusterDeleted(c, cascade)
       PROVE  RestInv'
  BY <1>1, <1>12, ElsewhereFrame, ElsewhereUnseen
<1>13. CASE UNCHANGED vars
  BY <1>1, <1>13 DEF vars
<1> HIDE DEF RestInv
<1>14. ({} \in SUBSET Clusters) /\ FALSE \in BOOLEAN
  OBVIOUS
<1> QED
  BY <1>7, <1>8, <1>9, <1>10, <1>11, <1>12, <1>13, <1>14 DEF Next, Environment

LEMMA InitTruthInv == Init => TruthInv
<1> SUFFICES ASSUME Init PROVE TruthInv
  OBVIOUS
<1>1. \A c \in Clusters : ~member[c].managed
  BY DEF Init, NoObject, UserObject
<1>2. CopiesInv
  BY <1>1 DEF Init, CopiesInv, Managed
<1> QED BY <1>2 DEF Init, TruthInv, OpsInv, RoundInv, RestInv

(* No wakeup is lost, with every set of clusters, every number of generations and every
   combination of faults: when the key is not queued and the caches are current, the
   status is that of the current generation and true of every cluster it calls OK. *)
THEOREM RestIsTruthful == Spec => []QuietIsTruthful
<1> DEFINE Inv == TypeOK /\ FinalizerInv /\ AdoptionInv /\ TruthInv
<1>1. Init => Inv
  BY InitTypeOK, InitFinalizerInv, InitAdoptionInv, InitTruthInv
<1>2. Inv /\ [Next]_vars => Inv'
  <2> SUFFICES ASSUME Inv, [Next]_vars PROVE Inv'
    OBVIOUS
  <2>1. TypeOK' /\ FinalizerInv' /\ AdoptionInv'
    BY NextTypeOK, NextFinalizerInv, NextAdoptionInv
  <2>2. CopiesInv' /\ OpsInv' /\ RoundInv' /\ RestInv'
    BY NextCopiesInv, NextOpsInv, NextRoundInv, NextRestInv DEF TruthInv
  <2> QED BY <2>1, <2>2 DEF TruthInv
<1>3. Inv => QuietIsTruthful
  <2> SUFFICES ASSUME Inv, Quiet, Active, NEW c \in fed.placement
               PROVE  /\ fed.syncedGen = fed.gen
                      /\ fed.status[c] = "OK" => member[c].managed /\ member[c].gen = fed.gen
    BY DEF QuietIsTruthful, Quiet, TruthInv, RestInv
  <2>1. c \in Clusters
    BY DEF TypeOK, FedObjects
  <2> QED BY <2>1 DEF Quiet, TruthInv, RestInv, Synced
<1> HIDE DEF Inv
<1> QED BY <1>1, <1>2, <1>3, PTL DEF Spec

-----------------------------------------------------------------------------
(* A write to the federated object drops no record that is still needed. *)
LEMMA WriteKeepsRecord ==
  ASSUME TypeOK, FinalizerInv, RecordInv, fed' = FedWrite(fed), UNCHANGED <<member, cluster>>,
         pc \in {"finalizer", "record", "status", "unfinalize"}
  PROVE  /\ ~(fed'.exists /\ fed'.finalizer) => \A c \in Clusters : ~Owned(c)'
         /\ Tracked'
<1>0. fed \in FedObjects
  BY DEF TypeOK
<1>1. \A c \in Clusters : Owned(c)' <=> Owned(c)
  BY DEF Owned
<1>2. CASE pc = "finalizer"
  <2>1. fed'.exists = fed.exists /\ fed'.finalizer /\ fed'.status = fed.status
    BY <1>0, <1>2, FedWriteEffect
  <2>2. \A c \in Clusters : Owned(c) => fed.exists /\ fed.status[c] # None
    BY DEF RecordInv, Tracked, Owned
  <2> QED BY <1>1, <2>1, <2>2 DEF Tracked, Owned
<1>3. CASE pc \in {"record", "status"}
  <2>1. fed.exists /\ fed.finalizer
    BY <1>3 DEF FinalizerInv, FinalizerHeld
  <2>2. fed'.exists /\ fed'.finalizer /\ fed'.status = collected
    BY <1>0, <1>3, <2>1, FedWriteEffect
  <2>3. \A c \in Clusters : Owned(c) => collected[c] # None
    BY <1>3 DEF RecordInv, Tracked, Owned
  <2> QED BY <1>1, <2>1, <2>2, <2>3 DEF Tracked, Owned
<1>4. CASE pc = "unfinalize"
  <2>1. \A c \in Clusters : ~Owned(c)
    BY <1>4 DEF RecordInv
  <2> QED BY <1>1, <2>1 DEF Tracked, Owned
<1> QED BY <1>2, <1>3, <1>4

(* An operation gives the controller an object to answer for in its own cluster at most. *)
LEMMA OpsOwned ==
  ASSUME TypeOK, RecordInv, NEW op \in ops, Answered(op) \/ OperationFails(op)
  PROVE  /\ op.cluster \in Clusters
         /\ \A c \in Clusters : Owned(c)' => Owned(c) \/ c = op.cluster
         /\ \A c \in Clusters : member'[c].managed => member'[c].exists
<1>0. op \in Operations /\ op.cluster \in Clusters /\ op.base \in MemberObjects
  BY DEF TypeOK, Operations
<1>1. UNCHANGED cluster
  BY OpsFrame DEF opFrame
<1>2. CASE UNCHANGED member
  BY <1>0, <1>1, <1>2 DEF Owned, RecordInv
<1>3. ASSUME NEW o, Store(op.cluster, o), o.managed => o.exists
      PROVE  /\ \A c \in Clusters : Owned(c)' => Owned(c) \/ c = op.cluster
             /\ \A c \in Clusters : member'[c].managed => member'[c].exists
  BY <1>0, <1>1, <1>3 DEF Store, Owned, RecordInv, TypeOK
<1>4. CASE CreateSucceeds(op)
  BY <1>0, <1>3, <1>4 DEF CreateSucceeds, Created
<1>5. CASE UpdateAnswered(op)
  <2>1. op.base.exists /\ Updated(op).exists = op.base.exists
    BY <1>0, <1>5, UpdatedTyped DEF UpdateAnswered, RecordInv, RecordedOps
  <2> QED BY <1>0, <1>2, <1>3, <1>5, <2>1 DEF UpdateAnswered
<1>6. CASE UnlabelAnswered(op)
  <2>1. [op.base EXCEPT !.managed = FALSE].managed = FALSE
    BY <1>0 DEF MemberObjects
  <2> QED BY <1>0, <1>2, <1>3, <1>6, <2>1 DEF UnlabelAnswered
<1>7. CASE DeleteAnswered(op)
  <2>1. /\ [member[op.cluster] EXCEPT !.deleting = TRUE].managed = member[op.cluster].managed
        /\ [member[op.cluster] EXCEPT !.deleting = TRUE].exists = member[op.cluster].exists
    BY <1>0 DEF TypeOK, MemberObjects
  <2>2. member[op.cluster].managed => member[op.cluster].exists
    BY <1>0 DEF RecordInv
  <2> QED BY <1>0, <1>2, <1>3, <1>7, <2>1, <2>2 DEF DeleteAnswered
<1> QED BY <1>0, <1>2, <1>4, <1>5, <1>6, <1>7
        DEF Answered, CreateAdopts, CreateRefused, UpdateSkipped, OperationFails

(* What SyncToClusters leaves out of the statuses is not there, by a cache that is current. *)
LEMMA SyncLeavesOut ==
  ASSUME TypeOK, CopiesInv, RecordInv, SyncToClusters, unseen = {},
         NEW c \in Clusters, collected'[c] = None
  PROVE  ~Owned(c)
<1>1. PICK unreadable \in SUBSET Clusters :
        LET decision == [d \in requireSync |-> IF d \in unreadable THEN Unreadable(d) ELSE Decide(d)]
        IN  collected' = [d \in Clusters |-> IF d \in requireSync THEN decision[d].status ELSE None]
  BY DEF SyncToClusters, TypeOK
<1>2. memberCache[c] = Managed(c) /\ (member[c].managed => member[c].exists)
  BY DEF CopiesInv, RecordInv
<1>2a. listed[c].ready /\ (listed[c].deleting => cluster[c].deleting)
  BY DEF SyncToClusters, RecordInv
<1>3. CASE c \notin requireSync
  BY <1>3 DEF SyncToClusters, RecordInv, Recorded, Tracked, Owned
<1>4. CASE c \in requireSync
  <2>1. collected'[c] = IF c \in unreadable THEN "NotSynced" ELSE Decide(c).status
    BY <1>1, <1>4 DEF Unreadable, Decision
  <2>2. Decide(c).status = None
    BY <2>1 DEF None
  <2>3. cluster[c].deleting \/ ~memberCache[c].exists
    BY <1>2a, <2>2 DEF Decide, Decision, None
  <2> QED BY <1>2, <2>3 DEF Managed, Owned
<1> QED BY <1>3, <1>4

LEMMA NextRecordInv ==
  ASSUME Faults \cap Obscured = {},
         TypeOK, FinalizerInv, CopiesInv, OpsInv, RecordInv, [Next]_vars
  PROVE  RecordInv'
<1> USE DEF RecordInv, RecordedOps, Removing, local
<1>0. "fedLag" \notin Faults /\ "memberLag" \notin Faults /\ "timeout" \notin Faults /\ "unready" \notin Faults
  BY DEF Obscured
<1>a. ASSUME UNCHANGED <<member, cluster>>
      PROVE  /\ \A c \in Clusters : Owned(c)' <=> Owned(c)
             /\ \A c \in Clusters : cluster'[c].ready /\ (member'[c].managed => member'[c].exists)
  BY <1>a DEF Owned
<1>b. ASSUME \A c \in Clusters : Owned(c)' => Owned(c), fed' = fed
      PROVE  Tracked' /\ (~(fed'.exists /\ fed'.finalizer) => \A c \in Clusters : ~Owned(c)')
  BY <1>b DEF Tracked, Owned
<1>1. CASE /\ UNCHANGED <<fed, pc, obj, collected, requireSync, listed, ops, late>>
           /\ \A c \in Clusters : Owned(c)' => Owned(c)
           /\ \A c \in Clusters : cluster[c].deleting => cluster'[c].deleting
           /\ \A c \in Clusters : cluster'[c].ready /\ (member'[c].managed => member'[c].exists)
  <2>1. Tracked' /\ (~(fed'.exists /\ fed'.finalizer) => \A c \in Clusters : ~Owned(c)')
    BY <1>1, <1>b
  <2> QED BY <1>1, <2>1 DEF Recorded
<1>2. CASE UNCHANGED <<fed, member, cluster, late>> /\ pc' = "idle" /\ ops' = {}
  <2>1. Tracked' /\ (~(fed'.exists /\ fed'.finalizer) => \A c \in Clusters : ~Owned(c)')
    BY <1>2, <1>a, <1>b
  <2> QED BY <1>2, <1>a, <2>1
<1>3. CASE /\ fed' = FedWrite(fed) /\ UNCHANGED <<member, cluster, late>> /\ ops' = {} /\ pc' = "idle"
           /\ pc \in {"finalizer", "record", "status", "unfinalize"}
  <2>1. Tracked' /\ (~(fed'.exists /\ fed'.finalizer) => \A c \in Clusters : ~Owned(c)')
    BY <1>3, WriteKeepsRecord
  <2> QED BY <1>3, <1>a, <2>1
<1>4. CASE UNCHANGED <<fed, member, cluster, late>> /\ ops' = {} /\ pc' = "prepare" /\ pc = "finalizer" /\ UNCHANGED obj
  <2>1. Tracked' /\ (~(fed'.exists /\ fed'.finalizer) => \A c \in Clusters : ~Owned(c)')
    BY <1>4, <1>a, <1>b
  <2> QED BY <1>4, <1>a, <2>1
<1>5. CASE Reconcile \/ FedWriteFails \/ WaitTimesOut
  <2>0. UNCHANGED <<member, cluster>>
    BY <1>5, ReconcileFrame
  <2>1. CASE Ignore
    BY <1>1, <1>a, <2>0, <2>1 DEF Ignore
  <2>2. CASE Begin
    <3>1. ops' = {} /\ fedCache = fed
      BY <1>0, <2>2, ReconcileOps DEF Begin, FedFresh, OpsInv
    <3>2. Tracked' /\ (~(fed'.exists /\ fed'.finalizer) => \A c \in Clusters : ~Owned(c)')
      BY <1>a, <1>b, <2>0, <2>2 DEF Begin
    <3> QED BY <1>a, <2>0, <2>2, <3>1, <3>2 DEF Begin
  <2>3. CASE EnsureFinalizer
    <3>0. ops' = {} /\ late' = late /\ pc = "finalizer"
      BY <1>5, <2>3, ReconcileOps DEF EnsureFinalizer, SyncToClusters, HandleDeletionInClusters
    <3>1. CASE obj.finalizer
      BY <1>4, <2>0, <2>3, <3>0, <3>1 DEF EnsureFinalizer
    <3>2. CASE ~obj.finalizer /\ obj = fed
      <4>1. fed' = FedWrite(fed) /\ obj' = fed' /\ pc' = "prepare"
        BY <2>3, <3>2 DEF EnsureFinalizer
      <4>2. Tracked' /\ (~(fed'.exists /\ fed'.finalizer) => \A c \in Clusters : ~Owned(c)')
        BY <2>0, <3>0, <4>1, WriteKeepsRecord
      <4> QED BY <1>a, <2>0, <3>0, <4>1, <4>2
    <3>3. CASE ~obj.finalizer /\ obj # fed
      BY <1>2, <2>0, <2>3, <3>0, <3>3 DEF EnsureFinalizer, Return
    <3> QED BY <3>1, <3>2, <3>3
  <2>4. CASE DryRun
    BY <1>2, <2>0, <2>4, ReconcileOps DEF DryRun, Return, Reconcile, SyncToClusters, HandleDeletionInClusters
  <2>5. CASE PrepareToSync
    <3>0. ops' = {} /\ UNCHANGED <<fed, obj, late>> /\ pc = "prepare" /\ pc' \in {"record", "dispatch"}
      BY <1>5, <2>5, ReconcileOps DEF PrepareToSync, SyncToClusters, HandleDeletionInClusters
    <3>1. fed.exists /\ obj.status = fed.status /\ Recorded(obj) = Recorded(fed) /\ Recorded(obj) \subseteq Clusters
      BY <3>0 DEF FinalizerInv, FinalizerHeld, Recorded
    <3>2. Tracked' /\ (~(fed'.exists /\ fed'.finalizer) => \A c \in Clusters : ~Owned(c)')
      BY <1>a, <1>b, <2>0, <3>0
    <3>3. PICK new \in SUBSET Clusters :
            /\ requireSync' = Recorded(obj) \cup new
            /\ collected' = [c \in Clusters |-> IF c \in new THEN "PendingCreate" ELSE obj.status[c]]
            /\ pc' = "dispatch" => new = {}
      <4> DEFINE sel == IF obj.kind.mode = "centralizedHPA" THEN {} ELSE obj.placement
                 new == {c \in sel \ Recorded(obj) : ~cluster[c].deleting}
      <4>1. /\ requireSync' = Recorded(obj) \cup new
            /\ collected' = [c \in Clusters |-> IF c \in new THEN "PendingCreate" ELSE obj.status[c]]
            /\ pc' = "dispatch" => new = {}
        BY <2>5 DEF PrepareToSync
      <4>2. new \in SUBSET Clusters
        BY DEF TypeOK, FedObjects
      <4> HIDE DEF new
      <4> QED BY <4>1, <4>2
    <3>4. \A c \in Clusters : /\ collected'[c] # None <=> c \in requireSync'
                              /\ fed'.status[c] # None => c \in requireSync'
      BY <3>0, <3>1, <3>3 DEF Recorded, None
    <3>5. pc' = "dispatch" => requireSync' = Recorded(fed')
      BY <3>0, <3>1, <3>3
    <3>6. \A c \in Clusters : listed'[c].ready /\ (listed'[c].deleting => cluster'[c].deleting)
      BY <2>0, <2>5 DEF PrepareToSync
    <3> QED BY <1>a, <2>0, <3>0, <3>1, <3>2, <3>4, <3>5, <3>6
  <2>6. CASE RecordPendingCreate
    <3>0. ops' = {} /\ late' = late /\ pc = "record" /\ fed.exists
      BY <1>5, <2>6, ReconcileOps
      DEF RecordPendingCreate, SyncToClusters, HandleDeletionInClusters, FinalizerInv, FinalizerHeld
    <3>1. CASE obj = fed
      <4>1. fed' = FedWrite(fed) /\ obj' = fed' /\ pc' = "dispatch" /\ UNCHANGED <<requireSync, listed>>
        BY <2>6, <3>1 DEF RecordPendingCreate
      <4>2. fed'.status = collected
        BY <3>0, <4>1, FedWriteEffect DEF TypeOK
      <4>3. Tracked' /\ (~(fed'.exists /\ fed'.finalizer) => \A c \in Clusters : ~Owned(c)')
        BY <2>0, <3>0, <4>1, WriteKeepsRecord
      <4>4. requireSync' = Recorded(fed')
        BY <3>0, <4>1, <4>2 DEF Recorded, TypeOK
      <4> QED BY <1>a, <2>0, <3>0, <4>1, <4>3, <4>4
    <3>2. CASE UNCHANGED fed /\ Return(TRUE)
      BY <1>2, <2>0, <3>0, <3>2 DEF Return
    <3>3. CASE UNCHANGED <<fed, pc, requireSync, listed, collected>> /\ obj' = fed
      <4>1. Tracked' /\ (~(fed'.exists /\ fed'.finalizer) => \A c \in Clusters : ~Owned(c)')
        BY <1>a, <1>b, <2>0, <3>3
      <4> QED BY <1>a, <2>0, <3>0, <3>3, <4>1
    <3> QED BY <2>6, <3>1, <3>2, <3>3 DEF RecordPendingCreate
  <2>7. CASE SyncToClusters
    <3>0. UNCHANGED <<fed, obj, late>> /\ pc = "dispatch" /\ pc' = "wait" /\ unseen = {}
      BY <1>0, <2>7 DEF SyncToClusters, MemberFresh
    <3>1. \A c \in Clusters : collected'[c] = None => ~Owned(c)'
      BY <1>a, <2>0, <2>7, <3>0, SyncLeavesOut
    <3>2. \A op \in ops' : /\ fed'.exists /\ fed'.status[op.cluster] # None
                           /\ collected'[op.cluster] # None /\ (op.kind = "update" => op.base.exists)
      BY <2>7, <3>0, SyncStarts DEF FinalizerInv, FinalizerHeld, Recorded, None
    <3>3. Tracked' /\ (~(fed'.exists /\ fed'.finalizer) => \A c \in Clusters : ~Owned(c)')
      BY <1>a, <1>b, <2>0, <3>0
    <3> QED BY <1>a, <2>0, <3>0, <3>1, <3>2, <3>3
  <2>8. CASE WaitReturns
    <3>1. Tracked' /\ (~(fed'.exists /\ fed'.finalizer) => \A c \in Clusters : ~Owned(c)')
      BY <1>a, <1>b, <2>0, <2>8 DEF WaitReturns
    <3> QED BY <1>a, <2>0, <2>8, <3>1 DEF WaitReturns
  <2>9. CASE SetFederatedStatus
    <3>0. ops' = {} /\ late' = late /\ pc = "status"
      BY <1>5, <2>9, ReconcileOps DEF SetFederatedStatus, SyncToClusters, HandleDeletionInClusters
    <3>1. CASE UNCHANGED fed /\ pc' = "idle"
      BY <1>2, <2>0, <3>0, <3>1
    <3>2. CASE obj = fed /\ fed' = FedWrite(obj) /\ pc' = "idle"
      BY <1>3, <2>0, <3>0, <3>2
    <3>3. CASE UNCHANGED <<fed, pc, collected>>
      <4>1. Tracked' /\ (~(fed'.exists /\ fed'.finalizer) => \A c \in Clusters : ~Owned(c)')
        BY <1>a, <1>b, <2>0, <3>3
      <4> QED BY <1>a, <2>0, <3>0, <3>3, <4>1
    <3> QED BY <2>9, <3>1, <3>2, <3>3 DEF SetFederatedStatus, Return
  <2>10. CASE HandleDeletionInClusters
    <3>0. UNCHANGED <<fed, obj, late>> /\ pc = "removal" /\ pc' = "removalWait" /\ unseen = {}
      BY <1>0, <2>10 DEF HandleDeletionInClusters, MemberFresh
    <3>1. fed.exists /\ obj.status = fed.status
      BY <3>0 DEF FinalizerInv
    <3>2. \A c \in Clusters : collected'[c] = None => ~Owned(c)'
      <4>1. \A c \in Clusters : memberCache[c] = Managed(c)
        BY <3>0 DEF CopiesInv
      <4>2. \A c \in Clusters : fed.status[c] # None /\ collected'[c] = None => ~memberCache[c].exists
        BY <2>10, <3>1, RemovalStarts DEF Recorded
      <4>3. \A c \in Clusters : collected'[c] = None => ~Owned(c)
        BY <4>1, <4>2 DEF Managed, Owned, Tracked
      <4> QED BY <1>a, <2>0, <4>3
    <3>3. \A op \in ops' : /\ fed'.exists /\ fed'.status[op.cluster] # None
                           /\ collected'[op.cluster] # None /\ (op.kind = "update" => op.base.exists)
      BY <2>10, <3>0, <3>1, RemovalStarts DEF Recorded, None
    <3>4. Tracked' /\ (~(fed'.exists /\ fed'.finalizer) => \A c \in Clusters : ~Owned(c)')
      BY <1>a, <1>b, <2>0, <3>0
    <3> QED BY <1>a, <2>0, <3>0, <3>1, <3>2, <3>3, <3>4
  <2>11. CASE RemovalReturns \/ CheckObjectRemovedFromAllClusters
    <3>0. /\ ops' = {} /\ UNCHANGED <<fed, late>> /\ pc \in {"removalWait", "check"}
          /\ pc = "check" \/ pc' = "idle" \/ \A c \in Clusters : collected[c] = None
          /\ pc' = "idle" \/ (pc' \in {"check", "unfinalize"} /\ UNCHANGED obj)
      BY <1>5, <2>11, ReconcileOps
      DEF RemovalReturns, CheckObjectRemovedFromAllClusters, SyncToClusters, HandleDeletionInClusters, Return
    <3>1. CASE pc' = "idle"
      BY <1>2, <2>0, <3>0, <3>1
    <3>2. CASE pc' # "idle"
      <4>1. Tracked' /\ (~(fed'.exists /\ fed'.finalizer) => \A c \in Clusters : ~Owned(c)')
        BY <1>a, <1>b, <2>0, <3>0
      <4> QED BY <1>a, <2>0, <3>0, <3>2, <4>1
    <3> QED BY <3>1, <3>2
  <2>12. CASE RemoveFinalizer \/ FedWriteFails
    <3>0. ops' = {} /\ late' = late /\ pc' = "idle" /\ pc \in {"finalizer", "record", "status", "unfinalize"}
      BY <1>5, <2>12, ReconcileOps
      DEF RemoveFinalizer, FedWriteFails, SyncToClusters, HandleDeletionInClusters, Return
    <3>1. UNCHANGED fed \/ fed' = FedWrite(fed)
      BY <2>12 DEF RemoveFinalizer, FedWriteFails
    <3> QED BY <1>2, <1>3, <2>0, <3>0, <3>1
  <2>13. CASE WaitTimesOut
    BY <1>0, <2>13 DEF WaitTimesOut
  <2> HIDE DEF RecordInv
  <2> QED BY <1>5, <2>1, <2>2, <2>3, <2>4, <2>5, <2>6, <2>7, <2>8, <2>9, <2>10, <2>11, <2>12, <2>13 DEF Reconcile
<1>6. ASSUME NEW op \in ops \cup late, Answered(op) \/ OperationFails(op) PROVE RecordInv'
  <2>0. op \in ops /\ UNCHANGED <<fed, cluster, pc, obj, requireSync>>
    BY <1>6, OpsFrame DEF opFrame
  <2>1. /\ op.cluster \in Clusters
        /\ \A c \in Clusters : Owned(c)' => Owned(c) \/ c = op.cluster
        /\ \A c \in Clusters : member'[c].managed => member'[c].exists
    BY <1>6, <2>0, OpsOwned
  <2>2. pc \in {"wait", "removalWait"} /\ fed.exists /\ fed.finalizer
    BY <2>0 DEF OpsInv, FinalizerInv, FinalizerHeld
  <2>3. late' = {} /\ \A c \in Clusters : collected[c] # None => collected'[c] # None
    <3>1. CASE CreateAdopts(op)
      BY <2>0, <3>1 DEF CreateAdopts
    <3>2. CASE ~CreateAdopts(op)
      <4>1. PICK failed : Finish(op, failed)
        BY <1>6, <3>2, OpsShrink
      <4> QED BY <2>0, <2>1, <4>1 DEF Finish, TypeOK, None
    <3> QED BY <3>1, <3>2
  <2>4. \A u \in ops' : \E o \in ops : u.cluster = o.cluster /\ (u = o \/ u.base.exists)
    <3>1. CASE CreateAdopts(op)
      <4>1. PICK update \in Operations :
              /\ update.cluster = op.cluster /\ update.base = member[op.cluster]
              /\ \/ op \in ops /\ ops' = (ops \ {op}) \cup {update}
                 \/ op \notin ops /\ ops' = ops
        BY <3>1, AdoptsEffect
      <4> QED BY <2>0, <3>1, <4>1 DEF CreateAdopts
    <3>2. CASE ~CreateAdopts(op)
      BY <1>6, <3>2, OpsShrink
    <3> QED BY <3>1, <3>2
  <2>5. \A u \in ops' : u.cluster \in Clusters
    BY <2>4 DEF TypeOK, Operations
  <2>6. \A u \in ops' : /\ fed'.exists /\ fed'.status[u.cluster] # None /\ collected'[u.cluster] # None
                        /\ u.kind = "update" => u.base.exists
    BY <2>0, <2>3, <2>4, <2>5
  <2>7. \A c \in Clusters : collected'[c] = None => ~Owned(c)'
    BY <2>0, <2>1, <2>2, <2>3
  <2>8. \A c \in Clusters : Owned(c)' => fed.status[c] # None
    BY <2>0, <2>1 DEF Tracked, Owned
  <2>9. Tracked'
    BY <2>0, <2>2, <2>8 DEF Tracked, Owned
  <2> QED BY <2>0, <2>1, <2>2, <2>3, <2>6, <2>7, <2>9
<1>7. CASE Crash
  BY <1>2, <1>7 DEF Crash
<1>8. CASE ObserveFed
  BY <1>1, <1>a, <1>8 DEF ObserveFed, world
<1>9. ASSUME NEW c \in Clusters, ObserveMember(c) PROVE RecordInv'
  BY <1>1, <1>a, <1>9 DEF ObserveMember, world
<1>10. ASSUME NEW placement \in SUBSET Clusters, NEW pending \in BOOLEAN,
              EditSpec(placement, pending) \/ FinishPipeline \/ DeleteFed
       PROVE  RecordInv'
  <2>0. /\ fed.exists
        /\ \/ /\ fed'.exists /\ fed'.finalizer = fed.finalizer /\ fed'.status = fed.status
              /\ fed.deleting => fed'.deleting
           \/ ~fed.finalizer /\ ~fed.deleting /\ fed' = Gone(fed)
        /\ UNCHANGED <<member, pc, obj, collected, requireSync, listed, ops, late, cluster>>
    BY <1>10, EnvFed
  <2>1. CASE /\ fed'.exists /\ fed'.finalizer = fed.finalizer /\ fed'.status = fed.status
             /\ fed.deleting => fed'.deleting
    <3>1. Tracked' /\ (~(fed'.exists /\ fed'.finalizer) => \A c \in Clusters : ~Owned(c)')
      BY <1>a, <2>0, <2>1 DEF Tracked, Owned
    <3>2. Recorded(fed') = Recorded(fed)
      BY <2>1 DEF Recorded
    <3> QED BY <1>a, <2>0, <2>1, <3>1, <3>2
  <2>2. CASE ~fed.finalizer /\ ~fed.deleting /\ fed' = Gone(fed)
    <3>1. ~fed'.exists /\ \A c \in Clusters : ~Owned(c)'
      BY <1>a, <2>0, <2>2, GoneTyped DEF TypeOK
    <3>2. pc \notin Syncing \cup Removing
      BY <2>2 DEF FinalizerInv, FinalizerHeld, Syncing
    <3>3. ops' = {} /\ late' = {}
      BY <2>0, <3>2 DEF OpsInv, Syncing
    <3>4. Tracked'
      BY <3>1 DEF Tracked, Owned
    <3> QED BY <1>a, <2>0, <3>1, <3>2, <3>3, <3>4 DEF Syncing
  <2> QED BY <2>0, <2>1, <2>2
<1>11. ASSUME NEW c \in Clusters,
              \/ ClusterFinalizerAdded(c) \/ ClusterReadiness(c) \/ MemberGone(c) \/ MemberUser(c)
              \/ \E cascade \in BOOLEAN : ClusterDeleted(c, cascade)
       PROVE  RecordInv'
  <2>0. UNCHANGED <<fed, pc, obj, collected, requireSync, listed, ops, late>>
    BY <1>11, ElsewhereFrame
  <2>1. CASE MemberGone(c) \/ MemberUser(c)
    <3>1. ~NoObject.managed /\ ~UserObject.managed
      BY DEF NoObject, UserObject
    <3>2. /\ cluster' = cluster
          /\ \A d \in Clusters : member'[d] = member[d] \/ ~member'[d].managed
      BY <2>1, <3>1 DEF MemberGone, MemberUser, Store, TypeOK, world
    <3> QED BY <1>1, <2>0, <3>2 DEF Owned
  <2>2. CASE ClusterFinalizerAdded(c) \/ \E cascade \in BOOLEAN : ClusterDeleted(c, cascade)
    <3>1. /\ member' = member
          /\ \A d \in Clusters : /\ cluster'[d].ready = cluster[d].ready
                                 /\ cluster[d].deleting => cluster'[d].deleting
      BY <2>2 DEF ClusterFinalizerAdded, ClusterDeleted, TypeOK, ClusterObjects
    <3> QED BY <1>1, <2>0, <3>1 DEF Owned
  <2>3. CASE ClusterReadiness(c)
    BY <1>0, <2>3 DEF ClusterReadiness
  <2> QED BY <1>11, <2>1, <2>2, <2>3
<1>12. CASE UNCHANGED vars
  BY <1>1, <1>a, <1>12 DEF vars
<1> HIDE DEF RecordInv
<1>13. ({} \in SUBSET Clusters) /\ FALSE \in BOOLEAN
  OBVIOUS
<1> QED
  BY <1>5, <1>6, <1>7, <1>8, <1>9, <1>10, <1>11, <1>12, <1>13 DEF Next, Environment

LEMMA InitRecordInv == Init => RecordInv
<1> SUFFICES ASSUME Init PROVE RecordInv
  OBVIOUS
<1>1. \A c \in Clusters : ~member[c].managed
  BY DEF Init, NoObject, UserObject
<1> QED BY <1>1 DEF Init, Unlisted, RecordInv, RecordedOps, Removing, Owned, Tracked

LEMMA RecordIsKept ==
  ASSUME Faults \cap Obscured = {}
  PROVE  Spec => []RecordInv
<1> DEFINE Inv == TypeOK /\ FinalizerInv /\ AdoptionInv /\ CopiesInv /\ OpsInv /\ RecordInv
<1>1. Init => Inv
  BY InitTypeOK, InitFinalizerInv, InitAdoptionInv, InitTruthInv, InitRecordInv DEF TruthInv
<1>2. Inv /\ [Next]_vars => Inv'
  <2> SUFFICES ASSUME Inv, [Next]_vars PROVE Inv'
    OBVIOUS
  <2>1. TypeOK' /\ FinalizerInv' /\ AdoptionInv' /\ CopiesInv' /\ OpsInv'
    BY NextTypeOK, NextFinalizerInv, NextAdoptionInv, NextCopiesInv, NextOpsInv
  <2> QED BY <2>1, NextRecordInv
<1>3. Inv => RecordInv
  OBVIOUS
<1> HIDE DEF Inv
<1> QED BY <1>1, <1>2, <1>3, PTL DEF Spec

(* When caches are current as reconcile reads them, rounds do not time out and clusters
   stay ready, every managed object is on the record, through every crash, failed write,
   lost answer, deleted cluster and user of a member cluster.  With any of the four faults
   excluded here it can be lost. *)
THEOREM EverythingIsTracked ==
  ASSUME Faults \cap Obscured = {}
  PROVE  Spec => []Tracked
<1>1. RecordInv => Tracked
  BY DEF RecordInv
<1> QED BY <1>1, RecordIsKept, PTL

(* Under the same conditions the federated object is not gone before what was propagated
   for it: nothing managed is left in a cluster that is not itself being deleted. *)
THEOREM NothingIsLeftOver ==
  ASSUME Faults \cap Obscured = {}
  PROVE  Spec => []NoLeftovers
<1>1. RecordInv => NoLeftovers
  BY DEF RecordInv, NoLeftovers, Owned
<1> QED BY <1>1, RecordIsKept, PTL
=============================================================================
