----------------------- MODULE FederateControllerProofs -----------------------
(***************************************************************************)
(* The federate controller for every number of versions, successors and    *)
(* faults.                                                                 *)
(***************************************************************************)
EXTENDS FederateController, TLAPS

Sources == [exists : BOOLEAN, deleting : BOOLEAN, finalizer : BOOLEAN, skip : BOOLEAN,
            version : 0 .. MaxVersion, uid : 0 .. MaxUID]

FedObjects == [exists : BOOLEAN, deleting : BOOLEAN, finalizer : BOOLEAN, pending : BOOLEAN,
               template : 0 .. MaxVersion, owner : {Nobody, Stranger} \cup (1 .. MaxUID)]

TypeOK ==
    /\ source \in Sources /\ sourceCache \in Sources /\ sourceObject \in Sources
    /\ fed \in FedObjects /\ fedCache \in FedObjects /\ fedObject \in FedObjects
    /\ fedNews \in BOOLEAN /\ queued \in BOOLEAN
    /\ pc \in {"idle", "finalizer", "create", "update", "delete", "unfinalize"}
    /\ version \in 0 .. MaxVersion /\ uid \in 0 .. MaxUID /\ events \in 0 .. MaxEvents

(* A copy o of the source may be old, but its deletion has not been undone since, nor the
   finalizer it shows given up. *)
Follows(o) ==
    /\ o.exists => o.version \in 1 .. version /\ o.uid \in 1 .. uid
    /\ o.exists /\ o.deleting /\ source.exists /\ source.uid = o.uid => source.deleting
    /\ o.exists /\ o.finalizer /\ ~o.deleting =>
         source.exists /\ source.finalizer /\ source.uid = o.uid

SourceInv ==
    /\ version >= 1 /\ Follows(source) /\ Follows(sourceCache)
    /\ source.deleting => source.exists /\ source.finalizer
    /\ pc # "idle" => sourceObject.exists /\ Follows(sourceObject)
    /\ pc \in {"finalizer", "create", "update"} => ~sourceObject.deleting /\ ~sourceObject.skip
    /\ pc \in {"create", "update"} => sourceObject.finalizer
    /\ pc \in {"delete", "unfinalize"} =>
         /\ sourceObject.deleting
         /\ sourceCache.exists /\ sourceCache.uid = sourceObject.uid => sourceCache.deleting

(* What reconcile works on is current, or it will be called again. *)
CopiesInv ==
    /\ ~fedNews => fedCache = fed
    /\ pc # "idle" => /\ queued \/ fedNews \/ fedObject = fed
                      /\ ~source.exists \/ queued \/ sourceCache # source \/ sourceObject = source
    /\ pc = "update" => fedObject.exists

FederateInv == SourceInv /\ CopiesInv /\ QuietIsFederated

-----------------------------------------------------------------------------
(* Type correctness. *)

LEMMA NoneTyped == NoSource \in Sources /\ NoFed \in FedObjects /\ ~NoSource.exists /\ ~NoFed.exists
  BY FederateAssumption DEF NoSource, NoFed, Sources, FedObjects, Nobody

LEMMA NewSourceTyped ==
  ASSUME NEW v \in 0 .. MaxVersion, NEW u \in 0 .. MaxUID, NEW skip \in BOOLEAN
  PROVE  /\ NewSource(v, u, skip) \in Sources
         /\ NewSource(v, u, skip).exists /\ ~NewSource(v, u, skip).deleting
         /\ ~NewSource(v, u, skip).finalizer
         /\ NewSource(v, u, skip).version = v /\ NewSource(v, u, skip).uid = u
  BY FederateAssumption DEF NewSource, NoSource, Sources

(* What the writes do. *)
LEMMA FinalizerTyped ==
  ASSUME NEW s \in Sources
  PROVE  /\ [s EXCEPT !.finalizer = TRUE] \in Sources
         /\ [s EXCEPT !.finalizer = TRUE].finalizer
         /\ [s EXCEPT !.finalizer = TRUE].exists = s.exists
         /\ [s EXCEPT !.finalizer = TRUE].deleting = s.deleting
         /\ [s EXCEPT !.finalizer = TRUE].skip = s.skip
         /\ [s EXCEPT !.finalizer = TRUE].version = s.version
         /\ [s EXCEPT !.finalizer = TRUE].uid = s.uid
  BY DEF Sources

LEMMA DeletedSourceTyped ==
  ASSUME NEW s \in Sources
  PROVE  /\ Deleted(s, NoSource) \in Sources
         /\ ~s.finalizer => Deleted(s, NoSource) = NoSource
         /\ s.finalizer => /\ Deleted(s, NoSource).deleting /\ Deleted(s, NoSource).finalizer
                           /\ Deleted(s, NoSource).exists = s.exists
                           /\ Deleted(s, NoSource).version = s.version
                           /\ Deleted(s, NoSource).uid = s.uid
  BY NoneTyped DEF Deleted, Sources

LEMMA DeletedFedTyped ==
  ASSUME NEW f \in FedObjects
  PROVE  /\ Deleted(f, NoFed) \in FedObjects
         /\ Deleted(f, NoFed).exists => Deleted(f, NoFed).template = f.template /\ Deleted(f, NoFed).owner = f.owner
  BY NoneTyped DEF Deleted, FedObjects

LEMMA ForSourceTyped ==
  ASSUME NEW f \in FedObjects, NEW s \in Sources
  PROVE  /\ ForSource(f, s) \in FedObjects /\ ForSource(f, s).owner = s.uid
<1>1. s.uid \in {Nobody, Stranger} \cup (1 .. MaxUID)
  BY FederateAssumption DEF Sources, Nobody
<1>2. s.version \in 0 .. MaxVersion
  BY DEF Sources
<1> QED BY <1>1, <1>2 DEF ForSource, FedObjects

LEMMA PropagatedTyped ==
  ASSUME NEW f \in FedObjects
  PROVE  /\ [f EXCEPT !.pending = FALSE, !.finalizer = TRUE] \in FedObjects
         /\ [f EXCEPT !.pending = FALSE, !.finalizer = TRUE].template = f.template
         /\ [f EXCEPT !.pending = FALSE, !.finalizer = TRUE].owner = f.owner
  BY DEF FedObjects

LEMMA EventTyped == ASSUME TypeOK, Event PROVE events' \in 0 .. MaxEvents
  BY FederateAssumption DEF TypeOK, Event

LEMMA RouteTyped ==
  ASSUME NEW s, NEW f
  PROVE  Route(s, f) \in {"idle", "finalizer", "create", "update", "delete", "unfinalize"}
  BY DEF Route

LEMMA NextTypeOK == TypeOK /\ [Next]_vars => TypeOK'
<1> SUFFICES ASSUME TypeOK, [Next]_vars PROVE TypeOK'
  OBVIOUS
<1> USE DEF TypeOK
<1>1. CASE Reconcile
  BY <1>1, RouteTyped, NoneTyped DEF Reconcile, fedVars
<1>2. ASSUME NEW again \in BOOLEAN, Return(again), source' \in Sources, fed' \in FedObjects, fedNews' \in BOOLEAN,
             events' \in 0 .. MaxEvents, UNCHANGED <<sourceCache, fedCache, version, uid>>
      PROVE  TypeOK'
  BY <1>2, NoneTyped DEF Return
<1>3. CASE EnsureFinalizer
  <2>1. CASE sourceObject = source
    BY <1>3, <2>1, FinalizerTyped DEF EnsureFinalizer, fedVars
  <2>2. CASE sourceObject # source
    BY <1>2, <1>3, <2>2 DEF EnsureFinalizer, fedVars
  <2> QED BY <2>1, <2>2
<1>4. CASE HandleCreateFederatedObject
  <2>1. ForSource(NoFed, sourceObject) \in FedObjects
    BY NoneTyped, ForSourceTyped
  <2>2. fed' \in FedObjects /\ fedNews' \in BOOLEAN
    BY <1>4, <2>1 DEF HandleCreateFederatedObject, fedVars, Store
  <2>3. PICK again \in BOOLEAN : Return(again)
    BY <1>4 DEF HandleCreateFederatedObject, FedObjects
  <2> QED BY <1>2, <1>4, <2>2, <2>3 DEF HandleCreateFederatedObject
<1>5. CASE HandleExistingFederatedObject
  <2>1. ForSource(fed, sourceObject) \in FedObjects
    BY ForSourceTyped
  <2>2. fed' \in FedObjects /\ fedNews' \in BOOLEAN
    BY <1>5, <2>1 DEF HandleExistingFederatedObject, fedVars, Store
  <2>3. PICK again \in BOOLEAN : Return(again)
    BY <1>5 DEF HandleExistingFederatedObject
  <2> QED BY <1>2, <1>5, <2>2, <2>3 DEF HandleExistingFederatedObject
<1>6. CASE DeleteFederatedObject
  <2>1. fed' \in FedObjects /\ fedNews' \in BOOLEAN
    BY <1>6, DeletedFedTyped DEF DeleteFederatedObject, fedVars, Store
  <2>2. PICK again \in BOOLEAN : Return(again)
    BY <1>6 DEF DeleteFederatedObject
  <2> QED BY <1>2, <1>6, <2>1, <2>2 DEF DeleteFederatedObject
<1>7. CASE RemoveFinalizer
  <2>1. PICK again \in BOOLEAN : Return(again)
    BY <1>7 DEF RemoveFinalizer
  <2> QED BY <1>2, <1>7, <2>1, NoneTyped DEF RemoveFinalizer, fedVars
<1>8. CASE Failure
  BY <1>2, <1>8, EventTyped DEF Failure, fedVars
<1>9. CASE ReplyLost
  <2>1. ForSource(NoFed, sourceObject) \in FedObjects /\ ForSource(fed, sourceObject) \in FedObjects
    BY NoneTyped, ForSourceTyped
  <2>2. Deleted(fed, NoFed) \in FedObjects /\ [source EXCEPT !.finalizer = TRUE] \in Sources
    BY DeletedFedTyped, FinalizerTyped
  <2>3. source' \in Sources /\ fed' \in FedObjects /\ fedNews' \in BOOLEAN
    BY <1>9, <2>1, <2>2, NoneTyped DEF ReplyLost, Store, fedVars
  <2> QED BY <1>2, <1>9, <2>3, EventTyped DEF ReplyLost
<1>10. CASE Crash
  BY <1>10, NoneTyped, EventTyped DEF Crash
<1>11. CASE ObserveSource \/ ObserveFed
  BY <1>11 DEF ObserveSource, ObserveFed, fedVars
<1>12. ASSUME NEW skip \in BOOLEAN, EditSource(skip) PROVE TypeOK'
  <2>1. version + 1 \in 0 .. MaxVersion
    BY <1>12, FederateAssumption DEF EditSource
  <2>2. source' = [source EXCEPT !.version = version + 1, !.skip = skip]
    BY <1>12 DEF EditSource
  <2>3. source' \in Sources
    BY <2>1, <2>2 DEF Sources
  <2> QED BY <1>12, <2>1, <2>3 DEF EditSource, envFrame, fedVars
<1>13. CASE DeleteSource
  BY <1>13, DeletedSourceTyped DEF DeleteSource, envFrame, fedVars
<1>14. CASE RecreateSource
  <2>1. version' \in 0 .. MaxVersion /\ uid' \in 0 .. MaxUID
    BY <1>14, FederateAssumption DEF RecreateSource
  <2>2. source' \in Sources
    BY <1>14, <2>1, NewSourceTyped DEF RecreateSource
  <2> QED BY <1>14, <2>1, <2>2 DEF RecreateSource, envFrame, fedVars
<1>15. CASE UserDeletesFed \/ Propagate \/ SyncReleases \/ GarbageCollect
  <2>1. fed' \in FedObjects /\ fedNews' \in BOOLEAN /\ events' \in 0 .. MaxEvents
    BY <1>15, DeletedFedTyped, PropagatedTyped, NoneTyped, EventTyped
    DEF UserDeletesFed, Propagate, SyncReleases, GarbageCollect, Store
  <2> QED BY <1>15, <2>1 DEF UserDeletesFed, Propagate, SyncReleases, GarbageCollect, envFrame
<1>16. CASE UNCHANGED vars
  BY <1>16 DEF vars
<1> HIDE DEF TypeOK
<1> QED BY <1>1, <1>3, <1>4, <1>5, <1>6, <1>7, <1>8, <1>9, <1>10, <1>11, <1>12, <1>13, <1>14, <1>15, <1>16
        DEF Next, Handle, Environment

LEMMA InitTypeOK == Init => TypeOK
<1> SUFFICES ASSUME Init PROVE TypeOK
  OBVIOUS
<1>1. 1 \in 0 .. MaxVersion /\ 1 \in 0 .. MaxUID /\ 0 \in 0 .. MaxEvents
  BY FederateAssumption
<1>2. NewSource(1, 1, FALSE) \in Sources
  BY <1>1, NewSourceTyped
<1>3. fed \in FedObjects
  BY NoneTyped DEF Init, FedObjects
<1> QED BY <1>1, <1>2, <1>3, NoneTyped DEF Init, TypeOK

-----------------------------------------------------------------------------
(* Where reconcile goes, from its two copies. *)
LEMMA RouteEffect ==
  ASSUME NEW s, NEW f, NEW to, to = Route(s, f)
  PROVE  /\ to # "idle" => s.exists
         /\ to \in {"finalizer", "create", "update"} => ~s.deleting /\ ~s.skip
         /\ to \in {"create", "update"} => s.finalizer
         /\ to = "update" => f.exists
         /\ to \in {"delete", "unfinalize"} => s.deleting
         /\ to = "idle" /\ s.exists /\ ~(f.exists /\ f.owner = Stranger) =>
              /\ s.deleting => (f.exists /\ f.deleting) \/ (~f.exists /\ ~s.finalizer)
              /\ ~s.deleting => s.skip
  BY DEF Route

(* The steps that leave the source and its copies alone. *)
LEMMA FedFrame ==
  ASSUME UserDeletesFed \/ Propagate \/ SyncReleases \/ GarbageCollect
  PROVE  /\ UNCHANGED <<source, sourceCache, fedCache, queued, pc, sourceObject, fedObject, version, uid>>
         /\ fedNews'
  BY DEF UserDeletesFed, Propagate, SyncReleases, GarbageCollect, Store, envFrame

(* What the users do to the source. *)
LEMMA EnvSource ==
  ASSUME TypeOK, SourceInv, NEW skip \in BOOLEAN, EditSource(skip) \/ DeleteSource \/ RecreateSource
  PROVE  /\ UNCHANGED <<fed, fedNews, sourceCache, fedCache, queued, pc, sourceObject, fedObject>>
         /\ version' \in Nat /\ uid' \in Nat /\ version <= version' /\ uid <= uid'
         /\ source'.exists => source'.version \in 1 .. version' /\ source'.uid \in 1 .. uid'
         /\ source'.deleting => source'.exists /\ source'.finalizer
         /\ \/ /\ source.exists /\ source'.exists /\ source'.uid = source.uid
               /\ source.deleting => source'.deleting
               /\ source'.finalizer = source.finalizer
               /\ source'.version > version \/ (source'.deleting /\ ~source.deleting)
            \/ source.exists /\ ~source.finalizer /\ source' = NoSource
            \/ ~source.exists /\ source'.exists /\ source'.uid > uid /\ ~source'.deleting
<1>0. /\ version \in Nat /\ uid \in Nat /\ source \in Sources
      /\ source.exists => source.version \in 1 .. version /\ source.uid \in 1 .. uid
      /\ source.deleting => source.exists /\ source.finalizer
      /\ source.version \in Nat /\ source.uid \in Nat
  BY FederateAssumption DEF TypeOK, SourceInv, Follows, Sources
<1>1. CASE EditSource(skip)
  <2>1. UNCHANGED <<fed, fedNews, sourceCache, fedCache, queued, pc, sourceObject, fedObject, uid>>
    BY <1>1 DEF EditSource, envFrame, fedVars
  <2>2. version' = version + 1 /\ source' = [source EXCEPT !.version = version + 1, !.skip = skip] /\ source.exists
    BY <1>1 DEF EditSource
  <2>3. /\ source'.exists = source.exists /\ source'.deleting = source.deleting /\ source'.uid = source.uid
        /\ source'.finalizer = source.finalizer /\ source'.version = version + 1
    BY <1>0, <2>2 DEF Sources
  <2> QED BY <1>0, <2>1, <2>2, <2>3
<1>2. CASE DeleteSource
  <2>1. UNCHANGED <<fed, fedNews, sourceCache, fedCache, queued, pc, sourceObject, fedObject, uid, version>>
    BY <1>2 DEF DeleteSource, envFrame, fedVars
  <2>2. source.exists /\ ~source.deleting /\ source' = Deleted(source, NoSource)
    BY <1>2 DEF DeleteSource
  <2>3. CASE source.finalizer
    <3>1. /\ source'.deleting /\ source'.finalizer /\ source'.exists = source.exists
          /\ source'.version = source.version /\ source'.uid = source.uid
      BY <1>0, <2>2, <2>3, DeletedSourceTyped
    <3> QED BY <1>0, <2>1, <2>2, <2>3, <3>1
  <2>4. CASE ~source.finalizer
    <3>1. source' = NoSource
      BY <1>0, <2>2, <2>4, DeletedSourceTyped
    <3>2. ~NoSource.deleting
      BY DEF NoSource
    <3> QED BY <1>0, <2>1, <2>2, <2>4, <3>1, <3>2, NoneTyped
  <2> QED BY <2>3, <2>4
<1>3. CASE RecreateSource
  <2>1. UNCHANGED <<fed, fedNews, sourceCache, fedCache, queued, pc, sourceObject, fedObject>>
    BY <1>3 DEF RecreateSource, envFrame, fedVars
  <2>2. /\ version' \in 0 .. MaxVersion /\ uid' \in 0 .. MaxUID /\ version' \in {version, version + 1}
        /\ uid' = uid + 1 /\ source' = NewSource(version', uid', FALSE) /\ ~source.exists
    BY <1>0, <1>3, FederateAssumption DEF RecreateSource, TypeOK
  <2>3. source'.exists /\ ~source'.deleting /\ source'.version = version' /\ source'.uid = uid'
    BY <2>2, NewSourceTyped
  <2>4. version >= 1
    BY DEF SourceInv
  <2>5. /\ version' \in Nat /\ uid' \in Nat /\ version <= version' /\ uid <= uid' /\ uid' > uid
        /\ version' \in 1 .. version' /\ uid' \in 1 .. uid'
    BY <1>0, <2>2, <2>4
  <2> QED BY <2>1, <2>2, <2>3, <2>5
<1> QED BY <1>1, <1>2, <1>3

(* A change of the source is one that the cache has not seen. *)
LEMMA EnvSourceIsNew ==
  ASSUME TypeOK, SourceInv, NEW skip \in BOOLEAN, EditSource(skip) \/ DeleteSource \/ RecreateSource,
         source'.exists
  PROVE  source' # sourceCache
<1>0. /\ version \in Nat /\ uid \in Nat /\ Follows(sourceCache)
      /\ sourceCache.version \in Nat /\ sourceCache.uid \in Nat
  BY FederateAssumption DEF TypeOK, SourceInv, Sources
<1>1. /\ source'.exists => source'.version \in 1 .. version' /\ source'.uid \in 1 .. uid'
      /\ version' \in Nat /\ uid' \in Nat
      /\ \/ /\ source.exists /\ source'.uid = source.uid
            /\ source'.version > version \/ (source'.deleting /\ ~source.deleting)
         \/ source' = NoSource
         \/ source'.uid > uid
  BY EnvSource
<1> QED BY <1>0, <1>1, NoneTyped DEF Follows

(* A copy of the source stays one through what its users do. *)
LEMMA EnvFollows ==
  ASSUME TypeOK, SourceInv, NEW skip \in BOOLEAN, EditSource(skip) \/ DeleteSource \/ RecreateSource,
         NEW o \in Sources, Follows(o)
  PROVE  /\ o.exists => o.version \in 1 .. version' /\ o.uid \in 1 .. uid'
         /\ o.exists /\ o.deleting /\ source'.exists /\ source'.uid = o.uid => source'.deleting
         /\ o.exists /\ o.finalizer /\ ~o.deleting =>
              source'.exists /\ source'.finalizer /\ source'.uid = o.uid
<1>0. version \in Nat /\ uid \in Nat /\ o.version \in Nat /\ o.uid \in Nat
  BY FederateAssumption DEF TypeOK, Sources
<1>1. /\ version' \in Nat /\ uid' \in Nat /\ version <= version' /\ uid <= uid'
      /\ \/ /\ source.exists /\ source'.exists /\ source'.uid = source.uid
            /\ source.deleting => source'.deleting
            /\ source'.finalizer = source.finalizer
         \/ source.exists /\ ~source.finalizer /\ source' = NoSource
         \/ ~source.exists /\ source'.exists /\ source'.uid > uid
  BY EnvSource
<1>2. o.exists => o.version \in 1 .. version' /\ o.uid \in 1 .. uid'
  BY <1>0, <1>1 DEF Follows
<1>3. CASE /\ source.exists /\ source'.exists /\ source'.uid = source.uid
           /\ source.deleting => source'.deleting
           /\ source'.finalizer = source.finalizer
  BY <1>2, <1>3 DEF Follows
<1>4. CASE source.exists /\ ~source.finalizer /\ source' = NoSource
  BY <1>2, <1>4, NoneTyped DEF Follows
<1>5. CASE ~source.exists /\ source'.exists /\ source'.uid > uid
  <2>1. o.exists => o.uid # source'.uid
    BY <1>0, <1>5 DEF Follows
  <2> QED BY <1>2, <1>5, <2>1 DEF Follows
<1> QED BY <1>1, <1>3, <1>4, <1>5

LEMMA NextSourceInv ==
  ASSUME TypeOK, SourceInv, [Next]_vars
  PROVE  SourceInv'
<1> USE DEF SourceInv
<1>0. source \in Sources /\ sourceCache \in Sources /\ sourceObject \in Sources
  BY DEF TypeOK
<1>1. CASE UNCHANGED <<source, sourceCache, sourceObject, pc, version, uid>>
  BY <1>1 DEF Follows
<1>2. CASE UNCHANGED <<source, sourceCache, version, uid>> /\ pc' = "idle"
  BY <1>2 DEF Follows
<1>3. CASE Reconcile
  <2>1. UNCHANGED <<source, sourceCache, version, uid>>
    BY <1>3 DEF Reconcile
  <2>2. CASE pc' = "idle"
    BY <1>2, <2>1, <2>2
  <2>3. CASE pc' # "idle"
    <3>1. pc' = Route(sourceCache, fedCache) /\ sourceObject' = sourceCache
      BY <1>3, <2>3 DEF Reconcile
    <3> QED BY <2>1, <2>3, <3>1, RouteEffect DEF Follows
  <2> QED BY <2>2, <2>3
<1>4. ASSUME pc = "finalizer", sourceObject = source, source' = [source EXCEPT !.finalizer = TRUE],
             UNCHANGED <<sourceCache, version, uid>>
      PROVE  /\ Follows(source)' /\ Follows(sourceCache)' /\ ~source'.deleting
             /\ source'.exists /\ source'.finalizer /\ source'.skip = source.skip
             /\ version' >= 1
  <2>1. /\ source'.finalizer /\ source'.exists = source.exists /\ source'.deleting = source.deleting
        /\ source'.version = source.version /\ source'.uid = source.uid /\ source'.skip = source.skip
    BY <1>0, <1>4, FinalizerTyped
  <2> QED BY <1>4, <2>1 DEF Follows
<1>5. ASSUME pc = "unfinalize", sourceObject = source, source' = NoSource, pc' = "idle",
             UNCHANGED <<sourceCache, version, uid>>
      PROVE  SourceInv'
  <2>1. ~NoSource.exists /\ ~NoSource.deleting
    BY DEF NoSource
  <2>2. ~(sourceCache.exists /\ sourceCache.finalizer /\ ~sourceCache.deleting)
    BY <1>5 DEF Follows
  <2> QED BY <1>5, <2>1, <2>2 DEF Follows
<1>6. CASE EnsureFinalizer
  <2>1. CASE sourceObject = source
    <3>1. /\ pc = "finalizer" /\ source' = [source EXCEPT !.finalizer = TRUE] /\ sourceObject' = source'
          /\ pc' \in {"update", "create"} /\ UNCHANGED <<sourceCache, version, uid>>
      BY <1>6, <2>1 DEF EnsureFinalizer
    <3>2. /\ Follows(source)' /\ Follows(sourceCache)' /\ ~source'.deleting
          /\ source'.exists /\ source'.finalizer /\ source'.skip = source.skip /\ version' >= 1
      BY <1>4, <2>1, <3>1
    <3>3. Follows(sourceObject)'
      BY <3>1, <3>2 DEF Follows
    <3> QED BY <2>1, <3>1, <3>2, <3>3
  <2>2. CASE sourceObject # source
    BY <1>2, <1>6, <2>2 DEF EnsureFinalizer, Return
  <2> QED BY <2>1, <2>2
<1>7. CASE RemoveFinalizer
  <2>1. CASE sourceObject = source
    BY <1>5, <1>7, <2>1 DEF RemoveFinalizer, Return
  <2>2. CASE sourceObject # source
    BY <1>2, <1>7, <2>2 DEF RemoveFinalizer, Return
  <2> QED BY <2>1, <2>2
<1>8. CASE HandleCreateFederatedObject \/ HandleExistingFederatedObject \/ DeleteFederatedObject \/ Failure
  BY <1>2, <1>8 DEF HandleCreateFederatedObject, HandleExistingFederatedObject, DeleteFederatedObject,
     Failure, Return
<1>9. CASE ReplyLost
  <2>0. pc' = "idle" /\ UNCHANGED <<sourceCache, version, uid>>
    BY <1>9 DEF ReplyLost, Return
  <2>1. CASE UNCHANGED source
    BY <1>2, <2>0, <2>1
  <2>2. CASE pc = "finalizer" /\ sourceObject = source /\ source' = [source EXCEPT !.finalizer = TRUE]
    BY <1>4, <2>0, <2>2
  <2>3. CASE pc = "unfinalize" /\ sourceObject = source /\ source' = NoSource
    BY <1>5, <2>0, <2>3
  <2> QED BY <1>9, <2>1, <2>2, <2>3 DEF ReplyLost
<1>10. CASE Crash
  BY <1>10 DEF Crash, Follows
<1>11. CASE ObserveSource
  BY <1>11 DEF ObserveSource, Follows
<1>12. CASE ObserveFed
  BY <1>1, <1>12 DEF ObserveFed
<1>13. ASSUME NEW skip \in BOOLEAN, EditSource(skip) \/ DeleteSource \/ RecreateSource PROVE SourceInv'
  <2>0. /\ UNCHANGED <<sourceCache, pc, sourceObject>>
        /\ version' \in Nat /\ version <= version' /\ version \in Nat
        /\ source'.exists => source'.version \in 1 .. version' /\ source'.uid \in 1 .. uid'
        /\ source'.deleting => source'.exists /\ source'.finalizer
    BY <1>13, EnvSource, FederateAssumption DEF TypeOK
  <2>1. Follows(sourceCache)'
    BY <1>0, <1>13, <2>0, EnvFollows DEF Follows
  <2>2. pc # "idle" => Follows(sourceObject)'
    <3>1. CASE pc = "idle"
      BY <3>1
    <3>2. CASE pc # "idle"
      <4>1. Follows(sourceObject)
        BY <3>2
      <4> QED BY <1>0, <1>13, <2>0, <4>1, EnvFollows DEF Follows
    <3> QED BY <3>1, <3>2
  <2>3. Follows(source)' /\ version' >= 1
    BY <2>0 DEF Follows
  <2> QED BY <2>0, <2>1, <2>2, <2>3
<1>14. CASE UserDeletesFed \/ Propagate \/ SyncReleases \/ GarbageCollect
  BY <1>1, <1>14, FedFrame
<1>15. CASE UNCHANGED vars
  BY <1>1, <1>15 DEF vars
<1>16. FALSE \in BOOLEAN
  OBVIOUS
<1> HIDE DEF SourceInv
<1> QED BY <1>3, <1>6, <1>7, <1>8, <1>9, <1>10, <1>11, <1>12, <1>13, <1>14, <1>15, <1>16
        DEF Next, Handle, Environment

LEMMA InitSourceInv == Init => SourceInv
<1> SUFFICES ASSUME Init PROVE SourceInv
  OBVIOUS
<1>1. 1 \in 0 .. MaxVersion /\ 1 \in 0 .. MaxUID /\ FALSE \in BOOLEAN
  BY FederateAssumption
<1>2. source.exists /\ ~source.deleting /\ ~source.finalizer /\ source.version = 1 /\ source.uid = 1
  BY <1>1, NewSourceTyped DEF Init
<1>3. version = 1 /\ uid = 1 /\ sourceCache = source /\ pc = "idle"
  BY DEF Init
<1>4. Follows(source) /\ Follows(sourceCache)
  BY <1>2, <1>3 DEF Follows
<1> QED BY <1>2, <1>3, <1>4 DEF SourceInv

(* Only reconcile gives the FederatedObject a template and an owner. *)
LEMMA StepUnderFinalizer ==
  ASSUME TypeOK, SourceInv, [Next]_vars, fed'.exists,
         fed'.template # fed.template \/ fed'.owner # fed.owner
  PROVE  source.exists /\ source.finalizer /\ source.uid = fed'.owner
<1>0. fed \in FedObjects /\ NoFed \in FedObjects /\ sourceObject \in Sources
  BY NoneTyped DEF TypeOK
<1>1. ASSUME NEW f \in FedObjects, fed' = ForSource(f, sourceObject), pc \in {"create", "update"}
      PROVE  source.exists /\ source.finalizer /\ source.uid = fed'.owner
  <2>1. sourceObject.exists /\ sourceObject.finalizer /\ ~sourceObject.deleting /\ Follows(sourceObject)
    BY <1>1 DEF SourceInv
  <2>2. source.exists /\ source.finalizer /\ source.uid = sourceObject.uid
    BY <2>1 DEF Follows
  <2> QED BY <1>0, <1>1, <2>2, ForSourceTyped
<1>2. ASSUME fed' = fed \/ fed' = NoFed \/ fed' = Deleted(fed, NoFed) PROVE FALSE
  BY <1>0, <1>2, NoneTyped, DeletedFedTyped
<1>3. ASSUME fed' = [fed EXCEPT !.pending = FALSE, !.finalizer = TRUE] PROVE FALSE
  BY <1>0, <1>3, PropagatedTyped
<1>4. CASE Reconcile \/ EnsureFinalizer \/ RemoveFinalizer \/ Failure \/ Crash \/ ObserveSource \/ ObserveFed
  BY <1>2, <1>4 DEF Reconcile, EnsureFinalizer, RemoveFinalizer, Failure, Crash, ObserveSource,
     ObserveFed, fedVars
<1>5. CASE HandleCreateFederatedObject \/ HandleExistingFederatedObject \/ DeleteFederatedObject
  BY <1>0, <1>1, <1>2, <1>5 DEF HandleCreateFederatedObject, HandleExistingFederatedObject,
     DeleteFederatedObject, Store, fedVars
<1>6. CASE ReplyLost
  BY <1>0, <1>1, <1>2, <1>6 DEF ReplyLost, Store, fedVars
<1>7. CASE UserDeletesFed \/ Propagate \/ SyncReleases \/ GarbageCollect
  BY <1>2, <1>3, <1>7 DEF UserDeletesFed, Propagate, SyncReleases, GarbageCollect, Store
<1>8. ASSUME NEW skip \in BOOLEAN, EditSource(skip) \/ DeleteSource \/ RecreateSource PROVE FALSE
  BY <1>2, <1>8 DEF EditSource, DeleteSource, RecreateSource, fedVars
<1>9. CASE UNCHANGED vars
  BY <1>2, <1>9 DEF vars
<1>10. FALSE \in BOOLEAN
  OBVIOUS
<1> QED BY <1>4, <1>5, <1>6, <1>7, <1>8, <1>9, <1>10 DEF Next, Handle, Environment

(* Reconcile gives a FederatedObject to a source only while that source, and no successor
   of it, carries the finalizer in the API server: with any number of edits, successors
   and faults, for a copy that shows the finalizer is never one from before it was given
   up. *)
THEOREM CreationIsCovered == Spec => CreatedUnderFinalizer
<1>1. TypeOK /\ SourceInv /\ [Next]_vars => (TypeOK /\ SourceInv)'
  BY NextTypeOK, NextSourceInv
<1>2. TypeOK /\ SourceInv /\ [Next]_vars =>
        [fed'.exists /\ (fed'.template # fed.template \/ fed'.owner # fed.owner) =>
            source.exists /\ source.finalizer /\ source.uid = fed'.owner]_vars
  BY StepUnderFinalizer
<1> QED BY <1>1, <1>2, InitTypeOK, InitSourceInv, PTL DEF Spec, CreatedUnderFinalizer

-----------------------------------------------------------------------------
LEMMA NextCopiesInv ==
  ASSUME TypeOK, SourceInv, CopiesInv, [Next]_vars
  PROVE  CopiesInv'
<1> USE DEF CopiesInv
<1>1. CASE /\ UNCHANGED <<source, sourceCache, sourceObject, fedObject, pc, fedCache>>
           /\ (queued => queued') /\ (UNCHANGED <<fed, fedNews>> \/ fedNews')
  BY <1>1
<1>2. CASE pc' = "idle" /\ UNCHANGED fedCache /\ (UNCHANGED <<fed, fedNews>> \/ fedNews')
  BY <1>2
<1>3. CASE Reconcile
  <2>1. UNCHANGED <<source, sourceCache, fed, fedNews, fedCache>>
    BY <1>3 DEF Reconcile, fedVars
  <2>2. CASE pc' = "idle"
    BY <1>2, <2>1, <2>2
  <2>3. CASE pc' # "idle"
    <3>1. pc' = Route(sourceCache, fedCache) /\ sourceObject' = sourceCache /\ fedObject' = fedCache
      BY <1>3, <2>3 DEF Reconcile
    <3> QED BY <2>1, <3>1, RouteEffect
  <2> QED BY <2>2, <2>3
<1>4. CASE EnsureFinalizer
  <2>1. CASE sourceObject = source
    BY <1>4, <2>1 DEF EnsureFinalizer, fedVars
  <2>2. CASE sourceObject # source
    BY <1>2, <1>4, <2>2 DEF EnsureFinalizer, Return, fedVars
  <2> QED BY <2>1, <2>2
<1>5. CASE HandleCreateFederatedObject \/ HandleExistingFederatedObject \/ DeleteFederatedObject
  BY <1>2, <1>5 DEF HandleCreateFederatedObject, HandleExistingFederatedObject,
     DeleteFederatedObject, Return, Store, fedVars
<1>6. CASE RemoveFinalizer \/ Failure \/ ReplyLost
  BY <1>2, <1>6 DEF RemoveFinalizer, Failure, ReplyLost, Return, Store, fedVars
<1>7. CASE Crash
  BY <1>7 DEF Crash
<1>8. CASE ObserveSource \/ ObserveFed
  BY <1>8 DEF ObserveSource, ObserveFed, fedVars
<1>9. ASSUME NEW skip \in BOOLEAN, EditSource(skip) \/ DeleteSource \/ RecreateSource PROVE CopiesInv'
  BY <1>9, EnvSource, EnvSourceIsNew
<1>10. CASE UserDeletesFed \/ Propagate \/ SyncReleases \/ GarbageCollect
  BY <1>1, <1>10, FedFrame
<1>11. CASE UNCHANGED vars
  BY <1>1, <1>11 DEF vars
<1>12. FALSE \in BOOLEAN
  OBVIOUS
<1> HIDE DEF CopiesInv
<1> QED BY <1>3, <1>4, <1>5, <1>6, <1>7, <1>8, <1>9, <1>10, <1>11, <1>12 DEF Next, Handle, Environment

LEMMA NextQuietIsFederated ==
  ASSUME TypeOK, FederateInv, [Next]_vars
  PROVE  QuietIsFederated'
<1> USE DEF QuietIsFederated
<1>0. SourceInv /\ CopiesInv /\ QuietIsFederated
  BY DEF FederateInv
<1>1. CASE queued' \/ fedNews' \/ pc' # "idle" \/ ~source'.exists
  BY <1>1 DEF Federable
<1>2. CASE UNCHANGED vars
  BY <1>0, <1>2 DEF vars, Federable, Federated
<1>3. CASE Reconcile
  <2> SUFFICES ASSUME pc' = "idle", sourceCache' = source', ~fedNews', source.exists
               PROVE  /\ Federable' => Federated'
                      /\ source'.exists /\ source'.deleting => fed'.exists /\ (fed'.deleting \/ fed'.owner = Stranger)
    BY <1>1, <1>3 DEF Reconcile
  <2>1. UNCHANGED <<source, fed>> /\ sourceCache = source /\ fedCache = fed
    BY <1>0, <1>3 DEF Reconcile, fedVars, CopiesInv
  <2>2. "idle" = Route(source, fed)
    BY <1>3, <2>1 DEF Reconcile
  <2>3. source.deleting => source.finalizer
    BY <1>0 DEF SourceInv
  <2>4. CASE fed.exists /\ fed.owner = Stranger
    BY <2>1, <2>4 DEF Federable
  <2>5. CASE ~(fed.exists /\ fed.owner = Stranger)
    <3>1. /\ source.deleting => (fed.exists /\ fed.deleting) \/ (~fed.exists /\ ~source.finalizer)
          /\ ~source.deleting => source.skip
      BY <2>2, <2>5, RouteEffect
    <3> QED BY <2>1, <2>3, <3>1 DEF Federable
  <2> QED BY <2>4, <2>5
<1>4. ASSUME pc \in {"create", "update"}, UNCHANGED <<source, sourceCache, fed, fedNews>>,
             queued => queued',
             /\ \/ sourceObject.version \in Invalid
                \/ pc = "update" /\ ~NeedsUpdate
      PROVE  QuietIsFederated'
  <2> SUFFICES ASSUME ~queued', sourceCache' = source', ~fedNews', source.exists
               PROVE  /\ Federable' => Federated'
                      /\ ~source'.deleting
    BY <1>1, <1>4
  <2>1. fedObject = fed /\ sourceObject = source
    BY <1>0, <1>4 DEF CopiesInv
  <2>2. ~source.deleting
    BY <1>0, <1>4, <2>1 DEF SourceInv
  <2>3. pc = "update" => fed.exists
    BY <1>0, <2>1 DEF CopiesInv
  <2> QED BY <1>4, <2>1, <2>2, <2>3 DEF Federable, Federated, NeedsUpdate
<1>5. CASE HandleCreateFederatedObject
  <2>1. CASE sourceObject.version \in Invalid
    BY <1>4, <1>5, <2>1 DEF HandleCreateFederatedObject, Return, fedVars
  <2>2. CASE sourceObject.version \notin Invalid
    BY <1>1, <1>5, <2>2 DEF HandleCreateFederatedObject, Return, Store
  <2> QED BY <2>1, <2>2
<1>6. CASE HandleExistingFederatedObject
  <2>1. CASE NeedsUpdate
    BY <1>1, <1>6, <2>1 DEF HandleExistingFederatedObject, Return, Store
  <2>2. CASE ~NeedsUpdate
    BY <1>4, <1>6, <2>2 DEF HandleExistingFederatedObject, Return, fedVars
  <2> QED BY <2>1, <2>2
<1>7. CASE DeleteFederatedObject
  BY <1>1, <1>7 DEF DeleteFederatedObject, Return, Store
<1>8. CASE RemoveFinalizer
  BY <1>1, <1>8, NoneTyped DEF RemoveFinalizer, Return
<1>9. CASE EnsureFinalizer \/ Failure \/ ReplyLost \/ Crash \/ ObserveSource \/ ObserveFed
  BY <1>1, <1>9 DEF EnsureFinalizer, Failure, ReplyLost, Crash, ObserveSource, ObserveFed, Return
<1>10. ASSUME NEW skip \in BOOLEAN, EditSource(skip) \/ DeleteSource \/ RecreateSource
       PROVE  QuietIsFederated'
  <2>1. UNCHANGED sourceCache
    BY <1>0, <1>10, EnvSource
  <2>2. CASE source'.exists
    BY <1>0, <1>10, <2>1, <2>2, EnvSourceIsNew
  <2> QED BY <1>1, <2>2
<1>11. CASE UserDeletesFed \/ Propagate \/ SyncReleases \/ GarbageCollect
  BY <1>1, <1>11, FedFrame
<1>12. FALSE \in BOOLEAN
  OBVIOUS
<1> HIDE DEF QuietIsFederated
<1> QED BY <1>2, <1>3, <1>5, <1>6, <1>7, <1>8, <1>9, <1>10, <1>11, <1>12 DEF Next, Handle, Environment

(* No wakeup is lost, with any number of edits, successors and faults: when nothing is
   queued and the caches are current, a source that can be federated is, and one that
   waits to be deleted waits for a FederatedObject that is being deleted. *)
THEOREM RestIsFederated == Spec => []QuietIsFederated
<1>1. Init => TypeOK /\ FederateInv
  <2> SUFFICES ASSUME Init PROVE TypeOK /\ FederateInv
    OBVIOUS
  <2>1. CopiesInv /\ QuietIsFederated
    BY DEF Init, CopiesInv, QuietIsFederated
  <2> QED BY <2>1, InitTypeOK, InitSourceInv DEF FederateInv
<1>2. TypeOK /\ FederateInv /\ [Next]_vars => (TypeOK /\ FederateInv)'
  BY NextTypeOK, NextSourceInv, NextCopiesInv, NextQuietIsFederated DEF FederateInv
<1>3. FederateInv => QuietIsFederated
  BY DEF FederateInv
<1> QED BY <1>1, <1>2, <1>3, PTL DEF Spec
=============================================================================
