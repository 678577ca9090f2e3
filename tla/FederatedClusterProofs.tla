------------------------ MODULE FederatedClusterProofs ------------------------
(***************************************************************************)
(* The life of a member cluster, for every number of FederatedClusters of  *)
(* the name and of events.                                                 *)
(***************************************************************************)
EXTENDS FederatedCluster, TLAPS

Joined == {"none", "false", "true", "JoinTimeoutExceeded", "ClusterUnjoinable"}
Ready == {"none", "yes", "no"}

ClusterObjects == [uid : 1 .. MaxUids, joined : Joined, performed : BOOLEAN, ready : Ready,
                   deleting : BOOLEAN, finalizers : SUBSET {Own, Cascading},
                   cascade : BOOLEAN, useToken : BOOLEAN]

Joining == {"timeout", "look", "create", "grant", "update"}
Leaving == {"cleanup", "finalize"}

Runs == [step : Joining \cup Leaving, uid : 1 .. MaxUids, useToken : BOOLEAN,
         joined : Joined, performed : BOOLEAN, fresh : BOOLEAN, error : BOOLEAN]

Collects == [joined : Joined, performed : BOOLEAN, ready : Ready, probed : BOOLEAN]

Typed ==
    /\ api \in {None} \cup ClusterObjects /\ cached \in {None} \cup ClusterObjects
    /\ run \in {None} \cup Runs /\ collect \in {None} \cup Collects
    /\ fresh \in BOOLEAN /\ clobbered \in BOOLEAN
    /\ uids \in 0 .. MaxUids
    /\ ns \in Others \cup (0 .. uids) /\ nsSeen \in Others \cup (0 .. uids)
    /\ objs \in {"none", "ours", "left", "missed"}

(* Whoever says that the cluster is joined says that the join was performed. *)
PerformedInv ==
    /\ api # None => (api.joined = "true" => api.performed)
    /\ cached # None => (cached.joined = "true" => cached.performed)
    /\ run # None => (run.joined = "true" => run.performed)
    /\ collect # None => (collect.joined = "true" => collect.performed)

(* A copy is an older version of the FederatedCluster of today or of a former one. *)
CopyInv ==
    /\ api # None => api.uid = uids /\ (api.deleting => api.finalizers # {})
    /\ cached # None => cached.uid <= uids
    /\ api # None /\ cached # None /\ cached.uid = api.uid =>
         (cached.deleting => api.deleting) /\ cached.cascade = api.cascade
    /\ fresh => cached = api

(* What a reconcile knows of the FederatedCluster it works for. *)
RunInv ==
    run # None =>
        /\ run.uid <= uids
        /\ run.fresh => /\ api # None /\ api.uid = run.uid
                        /\ cached # None /\ cached.uid = run.uid
                        /\ run.step \in Joining => ~isClusterJoined(api) /\ ~api.deleting
        /\ run.step \in Leaving => /\ api # None /\ api.uid = run.uid => api.deleting
                                   /\ cached # None /\ cached.uid = run.uid => cached.deleting

(* As long as the first control plane has the member cluster, nothing was performed there. *)
ForeignInv ==
    ns = Other => /\ nsSeen = Other
                  /\ api # None => ~api.performed
                  /\ cached # None => ~cached.performed
                  /\ run # None => ~run.performed /\ run.step \notin {"create", "grant", "cleanup"}
                  /\ collect # None => ~collect.performed

(* The worker never goes back to a former FederatedCluster: the namespace is not that of a later
   one than the one it works for. *)
AgeInv ==
    /\ cached # None => ns <= cached.uid
    /\ run # None => ns <= run.uid /\ (cached # None => run.uid <= cached.uid)

(* A namespace that the watch cache still has, although it is gone, was that of a FederatedCluster
   which is being deleted, so that no join can take it for its own. *)
SeenInv ==
    nsSeen > 0 /\ nsSeen # ns =>
        /\ api # None /\ api.uid = nsSeen => api.deleting
        /\ cached # None /\ cached.uid = nsSeen => cached.deleting
        /\ run # None /\ run.uid = nsSeen => run.step \in Leaving

(* The namespace is that of the cluster that is being joined, and of the one that is. *)
JoinInv ==
    /\ run # None /\ run.step = "grant" => ns = run.uid
    /\ run # None /\ run.step = "update" /\ isClusterJoined(run) => ns = run.uid
    /\ ~clobbered /\ api # None /\ isClusterJoined(api) =>
         /\ cached # None /\ cached.uid = api.uid
         /\ ~api.deleting => ns = api.uid /\ (run = None \/ run.step \notin Leaving)

(* An object in the member cluster holds the cascading-delete finalizer, which holds the
   controller back. *)
StrandInv ==
    ~clobbered =>
        /\ cached # None /\ ~cached.deleting /\ Cascading \in cached.finalizers =>
             api # None /\ api.uid = cached.uid /\ Cascading \in api.finalizers
        /\ cached # None /\ isClusterJoined(cached) /\ api # None /\ api.uid = cached.uid =>
             isClusterJoined(api)
        /\ objs = "ours" =>
             /\ api # None /\ ns = api.uid /\ isClusterJoined(api) /\ Cascading \in api.finalizers
             /\ cached # None /\ cached.uid = api.uid /\ isClusterJoined(cached)
             /\ Cascading \in cached.finalizers
             /\ api.deleting => api.cascade
             /\ run = None \/ run.step \notin Leaving

Inv == Typed /\ PerformedInv /\ CopyInv /\ RunInv /\ ForeignInv /\ AgeInv /\ SeenInv /\ JoinInv /\ StrandInv

-----------------------------------------------------------------------------
(* What the writes do. *)

LEMMA NotNone ==
  /\ \A c \in ClusterObjects : c # None
  /\ \A r \in Runs : r # None
  /\ \A s \in Collects : s # None
<1>1. DOMAIN None = {"none"}
  BY DEF None
<1>2. ASSUME NEW c \in ClusterObjects PROVE c # None
  <2>1. "uid" \in DOMAIN c
    BY DEF ClusterObjects
  <2> QED BY <1>1, <2>1
<1>3. ASSUME NEW r \in Runs PROVE r # None
  <2>1. "uid" \in DOMAIN r
    BY DEF Runs
  <2> QED BY <1>1, <2>1
<1>4. ASSUME NEW s \in Collects PROVE s # None
  <2>1. "ready" \in DOMAIN s
    BY DEF Collects
  <2> QED BY <1>1, <2>1
<1> QED BY <1>2, <1>3, <1>4

LEMMA WriteEffect ==
  ASSUME NEW c \in ClusterObjects, Write(c)
  PROVE  /\ api' \in {None} \cup ClusterObjects /\ fresh' = FALSE
         /\ api' # None => api' = c /\ (c.deleting => c.finalizers # {})
         /\ api' = None => c.deleting /\ c.finalizers = {}
  BY NotNone DEF Write, Stored

LEMMA OutdatedEffect ==
  ASSUME run \in {None} \cup Runs, Outdated
  PROVE  /\ run' \in {None} \cup Runs
         /\ run' # None => /\ run # None /\ run'.fresh = FALSE /\ run'.uid = run.uid /\ run'.step = run.step
                           /\ run'.joined = run.joined /\ run'.performed = run.performed
<1>1. CASE run = None
  BY <1>1 DEF Outdated
<1>2. CASE run \in Runs
  <2>1. run' = [run EXCEPT !.fresh = FALSE]
    BY <1>2, NotNone DEF Outdated
  <2> QED BY <1>2, <2>1, NotNone DEF Runs
<1> QED BY <1>1, <1>2

LEMMA ConcludeEffect ==
  ASSUME run \in Runs, NEW j \in Joined, NEW p \in BOOLEAN, NEW e \in BOOLEAN, Conclude(j, p, e)
  PROVE  /\ run' \in Runs /\ run'.step = "update" /\ run'.joined = j /\ run'.performed = p
         /\ run'.uid = run.uid /\ run'.fresh = run.fresh
  BY DEF Conclude, Runs, Joining

LEMMA StepEffect ==
  ASSUME run \in Runs, NEW s \in Joining \cup Leaving, run' = [run EXCEPT !.step = s]
  PROVE  /\ run' \in Runs /\ run'.step = s /\ run'.joined = run.joined /\ run'.performed = run.performed
         /\ run'.uid = run.uid /\ run'.fresh = run.fresh
  BY DEF Runs

(* The fields the writes leave alone. *)
LEMMA FinalizersEffect ==
  ASSUME NEW c \in ClusterObjects, NEW F \in SUBSET {Own, Cascading}
  PROVE  /\ [c EXCEPT !.finalizers = F] \in ClusterObjects
         /\ [c EXCEPT !.finalizers = F].finalizers = F
         /\ [c EXCEPT !.finalizers = F].uid = c.uid /\ [c EXCEPT !.finalizers = F].joined = c.joined
         /\ [c EXCEPT !.finalizers = F].performed = c.performed
         /\ [c EXCEPT !.finalizers = F].deleting = c.deleting
         /\ [c EXCEPT !.finalizers = F].cascade = c.cascade
         /\ [c EXCEPT !.finalizers = F].useToken = c.useToken
  BY DEF ClusterObjects

LEMMA DeletingEffect ==
  ASSUME NEW c \in ClusterObjects
  PROVE  /\ [c EXCEPT !.deleting = TRUE] \in ClusterObjects /\ [c EXCEPT !.deleting = TRUE].deleting
         /\ [c EXCEPT !.deleting = TRUE].joined = c.joined
         /\ [c EXCEPT !.deleting = TRUE].performed = c.performed
         /\ [c EXCEPT !.deleting = TRUE].uid = c.uid
         /\ [c EXCEPT !.deleting = TRUE].finalizers = c.finalizers
         /\ [c EXCEPT !.deleting = TRUE].cascade = c.cascade
  BY DEF ClusterObjects

-----------------------------------------------------------------------------
(* The steps that touch neither the FederatedCluster nor the namespace, and put no object into
   the member cluster. *)
LEMMA RestsInv ==
  ASSUME Inv, UNCHANGED <<api, cached, fresh, ns, nsSeen, uids, clobbered>>,
         objs' = objs \/ objs' \in {"none", "left", "missed"},
         run' = None \/ run' = run,
         collect' = None \/ collect' = collect
  PROVE  Inv'
<1> USE DEF Inv
<1>1. Typed' BY DEF Typed
<1>2. PerformedInv' BY DEF PerformedInv
<1>3. CopyInv' BY DEF CopyInv
<1>4. RunInv' BY DEF RunInv, isClusterJoined
<1>5. ForeignInv' BY DEF ForeignInv
<1>6. JoinInv' BY DEF JoinInv, isClusterJoined
<1>7. StrandInv' BY DEF StrandInv, isClusterJoined
<1>8. AgeInv' /\ SeenInv' BY DEF AgeInv, SeenInv
<1> QED BY <1>1, <1>2, <1>3, <1>4, <1>5, <1>6, <1>7, <1>8

(* A collection of the status works on what was joined and performed when it began. *)
LEMMA CollectsInv ==
  ASSUME Inv, CollectBegin \/ CollectProbe
  PROVE  Inv'
<1>0. UNCHANGED <<api, cached, fresh, ns, nsSeen, objs, uids, clobbered, run>>
  BY DEF CollectBegin, CollectProbe, member, ctl, bounds
<1>1. CASE collect' = None
  BY <1>0, <1>1, RestsInv
<1>2. CASE collect' # None
  <2>1. /\ collect' \in Collects
        /\ \/ cached # None /\ collect'.joined = cached.joined /\ collect'.performed = cached.performed
           \/ collect # None /\ collect'.joined = collect.joined /\ collect'.performed = collect.performed
    <3>1. CASE CollectBegin
      <4>1. cached # None /\ cached \in ClusterObjects
        BY <1>2, <3>1 DEF CollectBegin, Inv, Typed
      <4>2. collect' = [joined |-> cached.joined, performed |-> cached.performed, ready |-> cached.ready,
                        probed |-> FALSE]
        BY <3>1, <4>1 DEF CollectBegin
      <4> QED BY <4>1, <4>2 DEF ClusterObjects, Collects
    <3>2. CASE CollectProbe
      <4>1. collect \in Collects
        BY <3>2 DEF CollectProbe, Inv, Typed
      <4>2. PICK r \in Ready : collect' = [collect EXCEPT !.ready = r, !.probed = TRUE]
        <5> DEFINE observed == IF reach THEN "yes" ELSE "no"
                   t == thresholdAdjustedStatusCondition(collect.ready, observed)
        <5>1. t.ready \in Ready
          BY <4>1 DEF thresholdAdjustedStatusCondition, Collects, Ready
        <5>2. collect' = [collect EXCEPT !.ready = t.ready, !.probed = TRUE]
          BY <1>2, <3>2 DEF CollectProbe
        <5> HIDE DEF t
        <5> QED BY <5>1, <5>2
      <4> QED BY <3>2, <4>1, <4>2 DEF Collects, CollectProbe
    <3> QED BY <3>1, <3>2
  <2>2. Typed' BY <1>0, <2>1 DEF Inv, Typed
  <2>3. PerformedInv' BY <1>0, <2>1 DEF Inv, PerformedInv
  <2>4. CopyInv' BY <1>0 DEF Inv, CopyInv
  <2>5. RunInv' BY <1>0 DEF Inv, RunInv, isClusterJoined
  <2>6. ForeignInv' BY <1>0, <2>1 DEF Inv, ForeignInv
  <2>7. JoinInv' BY <1>0 DEF Inv, JoinInv, isClusterJoined
  <2>8. StrandInv' BY <1>0 DEF Inv, StrandInv, isClusterJoined
  <2>9. AgeInv' /\ SeenInv' BY <1>0 DEF Inv, AgeInv, SeenInv
  <2> QED BY <2>2, <2>3, <2>4, <2>5, <2>6, <2>7, <2>8, <2>9 DEF Inv
<1> QED BY <1>1, <1>2

LEMMA Owners ==
  /\ Nobody \notin Others /\ \A n \in Nat : \A u \in 1 .. n : u # Nobody /\ u \notin Others
  /\ Nobody = 0 /\ Nobody # Other /\ Newcomer # Other /\ Other \in Others
  /\ Other \in Int /\ Other < 0 /\ Newcomer \in Int /\ Newcomer < 0 /\ Others = {Other, Newcomer}
  BY DEF Nobody, Other, Newcomer, Others

(* All uids are numbers. *)
LEMMA Numbers ==
  ASSUME Inv
  PROVE  /\ uids \in Nat /\ ns \in Int /\ nsSeen \in Int /\ ns <= uids /\ nsSeen <= uids
         /\ api # None => api.uid \in Nat \ {0} /\ api.uid = uids
         /\ cached # None => cached.uid \in Nat \ {0} /\ cached.uid <= uids
         /\ run # None => run.uid \in Nat \ {0} /\ run.uid <= uids
<1>1. uids \in Nat
  BY BoundsAssumption DEF Inv, Typed
<1>2. ns \in Int /\ nsSeen \in Int /\ ns <= uids /\ nsSeen <= uids
  BY <1>1, Owners DEF Inv, Typed
<1>3. /\ api # None => api.uid \in Nat \ {0} /\ api.uid = uids
      /\ cached # None => cached.uid \in Nat \ {0} /\ cached.uid <= uids
      /\ run # None => run.uid \in Nat \ {0} /\ run.uid <= uids
  BY BoundsAssumption DEF Inv, Typed, CopyInv, RunInv, ClusterObjects, Runs
<1> QED BY <1>1, <1>2, <1>3

(* A join attempt, up to its status update. *)
LEMMA JoinsInv ==
  ASSUME Inv, JoinTimeout \/ JoinLook \/ JoinCreate \/ JoinGrant
  PROVE  Inv'
<1>0. /\ UNCHANGED <<api, cached, fresh, nsSeen, objs, uids, clobbered, collect>>
      /\ run # None /\ run.step \in Joining
  BY DEF JoinTimeout, JoinLook, JoinCreate, JoinGrant, member, status, bounds, Joining
<1>1. /\ run \in Runs /\ run.uid \in 1 .. uids /\ run.uid # Nobody /\ run.uid # Other
      /\ run.performed \in BOOLEAN /\ uids \in Nat
  <2>1. run \in Runs /\ run.uid \in Nat \ {0} /\ uids \in Nat /\ run.uid <= uids
    BY <1>0, Numbers DEF Inv, Typed
  <2>2. run.uid \in 1 .. uids
    BY <2>1
  <2> QED BY <2>1, <2>2, Owners DEF Runs
<1>2. /\ run' \in Runs /\ run'.uid = run.uid /\ run'.fresh = run.fresh
      /\ run'.step \in {"create", "grant", "update"}
      /\ run'.step = "create" => ns' # Other /\ run'.joined = run.joined /\ run'.performed = run.performed
      /\ run'.step = "grant" => /\ ns' = run.uid
                                /\ run'.joined = run.joined /\ run'.performed = run.performed
      /\ run'.step = "update" /\ run'.joined = "true" => ns' = run.uid /\ run'.performed
      /\ ns' = Other /\ run'.performed => run.performed
      /\ ns' = ns \/ (ns = Nobody /\ ns' = run.uid)
  <2>1. /\ "JoinTimeoutExceeded" \in Joined /\ "ClusterUnjoinable" \in Joined /\ "false" \in Joined
        /\ "true" \in Joined /\ TRUE \in BOOLEAN /\ FALSE \in BOOLEAN
        /\ "create" \in Joining \cup Leaving /\ "grant" \in Joining \cup Leaving
    BY DEF Joined, Joining
  <2>2. CASE JoinTimeout
    <3>1. Conclude("JoinTimeoutExceeded", run.performed, FALSE) /\ UNCHANGED ns
      BY <2>2 DEF JoinTimeout, member
    <3> QED BY <1>1, <2>1, <3>1, ConcludeEffect
  <2>3. CASE JoinLook
    <3>0. UNCHANGED ns /\ run.step = "look"
      BY <2>3 DEF JoinLook, member
    <3>1. CASE Conclude("false", run.performed, TRUE)
      BY <1>1, <2>1, <3>0, <3>1, ConcludeEffect
    <3>2. CASE Conclude("ClusterUnjoinable", FALSE, FALSE)
      BY <1>1, <2>1, <3>0, <3>2, ConcludeEffect
    <3>3. CASE nsSeen = Nobody /\ run' = [run EXCEPT !.step = "create"]
      <4>1. ns # Other
        BY <3>3, Owners DEF Inv, ForeignInv
      <4> QED BY <1>1, <2>1, <3>0, <3>3, <4>1, StepEffect
    <3>4. CASE nsSeen = run.uid /\ run' = [run EXCEPT !.step = "grant"]
      <4>1. ns = run.uid
        BY <1>0, <1>1, <3>0, <3>4 DEF Inv, SeenInv, Leaving
      <4> QED BY <1>1, <2>1, <3>0, <3>4, <4>1, StepEffect
    <3>5. \/ Conclude("false", run.performed, TRUE) \/ Conclude("ClusterUnjoinable", FALSE, FALSE)
          \/ nsSeen = Nobody /\ run' = [run EXCEPT !.step = "create"]
          \/ nsSeen = run.uid /\ run' = [run EXCEPT !.step = "grant"]
      BY <1>1, <2>3 DEF JoinLook
    <3> QED BY <3>1, <3>2, <3>3, <3>4, <3>5
  <2>4. CASE JoinCreate
    <3>0. ns # Other /\ (ns' = ns \/ (ns = Nobody /\ ns' = run.uid))
      BY <1>0, <2>4 DEF JoinCreate, Inv, ForeignInv
    <3>1. CASE ns' = run.uid /\ run' = [run EXCEPT !.step = "grant"]
      BY <1>1, <2>1, <3>0, <3>1, StepEffect
    <3>2. CASE Conclude("false", TRUE, TRUE)
      BY <1>1, <2>1, <3>0, <3>2, ConcludeEffect
    <3> QED BY <2>4, <3>1, <3>2 DEF JoinCreate
  <2>5. CASE JoinGrant
    <3>0. ns = run.uid /\ UNCHANGED ns
      BY <1>0, <2>5 DEF JoinGrant, Inv, JoinInv
    <3>1. CASE Conclude("true", TRUE, FALSE)
      BY <1>1, <2>1, <3>0, <3>1, ConcludeEffect
    <3>2. CASE Conclude("false", TRUE, TRUE)
      BY <1>1, <2>1, <3>0, <3>2, ConcludeEffect
    <3> QED BY <2>5, <3>1, <3>2 DEF JoinGrant
  <2> QED BY <2>2, <2>3, <2>4, <2>5
<1>4. run' # None
  BY <1>2, NotNone
<1>5. Typed' BY <1>0, <1>1, <1>2 DEF Inv, Typed
<1>6. PerformedInv' BY <1>0, <1>2, <1>4 DEF Inv, PerformedInv
<1>7. CopyInv' BY <1>0 DEF Inv, CopyInv
<1>8. RunInv' BY <1>0, <1>2, <1>4 DEF Inv, RunInv, isClusterJoined, Joining, Leaving
<1>9. ForeignInv'
  <2>1. CASE ns' # Other
    BY <2>1 DEF ForeignInv
  <2>2. CASE ns' = Other
    <3>1. ns = Other
      BY <1>1, <1>2, <2>2
    <3>2. ~run.performed /\ run'.step \notin {"create", "grant", "cleanup"}
      BY <1>0, <1>1, <1>2, <2>2, <3>1 DEF Inv, ForeignInv
    <3> QED BY <1>0, <1>2, <2>2, <3>1, <3>2 DEF Inv, ForeignInv
  <2> QED BY <2>1, <2>2
<1>10. JoinInv'
  <2>1. run'.step = "grant" => ns' = run'.uid
    BY <1>2
  <2>2. run'.step = "update" /\ run'.joined = "true" => ns' = run'.uid
    BY <1>2
  <2>3. ~clobbered' /\ api' # None /\ isClusterJoined(api)' =>
          /\ cached' # None /\ cached'.uid = api'.uid
          /\ ~api'.deleting => ns' = api'.uid /\ (run' = None \/ run'.step \notin Leaving)
    <3> SUFFICES ASSUME ~clobbered, api # None, isClusterJoined(api)
                 PROVE  /\ cached # None /\ cached.uid = api.uid
                        /\ ~api.deleting => ns' = api.uid /\ run'.step \notin Leaving
      BY <1>0 DEF isClusterJoined
    <3>1. api.uid # Nobody
      BY Numbers, Owners
    <3> QED BY <1>2, <3>1 DEF Inv, JoinInv, Leaving
  <2> QED BY <2>1, <2>2, <2>3 DEF JoinInv, isClusterJoined
<1>11. StrandInv'
  <2>1. run'.step \notin Leaving
    BY <1>2 DEF Leaving
  <2>2. objs = "ours" /\ ~clobbered => ns' = ns
    <3> SUFFICES ASSUME objs = "ours", ~clobbered PROVE ns # Nobody
      BY <1>2
    <3>1. api # None /\ ns = api.uid
      BY DEF Inv, StrandInv
    <3> QED BY <3>1, Numbers, Owners
  <2> QED BY <1>0, <2>1, <2>2 DEF Inv, StrandInv, isClusterJoined
<1>12. AgeInv'
  <2>1. /\ ns <= run.uid
        /\ cached # None => ns <= cached.uid /\ run.uid <= cached.uid
    BY <1>0 DEF Inv, AgeInv
  <2>2. run.uid <= run.uid
    BY <1>0, Numbers
  <2> QED BY <1>0, <1>2, <2>1, <2>2 DEF AgeInv
<1>13. SeenInv'
  <2> SUFFICES ASSUME nsSeen > 0, nsSeen # ns' PROVE SeenInv'
    BY <1>0 DEF SeenInv
  <2>1. nsSeen # ns
    BY <1>2, Owners, Numbers
  <2>2. run.uid # nsSeen
    BY <1>0, <2>1 DEF Inv, SeenInv, Joining, Leaving
  <2> QED BY <1>0, <1>2, <2>1, <2>2 DEF Inv, SeenInv
<1> QED BY <1>5, <1>6, <1>7, <1>8, <1>9, <1>10, <1>11, <1>12, <1>13 DEF Inv

(* The clean-up of a cluster that is being deleted. *)
LEMMA CleansUp ==
  ASSUME Inv, Cleanup
  PROVE  Inv'
<1>0. /\ UNCHANGED <<api, cached, fresh, nsSeen, objs, uids, clobbered, collect>>
      /\ run # None /\ run.step = "cleanup"
  BY DEF Cleanup, member, status, bounds
<1>1. CASE run' = None /\ UNCHANGED ns
  BY <1>0, <1>1, RestsInv
<1>2. CASE ns' = Nobody /\ run' = [run EXCEPT !.step = "finalize"]
  <2>1. /\ run' \in Runs /\ run'.step = "finalize" /\ run'.joined = run.joined
        /\ run'.performed = run.performed /\ run'.uid = run.uid /\ run'.fresh = run.fresh
    BY <1>0, <1>2, StepEffect DEF Inv, Typed, Leaving
  <2>2. run' # None /\ ns' # Other
    BY <1>2, <2>1, NotNone, Owners
  <2>3. Typed'
    <3>1. ns' \in Others \cup (0 .. uids)
      BY <1>2, Owners, Numbers
    <3> QED BY <1>0, <2>1, <3>1 DEF Inv, Typed
  <2>4. PerformedInv' BY <1>0, <2>1 DEF Inv, PerformedInv
  <2>5. CopyInv' BY <1>0 DEF Inv, CopyInv
  <2>6. RunInv' BY <1>0, <2>1, <2>2 DEF Inv, RunInv, isClusterJoined, Joining, Leaving
  <2>7. ForeignInv' BY <2>2 DEF ForeignInv
  <2>8. JoinInv' BY <1>0, <2>1 DEF Inv, JoinInv, isClusterJoined, Leaving
  <2>9. StrandInv' BY <1>0, <2>1 DEF Inv, StrandInv, isClusterJoined, Leaving
  <2>10. AgeInv'
    <3>1. /\ cached # None => run.uid <= cached.uid /\ ns' <= cached.uid
          /\ ns' <= run.uid
      BY <1>0, <1>2, Numbers, Owners DEF Inv, AgeInv
    <3> QED BY <1>0, <2>1, <3>1 DEF AgeInv
  <2>11. SeenInv'
    <3> SUFFICES ASSUME nsSeen > 0 PROVE SeenInv'
      BY <1>0 DEF SeenInv
    <3>1. CASE nsSeen # ns
      BY <1>0, <2>1, <3>1 DEF Inv, SeenInv, Leaving
    <3>2. CASE nsSeen = run.uid
      BY <1>0, <2>1, <3>2 DEF Inv, RunInv, SeenInv, Leaving
    <3>3. CASE nsSeen = ns /\ ns # run.uid
      <4>1. ns < run.uid
        BY <1>0, <3>3, Numbers DEF Inv, AgeInv
      <4>2. /\ cached # None => cached.uid # nsSeen
            /\ api # None => api.uid # nsSeen
        BY <1>0, <3>3, <4>1, Numbers DEF Inv, AgeInv
      <4> QED BY <1>0, <2>1, <3>3, <4>2 DEF SeenInv
    <3> QED BY <3>1, <3>2, <3>3
  <2> QED BY <2>3, <2>4, <2>5, <2>6, <2>7, <2>8, <2>9, <2>10, <2>11 DEF Inv
<1> QED BY <1>1, <1>2 DEF Cleanup, Retry, member

-----------------------------------------------------------------------------
(* The beginning of a reconcile, with the write of the controller's finalizer. *)
LEMMA ReconcileEffect ==
  ASSUME Inv, Reconcile
  PROVE  /\ UNCHANGED <<cached, ns, nsSeen, objs, uids, clobbered, collect>> /\ run = None
         /\ \/ UNCHANGED <<api, fresh>>
            \/ /\ api \in ClusterObjects /\ api' \in ClusterObjects /\ fresh' = FALSE /\ cached = api
               /\ ~api.deleting /\ ~api'.deleting /\ api.finalizers \subseteq api'.finalizers
               /\ api'.uid = api.uid /\ api'.joined = api.joined /\ api'.performed = api.performed
               /\ api'.cascade = api.cascade
         /\ run' # None =>
              /\ run' \in Runs /\ cached # None
              /\ run'.uid = cached.uid /\ run'.joined = cached.joined /\ run'.performed = cached.performed
              /\ run'.fresh => fresh
              /\ \/ run'.step \in {"timeout", "look"} /\ ~cached.deleting /\ cached.joined # "true"
                 \/ /\ run'.step \in Leaving /\ cached.deleting /\ cached.finalizers = {Own}
                    /\ run'.step = "cleanup" => cached.performed
<1> DEFINE adds == cached # None /\ ~cached.deleting /\ Own \notin cached.finalizers
           c == IF adds THEN [cached EXCEPT !.finalizers = @ \cup {Own}] ELSE cached
<1>1. /\ queued' = (adds /\ ~fresh)
      /\ run' = IF queued' \/ c = None \/ Plan(c) = "done" THEN None
                ELSE [step |-> Plan(c), uid |-> c.uid, useToken |-> c.useToken, joined |-> c.joined,
                      performed |-> c.performed, fresh |-> fresh, error |-> FALSE]
      /\ IF adds /\ fresh THEN Write(c) ELSE UNCHANGED <<api, fresh>>
  BY DEF Reconcile
<1>2. UNCHANGED <<cached, ns, nsSeen, objs, uids, clobbered, collect>> /\ run = None
  BY DEF Reconcile, member, status, bounds
<1>3. adds => /\ cached \in ClusterObjects /\ c = [cached EXCEPT !.finalizers = cached.finalizers \cup {Own}]
              /\ cached.finalizers \cup {Own} \in SUBSET {Own, Cascading}
  BY DEF Inv, Typed, ClusterObjects
<1>4. adds => /\ c \in ClusterObjects /\ c # None /\ c.finalizers = cached.finalizers \cup {Own} /\ c.uid = cached.uid
              /\ c.joined = cached.joined /\ c.performed = cached.performed
              /\ c.deleting = cached.deleting /\ c.cascade = cached.cascade
  BY <1>3, FinalizersEffect, NotNone
<1>5. ~adds => c = cached
  OBVIOUS
<1> HIDE DEF c
<1>6. CASE c = None
  BY <1>1, <1>2, <1>4, <1>5, <1>6
<1>7. CASE c # None
  <2>1. /\ cached # None /\ c \in ClusterObjects /\ c.uid = cached.uid /\ c.joined = cached.joined
        /\ c.performed = cached.performed /\ c.deleting = cached.deleting
        /\ c.deleting => c.finalizers = cached.finalizers
    BY <1>4, <1>5, <1>7 DEF Inv, Typed
  <2>2. \/ UNCHANGED <<api, fresh>>
        \/ /\ api \in ClusterObjects /\ api' \in ClusterObjects /\ fresh' = FALSE /\ cached = api
           /\ ~api.deleting /\ ~api'.deleting /\ api.finalizers \subseteq api'.finalizers
           /\ api'.uid = api.uid /\ api'.joined = api.joined /\ api'.performed = api.performed
           /\ api'.cascade = api.cascade
    <3>1. CASE adds /\ fresh
      <4>1. cached = api /\ Write(c) /\ ~c.deleting
        BY <1>1, <1>4, <3>1 DEF Inv, CopyInv
      <4>2. api' = c /\ fresh' = FALSE
        BY <1>4, <3>1, <4>1, WriteEffect
      <4> QED BY <1>3, <1>4, <3>1, <4>1, <4>2
    <3>2. CASE ~(adds /\ fresh)
      BY <1>1, <3>2
    <3> QED BY <3>1, <3>2
  <2>3. ASSUME run' # None
        PROVE  /\ run' \in Runs
               /\ run'.uid = cached.uid /\ run'.joined = cached.joined /\ run'.performed = cached.performed
               /\ run'.fresh => fresh
               /\ \/ run'.step \in {"timeout", "look"} /\ ~cached.deleting /\ cached.joined # "true"
                  \/ /\ run'.step \in Leaving /\ cached.deleting /\ cached.finalizers = {Own}
                     /\ run'.step = "cleanup" => cached.performed
    <3>1. /\ Plan(c) # "done"
          /\ run' = [step |-> Plan(c), uid |-> c.uid, useToken |-> c.useToken, joined |-> c.joined,
                     performed |-> c.performed, fresh |-> fresh, error |-> FALSE]
      BY <1>1, <2>3
    <3>2. Plan(c) \in {"timeout", "look", "cleanup", "finalize"}
      BY <3>1 DEF Plan
    <3>3. run' \in Runs
      BY <2>1, <3>1, <3>2 DEF Runs, Joining, Leaving, ClusterObjects, Inv, Typed
    <3>4. /\ Plan(c) \in {"timeout", "look"} => ~c.deleting /\ c.joined # "true"
          /\ Plan(c) \in Leaving => c.deleting /\ c.finalizers = {Own}
          /\ Plan(c) = "cleanup" => c.performed
      BY <3>1 DEF Plan, isClusterJoined, Leaving
    <3> QED BY <2>1, <3>1, <3>2, <3>3, <3>4 DEF Leaving
  <2> QED BY <1>2, <2>1, <2>2, <2>3
<1> QED BY <1>6, <1>7

LEMMA ReconcilesInv ==
  ASSUME Inv, Reconcile
  PROVE  Inv'
<1>0. UNCHANGED <<cached, ns, nsSeen, objs, uids, clobbered, collect>> /\ run = None
  BY ReconcileEffect
<1>1. \/ UNCHANGED <<api, fresh>>
      \/ /\ api \in ClusterObjects /\ api' \in ClusterObjects /\ fresh' = FALSE /\ cached = api
         /\ ~api.deleting /\ ~api'.deleting /\ api.finalizers \subseteq api'.finalizers
         /\ api'.uid = api.uid /\ api'.joined = api.joined /\ api'.performed = api.performed
         /\ api'.cascade = api.cascade
  BY ReconcileEffect
<1>2. run' # None =>
        /\ run' \in Runs /\ cached # None
        /\ run'.uid = cached.uid /\ run'.joined = cached.joined /\ run'.performed = cached.performed
        /\ run'.fresh => fresh
        /\ \/ run'.step \in {"timeout", "look"} /\ ~cached.deleting /\ cached.joined # "true"
           \/ /\ run'.step \in Leaving /\ cached.deleting /\ cached.finalizers = {Own}
              /\ run'.step = "cleanup" => cached.performed
  BY ReconcileEffect
<1>3. (api' = None) = (api = None)
  BY <1>1, NotNone
<1>4. Own # Cascading
  BY DEF Own, Cascading
<1>5. Typed' BY <1>0, <1>1, <1>2 DEF Inv, Typed
<1>6. PerformedInv' BY <1>0, <1>1, <1>2, <1>3 DEF Inv, PerformedInv
<1>7. CopyInv' BY <1>0, <1>1, <1>3 DEF Inv, CopyInv
<1>8. RunInv'
  <2> SUFFICES ASSUME run' # None
               PROVE  /\ run'.uid <= uids
                      /\ run'.fresh => /\ api' # None /\ api'.uid = run'.uid
                                       /\ cached # None /\ cached.uid = run'.uid
                                       /\ run'.step \in Joining => ~isClusterJoined(api)' /\ ~api'.deleting
                      /\ run'.step \in Leaving => /\ api' # None /\ api'.uid = run'.uid => api'.deleting
                                                  /\ cached.uid = run'.uid => cached.deleting
    BY <1>0 DEF RunInv
  <2>1. run'.uid <= uids
    BY <1>2 DEF Inv, CopyInv
  <2>2. run'.fresh => cached = api /\ api # None /\ api'.uid = run'.uid
    BY <1>1, <1>2 DEF Inv, CopyInv
  <2>3. run'.fresh /\ run'.step \in Joining => api'.joined # "true" /\ ~api'.deleting
    BY <1>1, <1>2, <2>2 DEF Joining, Leaving
  <2>4. run'.step \in Leaving => cached.deleting
    BY <1>2 DEF Leaving
  <2>5. run'.step \in Leaving /\ api' # None /\ api'.uid = run'.uid => api'.deleting
    BY <1>1, <1>2, <1>3, <2>4 DEF Inv, CopyInv
  <2> QED BY <1>2, <1>3, <2>1, <2>2, <2>3, <2>4, <2>5 DEF isClusterJoined
<1>9. ForeignInv'
  <2>1. ns = Other /\ run' # None => ~run'.performed /\ run'.step \notin {"create", "grant", "cleanup"}
    BY <1>2 DEF Inv, ForeignInv, Leaving
  <2> QED BY <1>0, <1>1, <1>3, <2>1 DEF Inv, ForeignInv
<1>10. JoinInv'
  <2>1. run' # None => run'.step \notin {"grant", "update"}
    BY <1>2 DEF Leaving
  <2>2. ~clobbered /\ api # None /\ api.joined = "true" /\ ~api.deleting /\ run' # None => run'.step \notin Leaving
    BY <1>2 DEF Inv, JoinInv, CopyInv, isClusterJoined, Leaving
  <2> QED BY <1>0, <1>1, <1>3, <2>1, <2>2 DEF Inv, JoinInv, isClusterJoined
<1>11. StrandInv'
  <2>1. ~clobbered /\ objs = "ours" /\ run' # None => run'.step \notin Leaving
    BY <1>2, <1>4 DEF Inv, StrandInv, Leaving
  <2> QED BY <1>0, <1>1, <1>3, <2>1 DEF Inv, StrandInv, isClusterJoined
<1>12. AgeInv'
  <2>1. cached # None => ns <= cached.uid /\ cached.uid <= cached.uid
    BY Numbers DEF Inv, AgeInv
  <2> QED BY <1>0, <1>2, <2>1 DEF AgeInv
<1>13. SeenInv'
  <2> SUFFICES ASSUME nsSeen > 0, nsSeen # ns PROVE SeenInv'
    BY <1>0 DEF SeenInv
  <2>1. api' # None /\ api'.uid = nsSeen => api'.deleting
    BY <1>1, <1>3 DEF Inv, SeenInv
  <2>2. cached # None /\ cached.uid = nsSeen => cached.deleting
    BY DEF Inv, SeenInv
  <2> QED BY <1>0, <1>2, <2>1, <2>2 DEF SeenInv
<1> QED BY <1>5, <1>6, <1>7, <1>8, <1>9, <1>10, <1>11, <1>12, <1>13 DEF Inv

(* The status update of a join. *)
LEMMA JoinUpdatesInv ==
  ASSUME Inv, JoinUpdate
  PROVE  Inv'
<1>0. /\ UNCHANGED <<cached, ns, nsSeen, objs, uids, clobbered, collect>>
      /\ run # None /\ run.step = "update" /\ run' = None
  BY DEF JoinUpdate, member, bounds
<1>1. CASE ~run.fresh
  <2>1. UNCHANGED <<api, fresh>>
    BY <1>1 DEF JoinUpdate
  <2> QED BY <1>0, <2>1, RestsInv
<1>2. CASE run.fresh
  <2>1. /\ run \in Runs /\ api \in ClusterObjects /\ api.uid = run.uid /\ cached # None /\ cached.uid = run.uid
        /\ ~isClusterJoined(api) /\ ~api.deleting
    BY <1>0, <1>2 DEF Inv, Typed, RunInv, Joining
  <2> DEFINE d == [api EXCEPT !.joined = run.joined, !.performed = run.performed]
  <2>2. /\ d \in ClusterObjects /\ d.joined = run.joined /\ d.performed = run.performed
        /\ d.uid = api.uid /\ d.deleting = api.deleting /\ d.finalizers = api.finalizers
        /\ d.cascade = api.cascade
    <3>1. run.joined \in Joined /\ run.performed \in BOOLEAN
      BY <2>1 DEF Runs
    <3> QED BY <2>1, <3>1 DEF ClusterObjects
  <2>3. Write(d)
    BY <1>2 DEF JoinUpdate
  <2> HIDE DEF d
  <2>4. api' = d /\ fresh' = FALSE /\ api' # None
    BY <2>1, <2>2, <2>3, WriteEffect, NotNone
  <2>5. Typed' BY <1>0, <2>2, <2>4 DEF Inv, Typed
  <2>6. PerformedInv' BY <1>0, <2>2, <2>4 DEF Inv, PerformedInv
  <2>7. CopyInv'
    <3>1. api'.uid = uids /\ ~api'.deleting /\ fresh' = FALSE
      BY <2>1, <2>2, <2>4, NotNone DEF Inv, CopyInv
    <3>2. ~cached.deleting /\ cached.cascade = api'.cascade
      BY <2>1, <2>2, <2>4, NotNone DEF Inv, CopyInv
    <3>3. cached.uid <= uids
      BY <2>1 DEF Inv, CopyInv
    <3> QED BY <1>0, <3>1, <3>2, <3>3 DEF CopyInv
  <2>8. RunInv' BY <1>0 DEF RunInv
  <2>9. ForeignInv' BY <1>0, <2>2, <2>4 DEF Inv, ForeignInv
  <2>10. JoinInv' BY <1>0, <2>1, <2>2, <2>4 DEF Inv, JoinInv, isClusterJoined
  <2>11. StrandInv' BY <1>0, <2>1, <2>2, <2>4, NotNone DEF Inv, StrandInv, isClusterJoined
  <2>12. AgeInv' /\ SeenInv' BY <1>0, <2>1, <2>2, <2>4, NotNone DEF Inv, AgeInv, SeenInv
  <2> QED BY <2>5, <2>6, <2>7, <2>8, <2>9, <2>10, <2>11, <2>12 DEF Inv
<1> QED BY <1>1, <1>2

(* The removal of the finalizers, from whatever FederatedCluster has the name now. *)
LEMMA FinalizesInv ==
  ASSUME Inv, Finalize
  PROVE  Inv'
<1>0. /\ UNCHANGED <<cached, ns, nsSeen, objs, uids, collect>>
      /\ run # None /\ run.step = "finalize" /\ run' = None
  BY DEF Finalize, member, status, bounds, Retry
<1>1. CASE api = None
  <2>1. UNCHANGED <<api, fresh, clobbered>>
    BY <1>1 DEF Finalize
  <2> QED BY <1>0, <2>1, RestsInv
<1>2. CASE api # None
  <2>1. /\ run \in Runs /\ api \in ClusterObjects
        /\ Write([api EXCEPT !.finalizers = {}]) /\ clobbered' = (clobbered \/ api.uid # run.uid)
    BY <1>0, <1>2 DEF Finalize, Inv, Typed
  <2> DEFINE d == [api EXCEPT !.finalizers = {}]
  <2>2. /\ d \in ClusterObjects /\ d.uid = api.uid /\ d.joined = api.joined /\ d.performed = api.performed
        /\ d.deleting = api.deleting /\ d.cascade = api.cascade /\ d.finalizers = {}
    BY <2>1, FinalizersEffect
  <2>3. Write(d)
    BY <2>1
  <2> HIDE DEF d
  <2>4. /\ api' \in {None} \cup ClusterObjects /\ fresh' = FALSE
        /\ api' # None => api' = d /\ ~d.deleting
    BY <2>2, <2>3, WriteEffect
  <2>5. ~clobbered' => /\ ~clobbered /\ api.uid = run.uid /\ api' = None
                       /\ cached # None /\ cached.uid = run.uid => cached.deleting
    BY <1>0, <1>2, <2>1, <2>2, <2>4 DEF Inv, RunInv, Leaving
  <2>6. Typed' BY <1>0, <2>1, <2>4 DEF Inv, Typed
  <2>7. PerformedInv' BY <1>0, <1>2, <2>2, <2>4 DEF Inv, PerformedInv
  <2>8. CopyInv' BY <1>0, <1>2, <2>2, <2>4 DEF Inv, CopyInv
  <2>9. RunInv' BY <1>0 DEF RunInv
  <2>10. ForeignInv' BY <1>0, <1>2, <2>2, <2>4 DEF Inv, ForeignInv
  <2>11. JoinInv' BY <1>0, <2>5 DEF JoinInv
  <2>12. StrandInv'
    <3> SUFFICES ASSUME ~clobbered' PROVE StrandInv'
      BY DEF StrandInv
    <3>1. objs # "ours"
      BY <1>0, <2>5 DEF Inv, StrandInv, Leaving
    <3>2. cached # None /\ ~cached.deleting => Cascading \notin cached.finalizers
      BY <2>5 DEF Inv, StrandInv
    <3> QED BY <1>0, <2>5, <3>1, <3>2 DEF StrandInv
  <2>13. AgeInv' /\ SeenInv' BY <1>0, <1>2, <2>2, <2>4 DEF Inv, AgeInv, SeenInv
  <2> QED BY <2>6, <2>7, <2>8, <2>9, <2>10, <2>11, <2>12, <2>13 DEF Inv
<1> QED BY <1>1, <1>2

-----------------------------------------------------------------------------
(* The writes that outdate a reconcile. *)

(* The status is written, or a finalizer is added. *)
LEMMA TouchesInv ==
  ASSUME Inv, UNCHANGED <<cached, ns, nsSeen, objs, uids>>,
         api \in ClusterObjects, api' \in ClusterObjects, fresh' = FALSE, Outdated,
         collect' = None \/ collect' = collect,
         api'.uid = api.uid, api'.cascade = api.cascade, api'.deleting = api.deleting,
         api.finalizers \subseteq api'.finalizers,
         api'.joined = "true" => api'.performed,
         ns = Other => ~api'.performed,
         clobbered' \in BOOLEAN,
         ~clobbered' => ~clobbered /\ api'.joined = api.joined
  PROVE  Inv'
<1>1. api # None /\ api' # None
  BY NotNone
<1>2. /\ run' \in {None} \cup Runs
      /\ run' # None => /\ run # None /\ run'.fresh = FALSE /\ run'.uid = run.uid /\ run'.step = run.step
                        /\ run'.joined = run.joined /\ run'.performed = run.performed
  BY OutdatedEffect DEF Inv, Typed
<1>3. Typed' BY <1>2 DEF Inv, Typed
<1>4. PerformedInv' BY <1>2 DEF Inv, PerformedInv
<1>5. CopyInv' BY <1>1 DEF Inv, CopyInv
<1>6. RunInv' BY <1>1, <1>2 DEF Inv, RunInv
<1>7. ForeignInv' BY <1>1, <1>2 DEF Inv, ForeignInv
<1>8. JoinInv' BY <1>1, <1>2 DEF Inv, JoinInv, isClusterJoined
<1>9. StrandInv' BY <1>1, <1>2 DEF Inv, StrandInv, isClusterJoined
<1>10. AgeInv' /\ SeenInv' BY <1>1, <1>2 DEF Inv, AgeInv, SeenInv
<1> QED BY <1>3, <1>4, <1>5, <1>6, <1>7, <1>8, <1>9, <1>10 DEF Inv

LEMMA CollectWritesInv ==
  ASSUME Inv, CollectWrite
  PROVE  Inv'
<1>0. /\ UNCHANGED <<cached, ns, nsSeen, objs, uids>> /\ collect # None /\ collect' = None
  BY DEF CollectWrite, member, bounds
<1>1. CASE api = None
  <2>1. UNCHANGED <<api, fresh, run, clobbered>>
    BY <1>1 DEF CollectWrite
  <2> QED BY <1>0, <2>1, RestsInv
<1>2. CASE api # None
  <2> DEFINE d == [api EXCEPT !.joined = collect.joined, !.performed = collect.performed,
                              !.ready = collect.ready]
  <2>1. /\ Write(d) /\ Outdated
        /\ clobbered' = (clobbered \/ d.joined # api.joined \/ d.performed # api.performed)
    BY <1>2 DEF CollectWrite
  <2>2. api \in ClusterObjects /\ collect \in Collects
    BY <1>0, <1>2 DEF Inv, Typed
  <2>3. /\ d \in ClusterObjects /\ d.joined = collect.joined /\ d.performed = collect.performed
        /\ d.uid = api.uid /\ d.deleting = api.deleting /\ d.finalizers = api.finalizers
        /\ d.cascade = api.cascade
    BY <2>2 DEF ClusterObjects, Collects
  <2> HIDE DEF d
  <2>4. d.deleting => d.finalizers # {}
    BY <1>2, <2>3 DEF Inv, CopyInv
  <2>5. api' = d /\ fresh' = FALSE
    BY <2>1, <2>3, <2>4, WriteEffect
  <2>6. collect.joined = "true" => collect.performed
    BY <1>0 DEF Inv, PerformedInv
  <2>7. ns = Other => ~collect.performed
    BY <1>0 DEF Inv, ForeignInv
  <2>8. clobbered' \in BOOLEAN /\ (~clobbered' => ~clobbered /\ d.joined = api.joined)
    BY <2>1 DEF Inv, Typed
  <2> QED BY <1>0, <2>1, <2>2, <2>3, <2>5, <2>6, <2>7, <2>8, TouchesInv
<1> QED BY <1>1, <1>2

(* The sync controller adds its finalizer, or takes it off once the objects are gone. *)
LEMMA CascadesInv ==
  ASSUME Inv, Cascade
  PROVE  Inv'
<1>0. UNCHANGED <<cached, ns, nsSeen, uids, clobbered, collect>>
  BY DEF Cascade, status, bounds
<1>1. CASE UNCHANGED <<api, fresh, run>>
  <2>1. objs' = objs \/ objs' \in {"none", "missed"}
    BY DEF Cascade, Emptied
  <2> QED BY <1>0, <1>1, <2>1, RestsInv
<1>2. CASE /\ api # None /\ Cascading \notin api.finalizers /\ UNCHANGED objs
           /\ ~api.deleting
           /\ Write([api EXCEPT !.finalizers = @ \cup {Cascading}]) /\ Outdated
  <2> DEFINE F == api.finalizers \cup {Cascading}
             d == [api EXCEPT !.finalizers = F]
  <2>1. api \in ClusterObjects /\ F \in SUBSET {Own, Cascading} /\ Write(d)
    BY <1>2 DEF Inv, Typed, ClusterObjects
  <2>2. /\ d \in ClusterObjects /\ d.uid = api.uid /\ d.joined = api.joined /\ d.performed = api.performed
        /\ d.deleting = api.deleting /\ d.cascade = api.cascade /\ d.finalizers = F
    BY <2>1, FinalizersEffect
  <2> HIDE DEF d
  <2>3. api' = d /\ fresh' = FALSE
    BY <1>2, <2>1, <2>2, WriteEffect
  <2>4. /\ api.joined = "true" => api.performed
        /\ ns = Other => ~api.performed
        /\ clobbered \in BOOLEAN
    BY <1>2 DEF Inv, PerformedInv, ForeignInv, Typed
  <2> QED BY <1>0, <1>2, <2>1, <2>2, <2>3, <2>4, TouchesInv
<1>3. CASE /\ cached # None /\ cached.deleting /\ CascadeDone(cached)
           /\ objs' = IF Empties(cached) THEN Emptied ELSE objs
           /\ api # None /\ Cascading \in api.finalizers
           /\ Write([api EXCEPT !.finalizers = @ \ {Cascading}]) /\ Outdated
  <2> DEFINE F == api.finalizers \ {Cascading}
             d == [api EXCEPT !.finalizers = F]
  <2>1. api \in ClusterObjects /\ F \in SUBSET {Own, Cascading} /\ Write(d)
    BY <1>3 DEF Inv, Typed, ClusterObjects
  <2>2. /\ d \in ClusterObjects /\ d.uid = api.uid /\ d.joined = api.joined /\ d.performed = api.performed
        /\ d.deleting = api.deleting /\ d.cascade = api.cascade /\ d.finalizers = F
    BY <2>1, FinalizersEffect
  <2> HIDE DEF d
  <2>3. /\ api' \in {None} \cup ClusterObjects /\ fresh' = FALSE
        /\ api' # None => api' = d /\ (d.deleting => d.finalizers # {})
    BY <2>1, <2>2, WriteEffect
  <2>4. /\ run' \in {None} \cup Runs
        /\ run' # None => /\ run # None /\ run'.fresh = FALSE /\ run'.uid = run.uid /\ run'.step = run.step
                          /\ run'.joined = run.joined /\ run'.performed = run.performed
    BY <1>3, OutdatedEffect DEF Inv, Typed
  <2>5. ~clobbered => objs' # "ours"
    <3> SUFFICES ASSUME ~clobbered, objs = "ours"
                 PROVE  Empties(cached)
      BY <1>3 DEF Emptied
    <3>1. /\ cached.uid = api.uid /\ isClusterJoined(cached)
          /\ api.deleting => api.cascade
      BY DEF Inv, StrandInv
    <3>2. api.deleting /\ cached.cascade = api.cascade
      BY <1>3, <3>1 DEF Inv, CopyInv
    <3> QED BY <3>1, <3>2 DEF Empties
  <2>6. Typed' BY <1>0, <1>3, <2>3, <2>4 DEF Inv, Typed, Emptied
  <2>7. PerformedInv' BY <1>0, <1>3, <2>2, <2>3, <2>4 DEF Inv, PerformedInv
  <2>8. CopyInv' BY <1>0, <1>3, <2>2, <2>3 DEF Inv, CopyInv
  <2>9. RunInv' BY <1>0, <1>3, <2>2, <2>3, <2>4 DEF Inv, RunInv
  <2>10. ForeignInv' BY <1>0, <1>3, <2>2, <2>3, <2>4 DEF Inv, ForeignInv
  <2>11. JoinInv' BY <1>0, <1>3, <2>2, <2>3, <2>4 DEF Inv, JoinInv, isClusterJoined
  <2>12. StrandInv' BY <1>0, <1>3, <2>2, <2>3, <2>4, <2>5 DEF Inv, StrandInv, isClusterJoined
  <2>13. AgeInv' /\ SeenInv' BY <1>0, <1>3, <2>2, <2>3, <2>4 DEF Inv, AgeInv, SeenInv
  <2> QED BY <2>6, <2>7, <2>8, <2>9, <2>10, <2>11, <2>12, <2>13 DEF Inv
<1> QED BY <1>1, <1>2, <1>3 DEF Cascade

-----------------------------------------------------------------------------
(* The environment. *)

(* The informer catches up, in a running controller or in one that starts again. *)
LEMMA CatchesUp ==
  ASSUME Inv, Deliver \/ Restart
  PROVE  Inv'
<1>0. /\ UNCHANGED <<api, ns, nsSeen, objs, uids, clobbered>> /\ cached' = api /\ fresh' = TRUE
      /\ run' = None \/ run' = run
      /\ collect' = None \/ collect' = collect
  BY DEF Deliver, Restart, member, status, bounds
<1>1. Typed' BY <1>0 DEF Inv, Typed
<1>2. PerformedInv' BY <1>0 DEF Inv, PerformedInv
<1>3. CopyInv'
  <2>1. api # None => api.uid <= uids
    BY BoundsAssumption DEF Inv, Typed, CopyInv
  <2> QED BY <1>0, <2>1 DEF Inv, CopyInv
<1>4. RunInv' BY <1>0 DEF Inv, RunInv, isClusterJoined
<1>5. ForeignInv' BY <1>0 DEF Inv, ForeignInv
<1>6. JoinInv' BY <1>0 DEF Inv, JoinInv, isClusterJoined
<1>7. StrandInv' BY <1>0 DEF Inv, StrandInv, isClusterJoined
<1>8. AgeInv'
  <2>1. api # None => ns <= api.uid /\ (run # None => run.uid <= api.uid)
    BY Numbers
  <2> QED BY <1>0, <2>1 DEF Inv, AgeInv
<1>9. SeenInv' BY <1>0 DEF Inv, SeenInv
<1> QED BY <1>1, <1>2, <1>3, <1>4, <1>5, <1>6, <1>7, <1>8, <1>9 DEF Inv

(* The name is used again: what is left of former clusters is not this one's. *)
LEMMA RegistersInv ==
  ASSUME Inv, Register
  PROVE  Inv'
<1>0. /\ UNCHANGED <<cached, ns, nsSeen, clobbered, collect>> /\ api = None
      /\ uids' = uids + 1 /\ uids < MaxUids
      /\ objs' = (IF objs \in {"ours", "missed"} THEN "left" ELSE objs) /\ Outdated
  BY DEF Register, status
<1>1. uids \in Nat /\ MaxUids \in Nat /\ uids' \in 1 .. MaxUids
  BY <1>0, BoundsAssumption DEF Inv, Typed
<1>2. /\ api' \in ClusterObjects /\ api' # None /\ fresh' = FALSE /\ api'.uid = uids'
      /\ api'.joined = "none" /\ api'.performed = FALSE /\ api'.deleting = FALSE
  <2>1. PICK kind \in Kinds :
          Write([uid |-> uids', joined |-> "none", performed |-> FALSE, ready |-> "none",
                 deleting |-> FALSE, finalizers |-> {}, cascade |-> kind.cascade,
                 useToken |-> kind.useToken])
    BY DEF Register
  <2> DEFINE d == [uid |-> uids', joined |-> "none", performed |-> FALSE, ready |-> "none",
                   deleting |-> FALSE, finalizers |-> {}, cascade |-> kind.cascade,
                   useToken |-> kind.useToken]
  <2>2. kind.cascade \in BOOLEAN /\ kind.useToken \in BOOLEAN
    BY KindsAssumption
  <2>3. /\ d \in ClusterObjects /\ d.uid = uids' /\ d.joined = "none"
        /\ d.performed = FALSE /\ d.deleting = FALSE
    BY <1>1, <2>2 DEF ClusterObjects, Joined, Ready
  <2>4. Write(d)
    BY <2>1
  <2> HIDE DEF d
  <2> QED BY <2>3, <2>4, WriteEffect, NotNone
<1>3. /\ run' \in {None} \cup Runs
      /\ run' # None => /\ run # None /\ run'.fresh = FALSE /\ run'.uid = run.uid /\ run'.step = run.step
                        /\ run'.joined = run.joined /\ run'.performed = run.performed
  BY <1>0, OutdatedEffect DEF Inv, Typed
<1>4. /\ cached # None => cached.uid \in Nat /\ cached.uid <= uids
      /\ run # None => run.uid \in Nat /\ run.uid <= uids
  BY BoundsAssumption DEF Inv, Typed, CopyInv, RunInv, ClusterObjects, Runs
<1>5. /\ cached # None => cached.uid # api'.uid /\ cached.uid <= uids'
      /\ run # None => run.uid # api'.uid /\ run.uid <= uids'
  BY <1>0, <1>1, <1>2, <1>4
<1>6. Typed'
  <2>1. ns \in Others \cup (0 .. uids') /\ nsSeen \in Others \cup (0 .. uids')
    <3>1. ns \in Others \cup (0 .. uids) /\ nsSeen \in Others \cup (0 .. uids)
      BY DEF Inv, Typed
    <3>2. \A k \in 0 .. uids : k \in 0 .. uids'
      BY <1>0, <1>1
    <3> QED BY <3>1, <3>2
  <2>2. uids' \in 0 .. MaxUids
    BY <1>1
  <2> QED BY <1>0, <1>2, <1>3, <2>1, <2>2 DEF Inv, Typed
<1>7. PerformedInv' BY <1>0, <1>2, <1>3 DEF Inv, PerformedInv
<1>8. CopyInv' BY <1>0, <1>2, <1>5 DEF CopyInv
<1>9. RunInv' BY <1>0, <1>2, <1>3, <1>5 DEF Inv, RunInv
<1>10. ForeignInv' BY <1>0, <1>2, <1>3 DEF Inv, ForeignInv
<1>11. JoinInv' BY <1>0, <1>2, <1>3 DEF Inv, JoinInv, isClusterJoined
<1>12. StrandInv'
  <2>1. objs' # "ours"
    BY <1>0
  <2> QED BY <1>0, <1>2, <1>5, <2>1 DEF Inv, StrandInv
<1>13. AgeInv' BY <1>0, <1>3 DEF Inv, AgeInv
<1>14. SeenInv'
  <2>1. api'.uid # nsSeen
    BY <1>0, <1>1, <1>2, Numbers
  <2> QED BY <1>0, <1>3, <2>1 DEF Inv, SeenInv
<1> QED BY <1>6, <1>7, <1>8, <1>9, <1>10, <1>11, <1>12, <1>13, <1>14 DEF Inv

(* A user deletes the cluster, which goes at once only if it has no finalizer. *)
LEMMA DeletesInv ==
  ASSUME Inv, Delete
  PROVE  Inv'
<1>0. /\ UNCHANGED <<cached, ns, nsSeen, uids, clobbered, collect>> /\ api \in ClusterObjects /\ ~api.deleting
      /\ objs' = (IF objs = "ours" /\ ~api.cascade THEN "left" ELSE objs) /\ Outdated
      /\ Write([api EXCEPT !.deleting = TRUE])
  BY DEF Delete, status, Inv, Typed
<1> DEFINE d == [api EXCEPT !.deleting = TRUE]
<1>1. /\ d \in ClusterObjects /\ d.deleting /\ d.joined = api.joined /\ d.performed = api.performed
      /\ d.uid = api.uid /\ d.finalizers = api.finalizers /\ d.cascade = api.cascade
  BY <1>0, DeletingEffect
<1>2. Write(d)
  BY <1>0
<1> HIDE DEF d
<1>3. /\ api' \in {None} \cup ClusterObjects /\ fresh' = FALSE
      /\ api' # None => api' = d /\ d.finalizers # {}
      /\ api' = None => api.finalizers = {}
      /\ api # None
  BY <1>0, <1>1, <1>2, WriteEffect, NotNone
<1>4. /\ run' \in {None} \cup Runs
      /\ run' # None => /\ run # None /\ run'.fresh = FALSE /\ run'.uid = run.uid /\ run'.step = run.step
                        /\ run'.joined = run.joined /\ run'.performed = run.performed
  BY <1>0, OutdatedEffect DEF Inv, Typed
<1>5. Typed' BY <1>0, <1>3, <1>4 DEF Inv, Typed
<1>6. PerformedInv' BY <1>0, <1>1, <1>3, <1>4 DEF Inv, PerformedInv
<1>7. CopyInv' BY <1>0, <1>1, <1>3 DEF Inv, CopyInv
<1>8. RunInv' BY <1>0, <1>1, <1>3, <1>4 DEF Inv, RunInv
<1>9. ForeignInv' BY <1>0, <1>1, <1>3, <1>4 DEF Inv, ForeignInv
<1>10. JoinInv' BY <1>0, <1>1, <1>3, <1>4 DEF Inv, JoinInv, isClusterJoined
<1>11. StrandInv' BY <1>0, <1>1, <1>3, <1>4 DEF Inv, StrandInv, isClusterJoined
<1>12. AgeInv' /\ SeenInv' BY <1>0, <1>1, <1>3, <1>4 DEF Inv, AgeInv, SeenInv
<1> QED BY <1>5, <1>6, <1>7, <1>8, <1>9, <1>10, <1>11, <1>12 DEF Inv

(* The sync controller puts an object into the member cluster. *)
LEMMA SyncsObject ==
  ASSUME Inv, SyncObject
  PROVE  Inv'
<1>0. /\ UNCHANGED <<api, cached, fresh, ns, nsSeen, uids, clobbered, collect, run>>
      /\ cached # None /\ Syncs(cached)
      /\ objs' = IF api # None /\ ~api.deleting THEN "ours" ELSE "left"
  BY DEF SyncObject, status, ctl, bounds
<1>1. CASE objs' = "left"
  BY <1>0, <1>1, RestsInv
<1>2. CASE objs' = "ours"
  <2>1. api # None /\ ~api.deleting
    BY <1>0, <1>2
  <2>2. Typed' BY <1>0, <1>2 DEF Inv, Typed
  <2>3. PerformedInv' BY <1>0 DEF Inv, PerformedInv
  <2>4. CopyInv' BY <1>0 DEF Inv, CopyInv
  <2>5. RunInv' BY <1>0 DEF Inv, RunInv, isClusterJoined
  <2>6. ForeignInv' BY <1>0 DEF Inv, ForeignInv
  <2>7. JoinInv' BY <1>0 DEF Inv, JoinInv, isClusterJoined
  <2>8. StrandInv'
    <3>1. ~clobbered => api.uid = cached.uid /\ Cascading \in api.finalizers /\ isClusterJoined(api)
      BY <1>0, <2>1 DEF Inv, StrandInv, Syncs
    <3>2. ~clobbered => ns = api.uid /\ (run = None \/ run.step \notin Leaving)
      BY <2>1, <3>1 DEF Inv, JoinInv
    <3> QED BY <1>0, <2>1, <3>1, <3>2 DEF Inv, StrandInv, Syncs, isClusterJoined
  <2>9. AgeInv' /\ SeenInv' BY <1>0 DEF Inv, AgeInv, SeenInv
  <2> QED BY <2>2, <2>3, <2>4, <2>5, <2>6, <2>7, <2>8, <2>9 DEF Inv
<1> QED BY <1>0, <1>1, <1>2

(* Another control plane takes the member cluster, or leaves it. *)
LEMMA MembersChange ==
  ASSUME Inv, ChangeMember
  PROVE  Inv'
<1>0. UNCHANGED <<api, cached, fresh, nsSeen, objs, uids, clobbered, collect, run>>
  BY DEF ChangeMember, status, ctl
<1>1. CASE UNCHANGED ns
  BY <1>0, <1>1, RestsInv
<1>2. CASE (ns = Nobody /\ ns' = Newcomer) \/ (ns \in Others /\ ns' = Nobody)
  <2>1. /\ ns \in Int /\ ns <= 0 /\ ns' \in Int /\ ns' <= 0 /\ ns' # Other
        /\ ns' \in Others \cup {0}
    BY <1>2, Owners
  <2>2. /\ api # None => api.uid > 0 /\ ns # api.uid
        /\ cached # None => cached.uid \in Nat \ {0}
        /\ run # None => run.uid \in Nat \ {0} /\ ns # run.uid
    BY <2>1, Numbers
  <2>3. Typed'
    <3>1. ns' \in Others \cup (0 .. uids)
      BY <2>1, Numbers
    <3> QED BY <1>0, <3>1 DEF Inv, Typed
  <2>4. PerformedInv' BY <1>0 DEF Inv, PerformedInv
  <2>5. CopyInv' BY <1>0 DEF Inv, CopyInv
  <2>6. RunInv' BY <1>0 DEF Inv, RunInv, isClusterJoined
  <2>7. ForeignInv' BY <2>1 DEF ForeignInv
  <2>8. AgeInv'
    <3>1. /\ cached # None => ns' <= cached.uid
          /\ run # None => ns' <= run.uid
      BY <2>1, <2>2
    <3> QED BY <1>0, <3>1 DEF Inv, AgeInv
  <2>9. SeenInv'
    <3> SUFFICES ASSUME nsSeen > 0 PROVE SeenInv'
      BY <1>0 DEF SeenInv
    <3>1. nsSeen # ns
      BY <2>1, Numbers
    <3> QED BY <1>0, <3>1 DEF Inv, SeenInv
  <2>10. JoinInv' BY <1>0, <2>2 DEF Inv, JoinInv, isClusterJoined
  <2>11. StrandInv' BY <1>0, <2>2 DEF Inv, StrandInv, isClusterJoined
  <2> QED BY <2>3, <2>4, <2>5, <2>6, <2>7, <2>8, <2>9, <2>10, <2>11 DEF Inv
<1> QED BY <1>1, <1>2 DEF ChangeMember

(* The watch cache follows. *)
LEMMA WatchesInv ==
  ASSUME Inv, Watch
  PROVE  Inv'
<1>0. UNCHANGED <<api, cached, fresh, ns, objs, uids, clobbered, collect, run>> /\ nsSeen' = ns
  BY DEF Watch, status, ctl, bounds
<1>1. Typed' BY <1>0 DEF Inv, Typed
<1>2. PerformedInv' BY <1>0 DEF Inv, PerformedInv
<1>3. CopyInv' BY <1>0 DEF Inv, CopyInv
<1>4. RunInv' BY <1>0 DEF Inv, RunInv, isClusterJoined
<1>5. ForeignInv' BY <1>0 DEF Inv, ForeignInv
<1>6. JoinInv' BY <1>0 DEF Inv, JoinInv, isClusterJoined
<1>7. StrandInv' BY <1>0 DEF Inv, StrandInv, isClusterJoined
<1>8. AgeInv' /\ SeenInv' BY <1>0 DEF Inv, AgeInv, SeenInv
<1> QED BY <1>1, <1>2, <1>3, <1>4, <1>5, <1>6, <1>7, <1>8 DEF Inv

-----------------------------------------------------------------------------
LEMMA InitInv == Init => Inv
<1> SUFFICES ASSUME Init PROVE Inv
  OBVIOUS
<1>1. Typed
  <2>1. uids \in 0 .. MaxUids
    BY BoundsAssumption DEF Init
  <2>2. Nobody \in Others \cup (0 .. 0) /\ Other \in Others
    BY Owners
  <2> QED BY <2>1, <2>2 DEF Init, Typed
<1>2. PerformedInv /\ CopyInv /\ RunInv BY DEF Init, PerformedInv, CopyInv, RunInv
<1>3. ForeignInv /\ JoinInv BY DEF Init, ForeignInv, JoinInv
<1>4. StrandInv /\ AgeInv /\ SeenInv BY DEF Init, StrandInv, AgeInv, SeenInv
<1> QED BY <1>1, <1>2, <1>3, <1>4 DEF Inv

LEMMA NextInv == Inv /\ [Next]_vars => Inv'
<1> SUFFICES ASSUME Inv, [Next]_vars PROVE Inv'
  OBVIOUS
<1>1. CASE Work
  BY <1>1, ReconcilesInv, JoinsInv, JoinUpdatesInv, CleansUp, FinalizesInv DEF Work
<1>2. CASE Collect
  BY <1>2, CollectsInv, CollectWritesInv DEF Collect
<1>3. CASE WriteFails
  <2>1. UNCHANGED <<api, cached, fresh, ns, nsSeen, objs, uids, clobbered, collect>> /\ run' = None
    BY <1>3 DEF WriteFails, Retry, member, status
  <2> QED BY <2>1, RestsInv
<1>4. CASE Ripen \/ TimeOut \/ processCluster \/ Show \/ CascadeFails \/ UNCHANGED vars
  <2>1. /\ UNCHANGED <<api, cached, fresh, ns, nsSeen, uids, clobbered, collect, run>>
        /\ objs' = objs \/ objs' = "none"
    BY <1>4 DEF Ripen, TimeOut, processCluster, Show, CascadeFails, vars, member, ctl, status, bounds
  <2> QED BY <2>1, RestsInv
<1>5. CASE SyncObject \/ Cascade \/ Deliver \/ Watch \/ Register \/ Delete \/ ChangeMember \/ Restart
  BY <1>5, SyncsObject, CascadesInv, CatchesUp, WatchesInv, RegistersInv, DeletesInv, MembersChange
<1> QED BY <1>1, <1>2, <1>3, <1>4, <1>5 DEF Next

LEMMA Invariance == Spec => []Inv
  BY InitInv, NextInv, PTL DEF Spec

(* Copies are older versions of the same FederatedCluster or of a former one, a deleted one is  *)
(* held by a finalizer, and what is joined was joined by this controller (ensureFinalizer,      *)
(* handleNotJoinedCluster, handleTerminatingCluster and collectIndividualClusterStatus).        *)
THEOREM TypeCorrect == Spec => []TypeOK
<1>1. Inv => TypeOK
  <2> SUFFICES ASSUME Inv PROVE TypeOK
    OBVIOUS
  <2>1. \A c \in ClusterObjects : (c.joined = "true" => c.performed) => IsCluster(c)
    BY DEF ClusterObjects, IsCluster, Joined, Ready, isClusterJoined
  <2>2. api = None \/ (IsCluster(api) /\ (api.deleting => api.finalizers # {}))
    BY <2>1 DEF Inv, Typed, PerformedInv, CopyInv
  <2>3. cached = None \/ (IsCluster(cached) /\ cached.uid <= uids)
    BY <2>1 DEF Inv, Typed, PerformedInv, CopyInv
  <2>4. run = None \/ (run.fresh => run.uid = api.uid)
    BY DEF Inv, RunInv
  <2>5. {ns, nsSeen} \subseteq Others \cup (0 .. uids)
    BY DEF Inv, Typed
  <2> QED BY <2>2, <2>3, <2>4, <2>5 DEF TypeOK, Inv, CopyInv, Typed
<1> QED BY <1>1, Invariance, PTL

(* A joined cluster is one whose system namespace carries its uid, although another control     *)
(* plane may take the member cluster between the look and the creation and the look may be at   *)
(* an old version; and no step of the controller (handleNotJoinedCluster,                       *)
(* handleTerminatingCluster) takes the namespace away from a control plane that was there       *)
(* before, through any number of joins, deletions, re-creations and restarts.                   *)
THEOREM NamespaceIsOwned == Spec => NamespaceOwned
<1>1. Inv => (~clobbered /\ api # None /\ isClusterJoined(api) /\ ~api.deleting => ns = api.uid)
  BY DEF Inv, JoinInv
<1>2. Inv /\ [Next]_vars => [Work /\ ns = Other => ns' = Other]_vars
  <2> SUFFICES ASSUME Inv, Work, ns = Other PROVE ns' = Other
    OBVIOUS
  <2>1. run = None \/ run.step \notin {"create", "cleanup"}
    BY DEF Inv, ForeignInv
  <2> QED BY <2>1 DEF Work, Reconcile, JoinTimeout, JoinLook, JoinCreate, JoinGrant, JoinUpdate,
                      Cleanup, Finalize, member
<1>3. Spec => [](~clobbered /\ api # None /\ isClusterJoined(api) /\ ~api.deleting => ns = api.uid)
  BY <1>1, Invariance, PTL
<1>4. Spec => [][Work /\ ns = Other => ns' = Other]_vars
  BY <1>2, Invariance, PTL DEF Spec
<1> QED BY <1>3, <1>4 DEF NamespaceOwned

(* With cascading deletion no object of the federation outlives its cluster, unless the list of *)
(* the cascading deletion missed it: the sync controller's finalizer is on the cluster before   *)
(* an object is put there and comes off after those listed are gone, and the clean-up waits for *)
(* it.                                                                                          *)
THEOREM NoneIsStranded == Spec => []NoneStranded
<1>1. Inv => NoneStranded
  BY DEF Inv, StrandInv, NoneStranded
<1> QED BY <1>1, Invariance, PTL
=============================================================================
