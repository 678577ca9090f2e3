--------------------------- MODULE SchedulerProofs ---------------------------
(***************************************************************************)
(* The scheduler controller, for every set of clusters, of policies and of *)
(* their specifications.                                                   *)
(***************************************************************************)
EXTENDS Scheduler, FiniteSetTheorems, TLAPS

(* A cluster as the store has it. *)
ClusterObjects == [joined : BOOLEAN, label : {"a", "b"}, taints : SUBSET Effects,
                   api : {"unknown", "served", "missing"}, ready : BOOLEAN, deleting : BOOLEAN]

PolicyNames == {policyName[p] : p \in Policy} \cup {""}

Maps(V) == UNION {[S -> V] : S \in SUBSET Cluster}

(* The triggers that were recorded: one entry per cluster that was joined. *)
TriggerSet ==
    {t \in [input : {0, 1}, policy : PolicyNames, content : Contents \cup {None},
            clusters : Seq(Cluster), labels : Maps({"a", "b"}), taints : Maps(SUBSET Effects),
            apis : Maps({"unknown", "served", "missing"})] :
        /\ IsInjective(t.clusters)
        /\ Range(t.clusters) = DOMAIN t.taints
        /\ DOMAIN t.labels = DOMAIN t.taints /\ DOMAIN t.apis = DOMAIN t.taints}

Deferrals == (SUBSET Reasons) \cup {{"sticky"}, {"never"}}

Objects ==
    {obj \in [input : {0, 1}, noSched : BOOLEAN, policy : Policy \cup {""},
              turn : {"before", "mine", "after", "done"}, placement : SUBSET Cluster, follow : BOOLEAN,
              seen : {None} \cup TriggerSet, deferred : Deferrals] :
        obj.deferred # {} => obj.seen # None}

Runs == [obj : Objects, skip : BOOLEAN, fresh : BOOLEAN]

Typed ==
    /\ fed \in Objects /\ cached \in Objects /\ run \in {None} \cup Runs
    /\ fresh \in BOOLEAN /\ skipped \in BOOLEAN /\ queued \in BOOLEAN
    /\ fresh => cached = fed
    /\ run # None => (run.fresh => fresh)
    /\ DOMAIN clusters \subseteq Cluster /\ clusters \in [DOMAIN clusters -> ClusterObjects]
    /\ DOMAIN policies \subseteq Policy /\ policies \in [DOMAIN policies -> Contents]
    /\ edits \in 0 .. MaxEdits /\ faults \in 0 .. MaxFaults

(* A cluster is taken into account once its status was collected, and it is fit then unless it
   is known to have been unfit. *)
FitInv ==
    \A c \in DOMAIN clusters :
        /\ ~clusters[c].joined => clusters[c].api = "unknown"
        /\ c \notin unfit => ~clusters[c].deleting /\ (clusters[c].api # "unknown" => clusters[c].ready)

(* What the scheduler leaves alone was considered against the policy and the clusters. *)
RestInv ==
    ~queued /\ run = None /\ fresh /\ Works(fed) =>
        /\ HasPolicy(fed) /\ (\A c \in Joined : clusters[c].api # "unknown") => UpToDate(fed)
        /\ fed.policy = "" => fed.seen # None /\ fed.seen.content = None

(* The clusters that the recorded triggers say the object may stay in, and must be in. *)
Accepts(seen, c) ==
    /\ c \in DOMAIN seen.taints /\ seen.apis[c] = "served"
    /\ seen.labels[c] \in seen.content.labels /\ "NoExecute" \notin seen.taints[c]

(* The placement is one that the recorded triggers lead to. *)
LeadsTo(seen, placement) ==
    /\ seen.content # None /\ ~seen.content.sticky =>
          /\ \A c \in placement : Accepts(seen, c)
          /\ Cardinality(placement) <= seen.content.max
          /\ Cardinality(placement) < seen.content.max =>
                \A c \in (DOMAIN seen.taints) \ unfit :
                    Accepts(seen, c) /\ seen.taints[c] = {} => c \in placement
    /\ seen.content = None => placement = {}

Right(obj) == obj.seen # None => LeadsTo(obj.seen, obj.placement)

RecordInv ==
    /\ ~skipped => Right(fed)
    /\ run # None /\ run.fresh /\ ~run.skip /\ ~(skipped /\ run.obj.seen = fed.seen) => Right(run.obj)

Inv == Typed /\ FitInv /\ RestInv /\ RecordInv

-----------------------------------------------------------------------------
(* Operators. *)

LEMMA NotNone ==
  /\ \A t \in TriggerSet : t # None
  /\ \A r \in Runs : r # None
  /\ \A s \in Contents : s # None
  /\ \A c \in ClusterObjects : c # None
<1>1. DOMAIN None = {"none"}
  BY DEF None
<1>2. ASSUME NEW t \in TriggerSet PROVE t # None
  <2>1. "input" \in DOMAIN t
    BY DEF TriggerSet
  <2> QED BY <1>1, <2>1
<1>3. ASSUME NEW r \in Runs PROVE r # None
  <2>1. "obj" \in DOMAIN r
    BY DEF Runs
  <2> QED BY <1>1, <2>1
<1>4. ASSUME NEW s \in Contents PROVE s # None
  <2>1. "max" \in DOMAIN s
    BY ContentsAssumption
  <2> QED BY <1>1, <2>1
<1>5. ASSUME NEW c \in ClusterObjects PROVE c # None
  <2>1. "joined" \in DOMAIN c
    BY DEF ClusterObjects
  <2> QED BY <1>1, <2>1
<1> QED BY <1>2, <1>3, <1>4, <1>5

(* The lister's orders are sequences that have every joined cluster once. *)
LEMMA OrdersOf ==
  ASSUME NEW S, S \subseteq Cluster, NEW order \in SetToSeqs(S)
  PROVE  order \in Seq(Cluster) /\ IsInjective(order) /\ Range(order) = S
<1>1. IsFiniteSet(S) /\ Cardinality(S) \in Nat
  BY ClusterAssumption, FS_Subset, FS_CardinalityType
<1>2. order \in [1 .. Cardinality(S) -> S] /\ IsInjective(order)
  BY DEF SetToSeqs, IsInjective
<1>3. order \in Seq(Cluster)
  BY <1>1, <1>2
<1>4. order \in Injection(1 .. Cardinality(S), S)
  BY <1>2 DEF Injection
<1>5. Cardinality(1 .. Cardinality(S)) = Cardinality(S)
  BY <1>1, FS_Interval
<1>6. order \in Surjection(1 .. Cardinality(S), S)
  BY <1>1, <1>4, <1>5, FS_Injection
<1>7. Range(order) = S
  BY <1>2, <1>6 DEF Surjection, Range
<1> QED BY <1>2, <1>3, <1>7

LEMMA AnOrder ==
  ASSUME NEW S, S \subseteq Cluster
  PROVE  SetToSeqs(S) # {}
<1>1. IsFiniteSet(S)
  BY ClusterAssumption, FS_Subset
<1>2. PICK f : f \in Bijection(1 .. Cardinality(S), S)
  BY <1>1, FS_CardinalityType DEF ExistsBijection
<1>3. f \in SetToSeqs(S)
  BY <1>2 DEF Bijection, Injection, IsInjective, SetToSeqs
<1> QED BY <1>3

LEMMA TriggersTyped ==
  ASSUME Typed, NEW obj \in Objects, NEW order \in SetToSeqs(Joined)
  PROVE  /\ computeSchedulingTriggers(obj, order) \in TriggerSet
         /\ computeSchedulingTriggers(obj, order) # None
<1> DEFINE t == computeSchedulingTriggers(obj, order)
<1>1. Joined \subseteq Cluster
  BY DEF Typed, Joined
<1>2. order \in Seq(Cluster) /\ IsInjective(order) /\ Range(order) = Joined
  BY <1>1, OrdersOf
<1>3. \A c \in Joined : clusters[c] \in ClusterObjects
  BY DEF Typed, Joined
<1>4. t.labels \in Maps({"a", "b"}) /\ DOMAIN t.labels = Joined
  <2>1. [c \in Joined |-> clusters[c].label] \in [Joined -> {"a", "b"}]
    BY <1>3 DEF ClusterObjects
  <2> QED BY <1>1, <2>1 DEF Maps, computeSchedulingTriggers
<1>5. t.taints \in Maps(SUBSET Effects) /\ DOMAIN t.taints = Joined
  <2>1. [c \in Joined |-> clusters[c].taints] \in [Joined -> SUBSET Effects]
    BY <1>3 DEF ClusterObjects
  <2> QED BY <1>1, <2>1 DEF Maps, computeSchedulingTriggers
<1>6. t.apis \in Maps({"unknown", "served", "missing"}) /\ DOMAIN t.apis = Joined
  <2>1. [c \in Joined |-> clusters[c].api] \in [Joined -> {"unknown", "served", "missing"}]
    BY <1>3 DEF ClusterObjects
  <2> QED BY <1>1, <2>1 DEF Maps, computeSchedulingTriggers
<1>7. /\ t.content \in Contents \cup {None} /\ t.policy \in PolicyNames /\ t.input \in {0, 1}
      /\ t.clusters = order
  <2>1. HasPolicy(obj) => policies[obj.policy] \in Contents /\ obj.policy \in Policy
    BY DEF HasPolicy, Typed
  <2>2. obj.input \in {0, 1}
    BY DEF Objects
  <2> QED BY <2>1, <2>2 DEF computeSchedulingTriggers, PolicyNames
<1>8. t \in TriggerSet
  <2>1. t = [input |-> t.input, policy |-> t.policy, content |-> t.content, clusters |-> t.clusters,
             labels |-> t.labels, taints |-> t.taints, apis |-> t.apis]
    BY DEF computeSchedulingTriggers
  <2> HIDE DEF t
  <2> QED BY <1>2, <1>4, <1>5, <1>6, <1>7, <2>1 DEF TriggerSet
<1> QED BY <1>8, NotNone

(* Either the triggers are recorded anew, and the object is scheduled, or they stay as they are. *)
LEMMA DecisionEffect ==
  ASSUME Typed, NEW obj \in Objects, NEW order \in SetToSeqs(Joined)
  PROVE  \/ /\ computeSchedulingAnnotations(obj, order)
                 = [triggers |-> computeSchedulingTriggers(obj, order), deferred |-> {}, changed |-> TRUE]
            /\ computeSchedulingTriggers(obj, order) # obj.seen
         \/ /\ obj.seen # None
            /\ \E r \in Deferrals : computeSchedulingAnnotations(obj, order)
                                      = [triggers |-> obj.seen, deferred |-> r, changed |-> FALSE]
<1> DEFINE new == computeSchedulingTriggers(obj, order)
           old == obj.seen
           reasons == OptionalReasons(new, old)
           policy == policies[obj.policy]
           go == [triggers |-> new, deferred |-> {}, changed |-> new # old]
           stay(r) == [triggers |-> old, deferred |-> r, changed |-> FALSE]
           d == computeSchedulingAnnotations(obj, order)
           straight == old \in {None, new} \/ ~HasPolicy(obj) \/ compareStableTriggers(new, old)
<1>1. d = IF straight THEN go
          ELSE IF policy.sticky THEN stay({"sticky"})
          ELSE IF policy.trigger = None THEN stay({"never"})
          ELSE IF \/ isClusterTriggerChanged(new.taints, old.taints)
                  \/ \E r \in reasons : policy.trigger[r]
               THEN go
          ELSE stay(reasons)
  BY DEF computeSchedulingAnnotations
<1>2. new # None
  BY TriggersTyped
<1>3. {} \in Deferrals /\ {"sticky"} \in Deferrals /\ {"never"} \in Deferrals /\ reasons \in Deferrals
  <2>1. reasons \subseteq Reasons
    BY DEF OptionalReasons
  <2>2. \A r \in SUBSET Reasons : r \in Deferrals
    BY DEF Deferrals
  <2>3. {"sticky"} \in Deferrals
    <3>1. {"sticky"} \in {{"sticky"}, {"never"}}
      OBVIOUS
    <3> QED BY <3>1 DEF Deferrals
  <2>4. {"never"} \in Deferrals
    <3>1. {"never"} \in {{"sticky"}, {"never"}}
      OBVIOUS
    <3> QED BY <3>1 DEF Deferrals
  <2> HIDE DEF reasons
  <2> QED BY <2>1, <2>2, <2>3, <2>4
<1>4. ~straight => old # None
  OBVIOUS
<1>5. d = go \/ (old # None /\ \E r \in Deferrals : d = stay(r))
  <2> HIDE DEF d, new, reasons, policy, straight, go, stay
  <2> QED BY <1>1, <1>3, <1>4
<1>6. CASE d = go
  <2>1. CASE new = old
    <3>1. go = [triggers |-> old, deferred |-> {}, changed |-> FALSE]
      BY <2>1
    <3>2. d = [triggers |-> old, deferred |-> {}, changed |-> FALSE]
      BY <1>6, <3>1
    <3>3. old # None
      BY <1>2, <2>1
    <3> QED BY <1>3, <3>2, <3>3
  <2>2. CASE new # old
    <3>1. go = [triggers |-> new, deferred |-> {}, changed |-> TRUE]
      BY <2>2
    <3> HIDE DEF d, go, new
    <3> QED BY <1>6, <2>2, <3>1 DEF new, d
  <2> QED BY <2>1, <2>2
<1>7. CASE old # None /\ \E r \in Deferrals : d = stay(r)
  BY <1>7
<1> QED BY <1>5, <1>6, <1>7

(* With a policy that enables every trigger, nothing but the order of the clusters may differ
   from what was recorded. *)
LEMMA UnchangedIsCurrent ==
  ASSUME Typed, NEW obj \in Objects, HasPolicy(obj), Responsive(policies[obj.policy]), UpToDate(obj)
  PROVE  /\ obj.seen # None /\ obj.seen.content = policies[obj.policy]
         /\ DOMAIN obj.seen.taints = Joined
         /\ \A c \in Joined : /\ obj.seen.labels[c] = clusters[c].label
                              /\ obj.seen.taints[c] = clusters[c].taints
                              /\ obj.seen.apis[c] = clusters[c].api
<1>1. PICK order \in SetToSeqs(Joined) : ~computeSchedulingAnnotations(obj, order).changed
  BY DEF UpToDate, Decisions
<1> DEFINE new == computeSchedulingTriggers(obj, order)
           old == obj.seen
           reasons == OptionalReasons(new, old)
           policy == policies[obj.policy]
           go == [triggers |-> new, deferred |-> {}, changed |-> new # old]
           d == computeSchedulingAnnotations(obj, order)
           straight == old \in {None, new} \/ ~HasPolicy(obj) \/ compareStableTriggers(new, old)
<1>2. /\ new.content = policy /\ Range(new.clusters) = Joined
      /\ new.labels = [c \in Joined |-> clusters[c].label]
      /\ new.taints = [c \in Joined |-> clusters[c].taints]
      /\ new.apis = [c \in Joined |-> clusters[c].api]
      /\ new # None
  <2>1. Joined \subseteq Cluster
    BY DEF Typed, Joined
  <2>2. Range(order) = Joined
    BY <2>1, OrdersOf
  <2> QED BY <2>2, TriggersTyped DEF computeSchedulingTriggers
<1>3. CASE old = new
  BY <1>2, <1>3
<1>4. CASE old # new
  <2>1. ~straight /\ ~isClusterTriggerChanged(new.taints, old.taints) /\ reasons = {}
    <3>1. d = IF straight THEN go
              ELSE IF policy.sticky THEN [triggers |-> old, deferred |-> {"sticky"}, changed |-> FALSE]
              ELSE IF policy.trigger = None
                   THEN [triggers |-> old, deferred |-> {"never"}, changed |-> FALSE]
              ELSE IF \/ isClusterTriggerChanged(new.taints, old.taints)
                      \/ \E r \in reasons : policy.trigger[r]
                   THEN go
              ELSE [triggers |-> old, deferred |-> reasons, changed |-> FALSE]
      BY DEF computeSchedulingAnnotations
    <3>2. go.changed
      BY <1>4
    <3>3. ~policy.sticky /\ policy.trigger # None /\ \A r \in Reasons : policy.trigger[r]
      <4>1. policy \in Contents
        BY DEF Typed, HasPolicy
      <4>2. policy.trigger \in {None} \cup [Reasons -> BOOLEAN]
        BY <4>1, ContentsAssumption
      <4> QED BY <4>2 DEF Responsive
    <3>4. reasons \subseteq Reasons
      BY DEF OptionalReasons
    <3>5. d # go
      BY <1>1, <3>2
    <3> HIDE DEF d, go, new, old, reasons, policy, straight
    <3> QED BY <3>1, <3>3, <3>4, <3>5
  <2>2. old \in TriggerSet
    BY <2>1 DEF Objects
  <2>3. /\ new.content = old.content
        /\ ~isClusterTriggerChanged(new.labels, old.labels)
        /\ ~isClusterTriggerChanged(new.apis, old.apis)
        /\ ~(Range(old.clusters) \subseteq Range(new.clusters) /\ Range(old.clusters) # Range(new.clusters))
    <3>1. "content" \notin reasons /\ "labels" \notin reasons /\ "apis" \notin reasons /\ "joined" \notin reasons
      BY <2>1
    <3> HIDE DEF new, old
    <3> QED BY <3>1 DEF OptionalReasons, Reasons
  <2>4. /\ Range(old.clusters) = DOMAIN old.taints
        /\ DOMAIN old.labels = DOMAIN old.taints /\ DOMAIN old.apis = DOMAIN old.taints
    BY <2>2 DEF TriggerSet
  <2>5. DOMAIN old.taints = Joined
    <3>1. DOMAIN old.taints \subseteq Joined
      BY <1>2, <2>1 DEF isClusterTriggerChanged
    <3> QED BY <1>2, <2>3, <2>4, <3>1
  <2>6. \A c \in Joined : /\ new.labels[c] = old.labels[c] /\ new.taints[c] = old.taints[c]
                          /\ new.apis[c] = old.apis[c]
    <3> HIDE DEF new, old
    <3> QED BY <2>1, <2>3, <2>4, <2>5 DEF isClusterTriggerChanged
  <2>7. old # None
    BY <2>1
  <2> HIDE DEF new
  <2> QED BY <1>2, <2>3, <2>5, <2>6, <2>7
<1> QED BY <1>3, <1>4

(* Without a policy there is nothing to defer. *)
LEMMA UnchangedIsEmpty ==
  ASSUME Typed, NEW obj \in Objects, obj.policy = "", UpToDate(obj)
  PROVE  obj.seen # None /\ obj.seen.content = None
<1>1. PICK order \in SetToSeqs(Joined) : ~computeSchedulingAnnotations(obj, order).changed
  BY DEF UpToDate, Decisions
<1>2. ~HasPolicy(obj)
  BY PolicyAssumption DEF HasPolicy, Typed
<1>3. computeSchedulingTriggers(obj, order) = obj.seen
  BY <1>1, <1>2 DEF computeSchedulingAnnotations
<1>4. computeSchedulingTriggers(obj, order).content = None
  BY <1>2 DEF computeSchedulingTriggers
<1> QED BY <1>3, <1>4, TriggersTyped

(* The scheduling algorithm does what the triggers it works with ask for. *)
LEMMA ScheduledRight ==
  ASSUME Typed, FitInv, NEW obj \in Objects, Works(obj), NEW S \in schedule(obj),
         NEW order \in SetToSeqs(Joined)
  PROVE  S \subseteq Cluster /\ LeadsTo(computeSchedulingTriggers(obj, order), S)
<1> DEFINE t == computeSchedulingTriggers(obj, order)
           unit == schedulingUnit(obj)
           joined == [c \in Joined |-> clusters[c]]
           feasible == findClustersThatFitWorkload(unit, joined)
           policy == policies[obj.policy]
<1>1. CASE obj.policy = ""
  <2>1. ~HasPolicy(obj) /\ S = {}
    BY <1>1, PolicyAssumption DEF HasPolicy, Typed, schedule
  <2>2. t.content = None
    BY <2>1 DEF computeSchedulingTriggers
  <2> HIDE DEF t
  <2>3. LeadsTo(t, S)
    BY <2>1, <2>2 DEF LeadsTo
  <2> QED BY <2>1, <2>3 DEF t
<1>2. CASE obj.policy # ""
  <2>1. HasPolicy(obj) /\ policy \in Contents /\ policy # None
    BY <1>2, NotNone DEF Works, HasPolicy, Typed
  <2>2. /\ t.content = policy /\ DOMAIN t.taints = Joined
        /\ \A c \in Joined : /\ t.labels[c] = clusters[c].label /\ t.taints[c] = clusters[c].taints
                             /\ t.apis[c] = clusters[c].api
    BY <2>1 DEF computeSchedulingTriggers
  <2>3. /\ unit.current = obj.placement /\ unit.labels = policy.labels /\ unit.max = policy.max
        /\ unit.sticky = policy.sticky
    BY DEF schedulingUnit
  <2>4. S \in ScheduleResults(unit, joined)
    BY <1>2 DEF schedule
  <2>5. policy.max \in Nat
    BY <2>1, ContentsAssumption
  <2>6. obj.placement \subseteq Cluster /\ Joined \subseteq Cluster
    BY DEF Objects, Typed, Joined
  <2>7. feasible = {c \in Joined : RunFilterPlugins(unit, c, clusters[c])}
    BY DEF findClustersThatFitWorkload
  <2> HIDE DEF t, unit, feasible, policy
  <2>8. CASE unit.sticky /\ unit.current # {}
    <3>1. S = obj.placement
      BY <2>3, <2>4, <2>8 DEF ScheduleResults
    <3>2. LeadsTo(t, S)
      BY <2>1, <2>2, <2>3, <2>8 DEF LeadsTo
    <3> QED BY <2>6, <3>1, <3>2 DEF t
  <2>9. CASE ~(unit.sticky /\ unit.current # {})
    <3>1. S \in SelectClusters(unit, feasible)
      BY <2>4, <2>9 DEF ScheduleResults, feasible
    <3>2. /\ S \subseteq feasible
          /\ Cardinality(S) = IF policy.max < Cardinality(feasible) THEN policy.max ELSE Cardinality(feasible)
      BY <2>3, <3>1 DEF SelectClusters
    <3>3. feasible \subseteq Joined
      BY <2>7
    <3>4. IsFiniteSet(feasible) /\ Cardinality(feasible) \in Nat
      BY <2>6, <3>3, ClusterAssumption, FS_Subset, FS_CardinalityType
    <3>5. Cardinality(S) <= policy.max
      BY <2>5, <3>2, <3>4
    <3>6. Cardinality(S) < policy.max => S = feasible
      <4>1. Cardinality(S) < policy.max => Cardinality(S) = Cardinality(feasible)
        BY <2>5, <3>2, <3>4
      <4> QED BY <3>2, <3>4, <4>1, FS_Subset
    <3>7. \A c \in S : Accepts(t, c)
      <4> SUFFICES ASSUME NEW c \in S PROVE Accepts(t, c)
        OBVIOUS
      <4>1. c \in Joined /\ RunFilterPlugins(unit, c, clusters[c])
        BY <2>7, <3>2
      <4>2. clusters[c].api = "served" /\ clusters[c].label \in policy.labels
        BY <2>3, <4>1 DEF RunFilterPlugins, APIResources, ClusterAffinity
      <4>3. "NoExecute" \notin clusters[c].taints
        BY <4>1 DEF RunFilterPlugins, TaintToleration, Effects
      <4> QED BY <2>2, <4>1, <4>2, <4>3 DEF Accepts
    <3>8. ASSUME NEW c \in (DOMAIN t.taints) \ unfit, Accepts(t, c), t.taints[c] = {}
          PROVE  c \in feasible
      <4>1. /\ c \in Joined /\ clusters[c].api = "served" /\ clusters[c].label \in policy.labels
            /\ clusters[c].taints = {}
        BY <2>2, <3>8 DEF Accepts
      <4>2. ~clusters[c].deleting /\ clusters[c].ready
        BY <3>8, <4>1 DEF FitInv, Joined
      <4>3. RunFilterPlugins(unit, c, clusters[c])
        BY <2>3, <4>1, <4>2 DEF RunFilterPlugins, APIResources, TaintToleration, ClusterAffinity,
                                ClusterReady, ClusterTerminating
      <4> QED BY <2>7, <4>1, <4>3
    <3>9. LeadsTo(t, S)
      BY <2>1, <2>2, <3>5, <3>6, <3>7, <3>8 DEF LeadsTo
    <3> QED BY <2>6, <3>2, <3>3, <3>9 DEF t
  <2> QED BY <2>8, <2>9
<1> QED BY <1>1, <1>2

(* What is written. *)
LEMMA RecordedEffect ==
  ASSUME NEW obj \in Objects, NEW t \in {None} \cup TriggerSet, NEW r \in Deferrals, NEW b,
         r # {} => t # None
  PROVE  /\ Recorded(obj, [triggers |-> t, deferred |-> r, changed |-> b]) \in Objects
         /\ Recorded(obj, [triggers |-> t, deferred |-> r, changed |-> b]).seen = t
         /\ Recorded(obj, [triggers |-> t, deferred |-> r, changed |-> b]).placement = obj.placement
<1> DEFINE turn == IF obj.turn = "mine" THEN "after" ELSE obj.turn
           o == [obj EXCEPT !.seen = t, !.deferred = r, !.turn = turn]
<1>1. Recorded(obj, [triggers |-> t, deferred |-> r, changed |-> b]) = o
  BY DEF Recorded
<1>2. turn \in {"before", "mine", "after", "done"}
  BY DEF Objects
<1> HIDE DEF turn
<1>3. o \in Objects /\ o.seen = t /\ o.placement = obj.placement
  BY <1>2 DEF Objects
<1> QED BY <1>1, <1>3

LEMMA AppliedEffect ==
  ASSUME NEW obj \in Objects, NEW S, S \subseteq Cluster, policies \in [DOMAIN policies -> Contents]
  PROVE  /\ applySchedulingResult(obj, S) \in Objects
         /\ applySchedulingResult(obj, S).seen = obj.seen
         /\ applySchedulingResult(obj, S).placement = S
<1> DEFINE follow == HasPolicy(obj) /\ policies[obj.policy].follow
           turn == IF S = obj.placement /\ follow = obj.follow THEN obj.turn ELSE "after"
           o == [obj EXCEPT !.placement = S, !.follow = follow, !.turn = turn]
<1>1. applySchedulingResult(obj, S) = o
  BY DEF applySchedulingResult
<1>2. turn \in {"before", "mine", "after", "done"}
  BY DEF Objects
<1>3. follow \in BOOLEAN
  <2>1. HasPolicy(obj) => policies[obj.policy] \in Contents
    BY DEF HasPolicy
  <2>2. HasPolicy(obj) => policies[obj.policy].follow \in BOOLEAN
    BY <2>1, ContentsAssumption
  <2> QED BY <2>2
<1> HIDE DEF follow, turn
<1>4. o \in Objects /\ o.seen = obj.seen /\ o.placement = S
  BY <1>2, <1>3 DEF Objects
<1> QED BY <1>1, <1>4

-----------------------------------------------------------------------------
(* Clusters that were unfit stay so. *)
LEMMA UnfitGrows ==
  ASSUME NEW seen, NEW placement, LeadsTo(seen, placement), unfit \subseteq unfit'
  PROVE  /\ seen.content # None /\ ~seen.content.sticky =>
              /\ \A c \in placement : Accepts(seen, c)
              /\ Cardinality(placement) <= seen.content.max
              /\ Cardinality(placement) < seen.content.max =>
                    \A c \in (DOMAIN seen.taints) \ unfit' :
                        Accepts(seen, c) /\ seen.taints[c] = {} => c \in placement
         /\ seen.content = None => placement = {}
  BY DEF LeadsTo

(* Neither the triggers nor the policy of the object have changed. *)
LEMMA UpToDateFrame ==
  ASSUME UNCHANGED fed, Joined' = Joined,
         \A c \in Joined : /\ clusters'[c].label = clusters[c].label
                           /\ clusters'[c].taints = clusters[c].taints
                           /\ clusters'[c].api = clusters[c].api,
         fed.policy \in DOMAIN policies, fed.policy \in DOMAIN policies',
         policies'[fed.policy] = policies[fed.policy],
         UpToDate(fed)
  PROVE  UpToDate(fed)'
<1>1. ASSUME NEW order
      PROVE  computeSchedulingTriggers(fed, order)' = computeSchedulingTriggers(fed, order)
  <2>1. /\ [c \in Joined |-> clusters[c].label]' = [c \in Joined |-> clusters[c].label]
        /\ [c \in Joined |-> clusters[c].taints]' = [c \in Joined |-> clusters[c].taints]
        /\ [c \in Joined |-> clusters[c].api]' = [c \in Joined |-> clusters[c].api]
    OBVIOUS
  <2> QED BY <2>1 DEF computeSchedulingTriggers, HasPolicy
<1>2. ASSUME NEW order
      PROVE  computeSchedulingAnnotations(fed, order)' = computeSchedulingAnnotations(fed, order)
  BY <1>1 DEF computeSchedulingAnnotations, HasPolicy
<1>3. PICK order \in SetToSeqs(Joined) :
        /\ ~computeSchedulingAnnotations(fed, order).changed
        /\ Recorded(fed, computeSchedulingAnnotations(fed, order)) = fed
  BY DEF UpToDate, Decisions
<1>4. /\ order \in SetToSeqs(Joined)' /\ ~computeSchedulingAnnotations(fed, order)'.changed
      /\ Recorded(fed, computeSchedulingAnnotations(fed, order))' = fed'
  BY <1>2, <1>3 DEF Recorded
<1> QED BY <1>4 DEF UpToDate, Decisions

(* The scheduler is waiting to be run, or is to be told. *)
LEMMA RecordFrame ==
  ASSUME RecordInv, UNCHANGED <<fed, skipped>>, unfit \subseteq unfit', run' = run \/ run' = None
  PROVE  RecordInv'
<1>1. ~skipped /\ fed.seen # None => LeadsTo(fed.seen, fed.placement)'
  <2> SUFFICES ASSUME ~skipped, fed.seen # None PROVE LeadsTo(fed.seen, fed.placement)'
    OBVIOUS
  <2>1. LeadsTo(fed.seen, fed.placement)
    BY DEF RecordInv, Right
  <2> QED BY <2>1, UnfitGrows DEF LeadsTo, Accepts
<1>2. /\ run # None /\ run' # None /\ run.fresh /\ ~run.skip /\ ~(skipped /\ run.obj.seen = fed.seen)
      /\ run.obj.seen # None
      => LeadsTo(run.obj.seen, run.obj.placement)'
  <2> SUFFICES ASSUME run # None, run' = run, run.fresh, ~run.skip, ~(skipped /\ run.obj.seen = fed.seen),
                      run.obj.seen # None
               PROVE  LeadsTo(run.obj.seen, run.obj.placement)'
    OBVIOUS
  <2>1. LeadsTo(run.obj.seen, run.obj.placement)
    BY DEF RecordInv, Right
  <2> QED BY <2>1, UnfitGrows DEF LeadsTo, Accepts
<1> QED BY <1>1, <1>2 DEF RecordInv, Right

LEMMA LeavesAlone ==
  ASSUME Inv, LeaveAlone
  PROVE  Inv'
<1>0. /\ UNCHANGED <<fed, cached, fresh, policies, clusters, skipped, unfit, edits, faults, run>>
      /\ queued' = FALSE /\ run = None
  BY DEF LeaveAlone, Begin, env
<1>1. Typed' BY <1>0 DEF Inv, Typed
<1>2. FitInv' BY <1>0 DEF Inv, FitInv
<1>3. RestInv'
  <2> SUFFICES ASSUME fresh, Works(fed)
               PROVE  /\ HasPolicy(fed) => UpToDate(fed)'
                      /\ fed.policy = "" => fed.seen # None /\ fed.seen.content = None
    BY <1>0 DEF RestInv, Works, HasPolicy
  <2>1. cached = fed /\ fed \in Objects
    BY DEF Inv, Typed
  <2>2. UpToDate(fed)
    BY <2>1 DEF LeaveAlone
  <2>3. HasPolicy(fed) => UpToDate(fed)'
    <3>1. Joined' = Joined
      BY <1>0 DEF Joined
    <3> QED BY <1>0, <2>2, <3>1, UpToDateFrame DEF HasPolicy
  <2> QED BY <2>1, <2>2, <2>3, UnchangedIsEmpty DEF Inv
<1>4. RecordInv' BY <1>0, RecordFrame DEF Inv
<1> QED BY <1>1, <1>2, <1>3, <1>4 DEF Inv

(* A reconcile has computed its write. *)
LEMMA ReconcilesInv ==
  ASSUME Inv, SkipScheduling \/ ScheduleObject
  PROVE  Inv'
<1>0. /\ UNCHANGED <<fed, cached, fresh, policies, clusters, skipped, unfit, edits, faults>>
      /\ queued' = FALSE /\ run = None /\ Works(cached)
  BY DEF SkipScheduling, ScheduleObject, Begin, env
<1>1. cached \in Objects /\ (fresh => cached = fed) /\ fresh \in BOOLEAN /\ Typed /\ FitInv
  BY DEF Inv, Typed
<1>2. /\ run' \in Runs /\ (run'.fresh => fresh)
      /\ run'.fresh /\ ~run'.skip /\ ~(skipped /\ run'.obj.seen = fed.seen) => Right(run'.obj)
  <2>1. CASE SkipScheduling
    <3>1. PICK order \in SetToSeqs(Joined) :
            run' = [obj |-> Recorded(cached, computeSchedulingAnnotations(cached, order)),
                    skip |-> computeSchedulingAnnotations(cached, order).changed, fresh |-> fresh]
      BY <2>1 DEF SkipScheduling, Decisions
    <3> DEFINE t == computeSchedulingTriggers(cached, order)
               d == computeSchedulingAnnotations(cached, order)
    <3>2. t \in TriggerSet
      BY <1>1, TriggersTyped
    <3> HIDE DEF t, d
    <3>3. CASE d = [triggers |-> t, deferred |-> {}, changed |-> TRUE]
      <4>1. Recorded(cached, d) \in Objects
        <5>1. {} \in Deferrals
          BY DEF Deferrals
        <5> QED BY <1>1, <3>2, <3>3, <5>1, RecordedEffect
      <4>2. run' = [obj |-> Recorded(cached, d), skip |-> TRUE, fresh |-> fresh]
        BY <3>1, <3>3 DEF d
      <4> QED BY <1>1, <4>1, <4>2 DEF Runs
    <3>4. ASSUME NEW r \in Deferrals, cached.seen # None,
                 d = [triggers |-> cached.seen, deferred |-> r, changed |-> FALSE]
          PROVE  /\ run' \in Runs /\ (run'.fresh => fresh)
                 /\ run'.fresh /\ ~run'.skip /\ ~(skipped /\ run'.obj.seen = fed.seen) => Right(run'.obj)
      <4>1. cached.seen \in {None} \cup TriggerSet
        BY <1>1 DEF Objects
      <4>2. /\ Recorded(cached, d) \in Objects /\ Recorded(cached, d).seen = cached.seen
            /\ Recorded(cached, d).placement = cached.placement
        BY <1>1, <3>4, <4>1, RecordedEffect
      <4>3. run' = [obj |-> Recorded(cached, d), skip |-> FALSE, fresh |-> fresh]
        BY <3>1, <3>4 DEF d
      <4>4. run' \in Runs /\ run'.obj.seen = cached.seen /\ run'.obj.placement = cached.placement
            /\ run'.fresh = fresh
        BY <1>1, <4>2, <4>3 DEF Runs
      <4>5. fresh /\ ~skipped => Right(run'.obj)
        BY <1>1, <4>4 DEF Inv, RecordInv, Right
      <4> QED BY <1>1, <4>4, <4>5
    <3> QED BY <1>1, <3>3, <3>4, DecisionEffect DEF d, t
  <2>2. CASE ScheduleObject
    <3>1. PICK order \in SetToSeqs(Joined), S \in schedule(cached) :
            /\ computeSchedulingAnnotations(cached, order).changed
            /\ run' = [obj |-> applySchedulingResult(
                                 Recorded(cached, computeSchedulingAnnotations(cached, order)), S),
                       skip |-> FALSE, fresh |-> fresh]
      BY <2>2 DEF ScheduleObject, Decisions
    <3> DEFINE t == computeSchedulingTriggers(cached, order)
               d == computeSchedulingAnnotations(cached, order)
               o == Recorded(cached, d)
    <3>2. d = [triggers |-> t, deferred |-> {}, changed |-> TRUE]
      BY <1>1, <3>1, DecisionEffect
    <3>3. t \in TriggerSet /\ S \subseteq Cluster /\ LeadsTo(t, S)
      BY <1>0, <1>1, TriggersTyped, ScheduledRight
    <3> HIDE DEF t, d
    <3>4. o \in Objects /\ o.seen = t
      <4>1. {} \in Deferrals
        BY DEF Deferrals
      <4>2. o = Recorded(cached, [triggers |-> t, deferred |-> {}, changed |-> TRUE])
        BY <3>2
      <4>3. Recorded(cached, [triggers |-> t, deferred |-> {}, changed |-> TRUE]).seen = t
        BY <1>1, <3>3, <4>1, RecordedEffect
      <4>4. Recorded(cached, [triggers |-> t, deferred |-> {}, changed |-> TRUE]) \in Objects
        BY <1>1, <3>3, <4>1, RecordedEffect
      <4> QED BY <4>2, <4>3, <4>4
    <3> HIDE DEF o
    <3>5. /\ applySchedulingResult(o, S) \in Objects /\ applySchedulingResult(o, S).seen = t
          /\ applySchedulingResult(o, S).placement = S
      BY <1>1, <3>3, <3>4, AppliedEffect DEF Typed
    <3>6. run' = [obj |-> applySchedulingResult(o, S), skip |-> FALSE, fresh |-> fresh]
      BY <3>1 DEF o, d
    <3>7. /\ run' \in Runs /\ run'.obj.seen = t /\ run'.obj.placement = S /\ run'.fresh = fresh
      BY <1>1, <3>5, <3>6 DEF Runs
    <3> QED BY <3>3, <3>7 DEF Right
  <2> QED BY <2>1, <2>2
<1>3. run' # None
  BY <1>2, NotNone
<1>4. Typed' BY <1>0, <1>2 DEF Inv, Typed
<1>5. FitInv' BY <1>0 DEF Inv, FitInv
<1>6. RestInv' BY <1>3 DEF RestInv
<1>7. RecordInv'
  <2>1. ~skipped => Right(fed)'
    BY <1>0 DEF Inv, RecordInv, Right, LeadsTo
  <2>2. Right(run'.obj) => Right(run.obj)'
    BY <1>0 DEF Right, LeadsTo
  <2> QED BY <1>0, <1>2, <2>1, <2>2 DEF RecordInv
<1> QED BY <1>4, <1>5, <1>6, <1>7 DEF Inv

(* The write succeeds, conflicts or fails; the cache catches up; the controller starts again. *)
LEMMA WritesInv ==
  ASSUME Inv, Persist \/ PersistFails \/ Restart \/ Deliver
  PROVE  Inv'
<1>1. CASE Persist /\ run.fresh
  <2>0. /\ UNCHANGED <<cached, policies, clusters, unfit, edits, faults, queued>> /\ run # None /\ run' = None
        /\ fed' = run.obj /\ fresh' = FALSE
        /\ skipped' = (run.skip \/ (skipped /\ run.obj.seen = fed.seen))
    BY <1>1 DEF Persist, env
  <2>1. run \in Runs /\ run.obj \in Objects /\ run.skip \in BOOLEAN
    BY <2>0 DEF Inv, Typed, Runs
  <2>2. Typed' BY <2>0, <2>1 DEF Inv, Typed
  <2>3. FitInv' BY <2>0 DEF Inv, FitInv
  <2>4. RestInv' BY <2>0 DEF RestInv
  <2>5. RecordInv'
    <3>1. ~skipped' => Right(run.obj)
      BY <1>1, <2>0 DEF Inv, RecordInv
    <3>2. Right(run.obj) => Right(fed)'
      BY <2>0 DEF Right, LeadsTo
    <3> QED BY <2>0, <3>1, <3>2 DEF RecordInv
  <2> QED BY <2>2, <2>3, <2>4, <2>5 DEF Inv
<1>2. CASE (Persist /\ ~run.fresh) \/ PersistFails \/ Restart \/ Deliver
  <2>0. /\ UNCHANGED <<fed, policies, clusters, skipped, unfit, edits>> /\ queued' = TRUE
        /\ UNCHANGED <<cached, fresh>> \/ (cached' = fed /\ fresh' = TRUE)
        /\ run' = None \/ run' = run
        /\ faults' \in 0 .. MaxFaults
    <3>1. /\ UNCHANGED <<fed, policies, clusters, skipped, unfit, edits>> /\ queued' = TRUE
          /\ UNCHANGED <<cached, fresh>> \/ (cached' = fed /\ fresh' = TRUE)
          /\ run' = None \/ run' = run
          /\ UNCHANGED faults \/ (faults < MaxFaults /\ faults' = faults + 1)
      BY <1>2 DEF Persist, PersistFails, Restart, Deliver, env
    <3>2. faults' \in 0 .. MaxFaults
      BY <3>1, BoundsAssumption DEF Inv, Typed
    <3> QED BY <3>1, <3>2
  <2>1. Typed'
    <3>1. fresh' \in BOOLEAN /\ (fresh' => cached' = fed') /\ (fresh => fresh') /\ cached' \in Objects
      <4>1. CASE UNCHANGED <<cached, fresh>>
        BY <2>0, <4>1 DEF Inv, Typed
      <4>2. CASE cached' = fed /\ fresh' = TRUE
        BY <2>0, <4>2 DEF Inv, Typed
      <4> QED BY <2>0, <4>1, <4>2
    <3>2. run' # None => (run'.fresh => fresh')
      BY <2>0, <3>1 DEF Inv, Typed
    <3> QED BY <2>0, <3>1, <3>2 DEF Inv, Typed
  <2>2. FitInv' BY <2>0 DEF Inv, FitInv
  <2>3. RestInv' BY <2>0 DEF RestInv
  <2>4. RecordInv' BY <2>0, RecordFrame DEF Inv
  <2> QED BY <2>1, <2>2, <2>3, <2>4 DEF Inv
<1> QED BY <1>1, <1>2

(* Somebody else writes the object. *)
LEMMA OthersWrite ==
  ASSUME Inv, NEW obj \in Objects, Write(obj), obj.seen = fed.seen, obj.placement = fed.placement,
         edits' \in 0 .. MaxEdits
  PROVE  Inv'
<1>0. /\ UNCHANGED <<cached, policies, clusters, queued, skipped, unfit, faults>>
      /\ fed' = obj /\ fresh' = FALSE
  BY DEF Write
<1>1. /\ run' \in {None} \cup Runs
      /\ run' # None => run'.fresh = FALSE
  <2>1. CASE run = None
    BY <2>1 DEF Write
  <2>2. CASE run \in Runs
    <3>1. run' = [run EXCEPT !.fresh = FALSE]
      BY <2>2, NotNone DEF Write
    <3> QED BY <2>2, <3>1 DEF Runs
  <2> QED BY <2>1, <2>2 DEF Inv, Typed
<1>2. Typed' BY <1>0, <1>1 DEF Inv, Typed
<1>3. FitInv' BY <1>0 DEF Inv, FitInv
<1>4. RestInv' BY <1>0 DEF RestInv
<1>5. RecordInv'
  <2>1. Right(fed) => Right(fed)'
    BY <1>0 DEF Right, LeadsTo
  <2> QED BY <1>0, <1>1, <2>1 DEF Inv, RecordInv
<1> QED BY <1>2, <1>3, <1>4, <1>5 DEF Inv

LEMMA ObjectChanges ==
  ASSUME Inv, ChangeObject \/ OthersFinish
  PROVE  Inv'
<1>1. PICK obj : Write(obj) /\ obj \in Objects /\ obj.seen = fed.seen /\ obj.placement = fed.placement
  <2>1. fed \in Objects
    BY DEF Inv, Typed
  <2> DEFINE changed == [fed EXCEPT !.turn = "before"]
  <2>2. /\ changed \in Objects /\ changed.seen = fed.seen /\ changed.placement = fed.placement
        /\ changed.policy = fed.policy /\ changed.input = fed.input /\ changed.noSched = fed.noSched
    BY <2>1 DEF Objects
  <2>3. CASE ChangeObject
    <3>1. \/ Write([changed EXCEPT !.input = 1 - changed.input])
          \/ Write([changed EXCEPT !.noSched = ~changed.noSched])
          \/ \E p \in (Policy \cup {""}) \ {fed.policy} : Write([changed EXCEPT !.policy = p])
      BY <2>3 DEF ChangeObject
    <3> HIDE DEF changed
    <3>2. changed.input \in {0, 1} /\ changed.noSched \in BOOLEAN
      BY <2>2 DEF Objects
    <3>3. 1 - changed.input \in {0, 1} /\ (~changed.noSched) \in BOOLEAN
      BY <3>2
    <3>4. CASE Write([changed EXCEPT !.input = 1 - changed.input])
      <4>1. ASSUME NEW n \in {0, 1} PROVE
              /\ [changed EXCEPT !.input = n] \in Objects /\ [changed EXCEPT !.input = n].seen = fed.seen
              /\ [changed EXCEPT !.input = n].placement = fed.placement
        BY <2>2 DEF Objects
      <4> QED BY <3>3, <3>4, <4>1
    <3>5. CASE Write([changed EXCEPT !.noSched = ~changed.noSched])
      <4>1. ASSUME NEW b \in BOOLEAN PROVE
              /\ [changed EXCEPT !.noSched = b] \in Objects
              /\ [changed EXCEPT !.noSched = b].seen = fed.seen
              /\ [changed EXCEPT !.noSched = b].placement = fed.placement
        BY <2>2 DEF Objects
      <4> QED BY <3>3, <3>5, <4>1
    <3>6. ASSUME NEW p \in Policy \cup {""}, Write([changed EXCEPT !.policy = p])
          PROVE  \E obj : Write(obj) /\ obj \in Objects /\ obj.seen = fed.seen /\ obj.placement = fed.placement
      <4>1. /\ [changed EXCEPT !.policy = p] \in Objects
            /\ [changed EXCEPT !.policy = p].seen = fed.seen
            /\ [changed EXCEPT !.policy = p].placement = fed.placement
        BY <2>2 DEF Objects
      <4> QED BY <3>6, <4>1
    <3> QED BY <3>1, <3>4, <3>5, <3>6
  <2>4. CASE OthersFinish
    <3> DEFINE turn == IF fed.turn = "before" THEN "mine" ELSE "done"
               obj == [fed EXCEPT !.turn = turn]
    <3>1. Write(obj)
      BY <2>4 DEF OthersFinish
    <3>2. turn \in {"before", "mine", "after", "done"}
      OBVIOUS
    <3> HIDE DEF turn
    <3>3. obj \in Objects /\ obj.seen = fed.seen /\ obj.placement = fed.placement
      BY <2>1, <3>2 DEF Objects
    <3> QED BY <3>1, <3>3
  <2> QED BY <2>3, <2>4
<1>2. edits' \in 0 .. MaxEdits
  <2>1. edits' = edits \/ (edits < MaxEdits /\ edits' = edits + 1)
    BY DEF ChangeObject, OthersFinish, Edit
  <2> QED BY <2>1, BoundsAssumption DEF Inv, Typed
<1> QED BY <1>1, <1>2, OthersWrite

LEMMA PoliciesChange ==
  ASSUME Inv, ChangePolicy
  PROVE  Inv'
<1>0. /\ UNCHANGED <<fed, cached, fresh, clusters, run, unfit, skipped, faults>>
      /\ edits < MaxEdits /\ edits' = edits + 1
  BY DEF ChangePolicy, Edit
<1>1. PICK p \in Policy :
        /\ \/ \E s \in Contents : policies' = [q \in DOMAIN policies \cup {p} |->
                                                  IF q = p THEN s ELSE policies[q]]
           \/ policies' = [q \in DOMAIN policies \ {p} |-> policies[q]]
        /\ queued' = (queued \/ cached.policy = p)
  BY DEF ChangePolicy
<1>2. /\ DOMAIN policies' \subseteq Policy /\ policies' \in [DOMAIN policies' -> Contents]
      /\ \A q \in Policy \ {p} : /\ q \in DOMAIN policies' <=> q \in DOMAIN policies
                                 /\ policies'[q] = policies[q] \/ q \notin DOMAIN policies
  BY <1>1 DEF Inv, Typed
<1>3. Typed'
  <2>1. edits' \in 0 .. MaxEdits
    BY <1>0, BoundsAssumption DEF Inv, Typed
  <2>2. queued' \in BOOLEAN
    BY <1>1
  <2> QED BY <1>0, <1>2, <2>1, <2>2 DEF Inv, Typed
<1>4. FitInv' BY <1>0 DEF Inv, FitInv
<1>5. RestInv'
  <2> SUFFICES ASSUME ~queued', run' = None, fresh', Works(fed)'
               PROVE  /\ HasPolicy(fed)' /\ (\A c \in Joined : clusters[c].api # "unknown")' => UpToDate(fed)'
                      /\ fed.policy = "" => fed.seen # None /\ fed.seen.content = None
    BY <1>0 DEF RestInv
  <2>1. ~queued /\ run = None /\ fresh /\ fed.policy # p /\ fed.policy \in Policy \cup {""}
    BY <1>0, <1>1 DEF Inv, Typed, Objects
  <2>2. HasPolicy(fed)' => HasPolicy(fed) /\ policies'[fed.policy] = policies[fed.policy]
    BY <1>0, <1>2, <2>1 DEF HasPolicy, Inv, Typed
  <2>3. Works(fed)
    BY <1>0, <2>2 DEF Works
  <2>4. Joined' = Joined
    BY <1>0 DEF Joined
  <2>5. /\ HasPolicy(fed) /\ (\A c \in Joined : clusters[c].api # "unknown") => UpToDate(fed)
        /\ fed.policy = "" => fed.seen # None /\ fed.seen.content = None
    BY <2>1, <2>3 DEF Inv, RestInv
  <2>6. HasPolicy(fed)' /\ (\A c \in Joined : clusters[c].api # "unknown")' => UpToDate(fed)'
    BY <1>0, <2>2, <2>4, <2>5, UpToDateFrame DEF HasPolicy
  <2> QED BY <2>5, <2>6
<1>6. RecordInv' BY <1>0, RecordFrame DEF Inv
<1> QED BY <1>3, <1>4, <1>5, <1>6 DEF Inv

-----------------------------------------------------------------------------
(* A cluster changes: the object is enqueued, or no trigger that counts has changed. *)
LEMMA ClusterChanges ==
  ASSUME Inv, NEW c \in Cluster, NEW new \in {None} \cup ClusterObjects, SetCluster(c, new),
         edits' \in 0 .. MaxEdits, unfit \subseteq unfit',
         new = None => c \in Joined,
         new # None => /\ ~new.joined => c \notin Joined /\ new.api = "unknown"
                       /\ c \notin unfit' => ~new.deleting /\ (new.api # "unknown" => new.ready)
  PROVE  Inv'
<1> DEFINE old == IF c \in DOMAIN clusters THEN clusters[c] ELSE None
<1>0. /\ UNCHANGED <<fed, cached, fresh, policies, run, skipped, faults>>
      /\ queued' = (queued \/ (cached.policy # "" /\ Notices(old, new)))
      /\ clusters' = IF new = None THEN [d \in DOMAIN clusters \ {c} |-> clusters[d]]
                     ELSE [d \in DOMAIN clusters \cup {c} |-> IF d = c THEN new ELSE clusters[d]]
  BY DEF SetCluster
<1>1. new # None => new \in ClusterObjects
  OBVIOUS
<1>2. /\ DOMAIN clusters' = IF new = None THEN DOMAIN clusters \ {c} ELSE DOMAIN clusters \cup {c}
      /\ new # None => clusters'[c] = new
      /\ \A d \in DOMAIN clusters : d # c => d \in DOMAIN clusters' /\ clusters'[d] = clusters[d]
  BY <1>0
<1>3. Typed'
  <2>1. DOMAIN clusters' \subseteq Cluster /\ clusters' \in [DOMAIN clusters' -> ClusterObjects]
    <3>1. DOMAIN clusters \subseteq Cluster /\ \A d \in DOMAIN clusters : clusters[d] \in ClusterObjects
      BY DEF Inv, Typed
    <3> QED BY <1>0, <1>1, <3>1
  <2>2. queued' \in BOOLEAN
    <3>1. queued \in BOOLEAN
      BY DEF Inv, Typed
    <3> QED BY <1>0, <3>1
  <2> QED BY <1>0, <2>1, <2>2 DEF Inv, Typed
<1>4. FitInv'
  <2> SUFFICES ASSUME NEW d \in DOMAIN clusters'
               PROVE  /\ ~clusters'[d].joined => clusters'[d].api = "unknown"
                      /\ d \notin unfit' =>
                           ~clusters'[d].deleting /\ (clusters'[d].api # "unknown" => clusters'[d].ready)
    BY DEF FitInv
  <2>1. CASE d = c
    BY <1>2, <2>1
  <2>2. CASE d # c
    BY <1>2, <2>2 DEF Inv, FitInv
  <2> QED BY <2>1, <2>2
<1>5. RestInv'
  <2> SUFFICES ASSUME ~queued', run' = None, fresh', Works(fed)'
               PROVE  /\ HasPolicy(fed)' /\ (\A d \in Joined : clusters[d].api # "unknown")' => UpToDate(fed)'
                      /\ fed.policy = "" => fed.seen # None /\ fed.seen.content = None
    BY <1>0 DEF RestInv
  <2>1. ~queued /\ run = None /\ fresh /\ Works(fed) /\ cached = fed
    BY <1>0 DEF Inv, Typed, Works, HasPolicy
  <2>2. /\ HasPolicy(fed) /\ (\A d \in Joined : clusters[d].api # "unknown") => UpToDate(fed)
        /\ fed.policy = "" => fed.seen # None /\ fed.seen.content = None
    BY <2>1 DEF Inv, RestInv
  <2>3. ASSUME HasPolicy(fed)', \A d \in Joined' : clusters'[d].api # "unknown"
        PROVE  UpToDate(fed)'
    <3>1. HasPolicy(fed) /\ fed.policy # ""
      BY <1>0, <2>3, PolicyAssumption DEF HasPolicy, Inv, Typed
    <3>2. ~Notices(old, new)
      BY <1>0, <2>1, <3>1
    <3>3. /\ Joined' = Joined
          /\ \A d \in Joined : /\ clusters'[d].label = clusters[d].label
                               /\ clusters'[d].taints = clusters[d].taints
                               /\ clusters'[d].api = clusters[d].api
      <4>1. new # None
        BY <3>2, NotNone DEF Notices, Joined, Inv, Typed
      <4>2. CASE ~new.joined
        <5>1. c \notin Joined /\ c \notin Joined'
          BY <1>2, <4>1, <4>2 DEF Joined
        <5>2. Joined' = Joined
          BY <1>2, <4>1, <5>1 DEF Joined
        <5> QED BY <1>2, <5>1, <5>2 DEF Joined
      <4>3. CASE new.joined
        <5>1. /\ c \in DOMAIN clusters
              /\ clusters[c].label = new.label /\ clusters[c].taints = new.taints /\ clusters[c].api = new.api
          BY <3>2, <4>1, <4>3 DEF Notices
        <5>2. c \in Joined'
          BY <1>2, <4>1, <4>3 DEF Joined
        <5>3. c \in Joined
          BY <1>2, <2>3, <4>1, <5>1, <5>2 DEF Inv, FitInv, Joined
        <5>4. Joined' = Joined
          BY <1>2, <4>1, <5>2, <5>3 DEF Joined
        <5> QED BY <1>2, <4>1, <5>1, <5>4 DEF Joined
      <4> QED BY <4>2, <4>3
    <3>4. \A d \in Joined : clusters[d].api # "unknown"
      BY <2>3, <3>3
    <3>5. UpToDate(fed)
      BY <2>2, <3>1, <3>4
    <3> QED BY <1>0, <3>1, <3>3, <3>5, UpToDateFrame DEF HasPolicy
  <2> QED BY <2>2, <2>3
<1>6. RecordInv' BY <1>0, RecordFrame DEF Inv
<1> QED BY <1>3, <1>4, <1>5, <1>6 DEF Inv

LEMMA ClustersChange ==
  ASSUME Inv, NEW c \in Cluster, Register(c) \/ Join(c) \/ Collect(c) \/ ChangeCluster(c)
  PROVE  Inv'
<1>1. edits' \in 0 .. MaxEdits
  <2>1. edits' = edits \/ (edits < MaxEdits /\ edits' = edits + 1)
    BY DEF Register, Join, Collect, ChangeCluster, Edit
  <2> QED BY <2>1, BoundsAssumption DEF Inv, Typed
<1>2. \A d \in DOMAIN clusters : clusters[d] \in ClusterObjects
  BY DEF Inv, Typed
<1>3. CASE Register(c)
  <2> DEFINE new == [joined |-> FALSE, label |-> "a", taints |-> {}, api |-> "unknown",
                     ready |-> FALSE, deleting |-> FALSE]
  <2>1. SetCluster(c, new) /\ c \notin Joined /\ UNCHANGED unfit
    BY <1>3 DEF Register, Joined
  <2>2. new \in ClusterObjects /\ ~new.joined /\ new.api = "unknown" /\ ~new.deleting
    BY DEF ClusterObjects
  <2> HIDE DEF new
  <2>3. new # None
    BY <2>2, NotNone
  <2> QED BY <1>1, <2>1, <2>2, <2>3, ClusterChanges
<1>4. CASE Join(c)
  <2> DEFINE new == [clusters[c] EXCEPT !.joined = TRUE]
  <2>1. SetCluster(c, new) /\ c \in DOMAIN clusters /\ UNCHANGED unfit /\ ~clusters[c].joined
    BY <1>4 DEF Join
  <2>2. /\ new \in ClusterObjects /\ new.joined /\ new.api = clusters[c].api
        /\ new.deleting = clusters[c].deleting /\ new.ready = clusters[c].ready
    BY <1>2, <2>1 DEF ClusterObjects
  <2> HIDE DEF new
  <2>3. new # None
    BY <2>2, NotNone
  <2>4. c \notin unfit => ~new.deleting /\ (new.api # "unknown" => new.ready)
    BY <2>1, <2>2 DEF Inv, FitInv
  <2> QED BY <1>1, <2>1, <2>2, <2>3, <2>4, ClusterChanges
<1>5. CASE Collect(c)
  <2>0. PICK a \in {"served", "missing"} : SetCluster(c, [clusters[c] EXCEPT !.api = a, !.ready = TRUE])
    BY <1>5 DEF Collect
  <2> DEFINE new == [clusters[c] EXCEPT !.api = a, !.ready = TRUE]
  <2>1. SetCluster(c, new) /\ c \in DOMAIN clusters /\ UNCHANGED unfit /\ clusters[c].joined
    BY <1>5, <2>0 DEF Collect, Joined
  <2>2. /\ new \in ClusterObjects /\ new.joined /\ new.deleting = clusters[c].deleting /\ new.ready
    BY <1>2, <2>1 DEF ClusterObjects
  <2> HIDE DEF new
  <2>3. new # None
    BY <2>2, NotNone
  <2>4. c \notin unfit => ~new.deleting /\ (new.api # "unknown" => new.ready)
    BY <2>1, <2>2 DEF Inv, FitInv
  <2> QED BY <1>1, <2>1, <2>2, <2>3, <2>4, ClusterChanges
<1>6. CASE ChangeCluster(c)
  <2>1. /\ c \in Joined /\ c \in DOMAIN clusters /\ clusters[c] \in ClusterObjects /\ clusters[c].joined
        /\ clusters[c].api # "unknown"
        /\ c \notin unfit => ~clusters[c].deleting /\ clusters[c].ready
    BY <1>2, <1>6 DEF ChangeCluster, Joined, Inv, FitInv
  <2>2. CASE SetCluster(c, None) /\ UNCHANGED unfit
    BY <1>1, <2>1, <2>2, ClusterChanges
  <2>3. ASSUME NEW new \in ClusterObjects, SetCluster(c, new), new.joined, unfit \subseteq unfit',
               c \notin unfit' => ~new.deleting /\ new.ready
        PROVE  Inv'
    <3>1. new # None
      BY NotNone
    <3> QED BY <1>1, <2>3, <3>1, ClusterChanges
  <2>4. ASSUME NEW l \in {"a", "b"}, SetCluster(c, [clusters[c] EXCEPT !.label = l]), UNCHANGED unfit
        PROVE  Inv'
    <3> DEFINE new == [clusters[c] EXCEPT !.label = l]
    <3>1. /\ new \in ClusterObjects /\ new.joined /\ new.deleting = clusters[c].deleting
          /\ new.ready = clusters[c].ready
      BY <2>1 DEF ClusterObjects
    <3>2. SetCluster(c, new)
      BY <2>4
    <3> HIDE DEF new
    <3> QED BY <2>1, <2>3, <2>4, <3>1, <3>2
  <2>5. ASSUME NEW t \in SUBSET Effects, SetCluster(c, [clusters[c] EXCEPT !.taints = t]), UNCHANGED unfit
        PROVE  Inv'
    <3> DEFINE new == [clusters[c] EXCEPT !.taints = t]
    <3>1. /\ new \in ClusterObjects /\ new.joined /\ new.deleting = clusters[c].deleting
          /\ new.ready = clusters[c].ready
      BY <2>1 DEF ClusterObjects
    <3>2. SetCluster(c, new)
      BY <2>5
    <3> HIDE DEF new
    <3> QED BY <2>1, <2>3, <2>5, <3>1, <3>2
  <2>6. ASSUME NEW a \in {"served", "missing"}, SetCluster(c, [clusters[c] EXCEPT !.api = a]), UNCHANGED unfit
        PROVE  Inv'
    <3> DEFINE new == [clusters[c] EXCEPT !.api = a]
    <3>1. /\ new \in ClusterObjects /\ new.joined /\ new.deleting = clusters[c].deleting
          /\ new.ready = clusters[c].ready
      BY <2>1 DEF ClusterObjects
    <3>2. SetCluster(c, new)
      BY <2>6
    <3> HIDE DEF new
    <3> QED BY <2>1, <2>3, <2>6, <3>1, <3>2
  <2>7. ASSUME NEW b \in BOOLEAN, unfit' = unfit \cup {c},
               SetCluster(c, [clusters[c] EXCEPT !.ready = b]) \/ SetCluster(c, [clusters[c] EXCEPT !.deleting = b])
        PROVE  Inv'
    <3>1. /\ [clusters[c] EXCEPT !.ready = b] \in ClusterObjects
          /\ [clusters[c] EXCEPT !.ready = b].joined
          /\ [clusters[c] EXCEPT !.deleting = b] \in ClusterObjects
          /\ [clusters[c] EXCEPT !.deleting = b].joined
      BY <2>1 DEF ClusterObjects
    <3>2. PICK new \in ClusterObjects : SetCluster(c, new) /\ new.joined
      BY <2>7, <3>1
    <3> QED BY <2>3, <2>7, <3>2
  <2> DEFINE flipped == IF clusters[c].label = "a" THEN "b" ELSE "a"
             turned == IF clusters[c].api = "served" THEN "missing" ELSE "served"
  <2>8. \/ UNCHANGED unfit /\ SetCluster(c, [clusters[c] EXCEPT !.label = flipped])
        \/ UNCHANGED unfit /\ \E t \in {{}, {"NoSchedule"}, {"NoExecute"}} :
                                  SetCluster(c, [clusters[c] EXCEPT !.taints = t])
        \/ UNCHANGED unfit /\ SetCluster(c, [clusters[c] EXCEPT !.api = turned])
        \/ UNCHANGED unfit /\ SetCluster(c, None)
        \/ unfit' = unfit \cup {c} /\ SetCluster(c, [clusters[c] EXCEPT !.ready = ~clusters[c].ready])
        \/ unfit' = unfit \cup {c} /\ SetCluster(c, [clusters[c] EXCEPT !.deleting = TRUE])
    BY <1>6 DEF ChangeCluster
  <2>9. /\ flipped \in {"a", "b"} /\ turned \in {"served", "missing"}
        /\ (~clusters[c].ready) \in BOOLEAN /\ TRUE \in BOOLEAN
    OBVIOUS
  <2>10. \A t \in {{}, {"NoSchedule"}, {"NoExecute"}} : t \in SUBSET Effects
    BY DEF Effects
  <2> HIDE DEF flipped, turned
  <2> QED BY <2>2, <2>4, <2>5, <2>6, <2>7, <2>8, <2>9, <2>10
<1> QED BY <1>3, <1>4, <1>5, <1>6

-----------------------------------------------------------------------------
LEMMA InitInv == Init => Inv
<1> SUFFICES ASSUME Init PROVE Inv
  OBVIOUS
<1>1. fed.policy \in Policy
  BY PolicyAssumption DEF Init
<1>2. fed \in Objects /\ fed.seen = None
  <2>1. {} \in Deferrals
    BY DEF Deferrals
  <2> QED BY <1>1, <2>1 DEF Init, Objects
<1>3. PICK s \in Start : policies = [p \in {fed.policy} |-> s]
  BY DEF Init
<1>4. PICK S \in StartClusters :
        clusters = [c \in S |-> [joined |-> TRUE, label |-> "a", taints |-> {}, api |-> "served",
                                 ready |-> TRUE, deleting |-> FALSE]]
  BY DEF Init
<1>5. /\ DOMAIN policies \subseteq Policy /\ policies \in [DOMAIN policies -> Contents]
  BY <1>1, <1>3, ContentsAssumption
<1>6. DOMAIN clusters \subseteq Cluster /\ clusters \in [DOMAIN clusters -> ClusterObjects]
  <2>1. [joined |-> TRUE, label |-> "a", taints |-> {}, api |-> "served", ready |-> TRUE,
         deleting |-> FALSE] \in ClusterObjects
    BY DEF ClusterObjects
  <2> QED BY <1>4, <2>1, ClusterAssumption
<1>7. edits \in 0 .. MaxEdits /\ faults \in 0 .. MaxFaults
  BY BoundsAssumption DEF Init
<1>8. Typed
  BY <1>2, <1>5, <1>6, <1>7 DEF Init, Typed
<1>9. FitInv
  BY <1>4 DEF FitInv
<1>10. RestInv
  BY DEF Init, RestInv
<1>11. RecordInv
  BY <1>2 DEF Init, RecordInv, Right
<1> QED BY <1>8, <1>9, <1>10, <1>11 DEF Inv

LEMMA NextInv == Inv /\ [Next]_vars => Inv'
<1> SUFFICES ASSUME Inv, [Next]_vars PROVE Inv'
  OBVIOUS
<1>1. CASE Reconcile
  BY <1>1, LeavesAlone, ReconcilesInv DEF Reconcile
<1>2. CASE Persist \/ PersistFails \/ Restart \/ Deliver
  BY <1>2, WritesInv
<1>3. CASE ChangeObject \/ OthersFinish \/ ChangePolicy
  BY <1>3, ObjectChanges, PoliciesChange
<1>4. ASSUME NEW c \in Cluster, Register(c) \/ Join(c) \/ Collect(c) \/ ChangeCluster(c)
      PROVE  Inv'
  BY <1>4, ClustersChange
<1>5. CASE UNCHANGED vars
  <2>0. UNCHANGED <<fed, cached, fresh, policies, clusters, queued, run, unfit, skipped, edits, faults>>
    BY <1>5 DEF vars
  <2>1. Typed' BY <2>0 DEF Inv, Typed
  <2>2. FitInv' BY <2>0 DEF Inv, FitInv
  <2>3. RestInv'
    <3>1. Joined' = Joined
      BY <2>0 DEF Joined
    <3>2. HasPolicy(fed) /\ UpToDate(fed) => UpToDate(fed)'
      BY <2>0, <3>1, UpToDateFrame DEF HasPolicy
    <3> QED BY <2>0, <3>1, <3>2 DEF Inv, RestInv, Works, HasPolicy
  <2>4. RecordInv' BY <2>0, RecordFrame DEF Inv
  <2> QED BY <2>1, <2>2, <2>3, <2>4 DEF Inv
<1> QED BY <1>1, <1>2, <1>3, <1>4, <1>5 DEF Next

LEMMA Invariance == Spec => []Inv
  BY InitInv, NextInv, PTL DEF Spec

-----------------------------------------------------------------------------
(* A write that will not conflict was computed from the object as it is. *)
WriteInv ==
    run # None /\ run.fresh =>
        /\ run.obj.input = fed.input /\ run.obj.noSched = fed.noSched /\ run.obj.policy = fed.policy
        /\ fed.turn # "before"

LEMMA WriteOf ==
  ASSUME NEW obj \in Objects, NEW d, NEW S
  PROVE  LET o == Recorded(obj, d)
         IN  \A w \in {o, applySchedulingResult(o, S)} :
                w.input = obj.input /\ w.noSched = obj.noSched /\ w.policy = obj.policy
  BY DEF Recorded, applySchedulingResult, Objects

LEMMA NextWriteInv ==
  ASSUME Inv, WriteInv, [Next]_vars
  PROVE  WriteInv'
<1>1. CASE LeaveAlone \/ ChangePolicy \/ UNCHANGED vars
  BY <1>1 DEF LeaveAlone, Begin, ChangePolicy, vars, WriteInv
<1>2. CASE SkipScheduling \/ ScheduleObject
  <2>1. PICK d, S : /\ \/ run' = [obj |-> Recorded(cached, d), skip |-> d.changed, fresh |-> fresh]
                       \/ run' = [obj |-> applySchedulingResult(Recorded(cached, d), S), skip |-> FALSE,
                                  fresh |-> fresh]
                    /\ Works(cached) /\ fed' = fed
    BY <1>2 DEF SkipScheduling, ScheduleObject, Begin
  <2>2. cached \in Objects /\ (fresh => cached = fed) /\ cached.turn # "before"
    BY <2>1 DEF Inv, Typed, Works
  <2>3. /\ run'.fresh = fresh /\ run'.obj.input = cached.input /\ run'.obj.noSched = cached.noSched
        /\ run'.obj.policy = cached.policy
    BY <2>1, <2>2, WriteOf
  <2> QED BY <2>1, <2>2, <2>3 DEF WriteInv
<1>3. CASE Persist \/ PersistFails \/ Restart \/ Deliver
  BY <1>3 DEF Persist, PersistFails, Restart, Deliver, WriteInv
<1>4. ASSUME NEW obj, Write(obj) PROVE WriteInv'
  <2>1. run \in {None} \cup Runs
    BY DEF Inv, Typed
  <2>2. run' = None \/ run'.fresh = FALSE
    BY <1>4, <2>1 DEF Write, Runs
  <2> QED BY <2>2 DEF WriteInv
<1>5. CASE ChangeObject \/ OthersFinish
  BY <1>4, <1>5 DEF ChangeObject, OthersFinish
<1>6. ASSUME NEW c, NEW new, SetCluster(c, new) PROVE WriteInv'
  BY <1>6 DEF SetCluster, WriteInv
<1>7. ASSUME NEW c \in Cluster, Register(c) \/ Join(c) \/ Collect(c) \/ ChangeCluster(c)
      PROVE  WriteInv'
  BY <1>6, <1>7 DEF Register, Join, Collect, ChangeCluster
<1> QED BY <1>1, <1>2, <1>3, <1>5, <1>7 DEF Next, Reconcile

(* The scheduler's write never undoes what another wrote to the object while the result was      *)
(* computed (the Update of reconcile and of prepareToSchedule, refused on an old copy), and      *)
(* never makes the controllers before the scheduler pass for done.                               *)
THEOREM NothingIsUndone == Spec => NothingUndone
<1>1. Init => WriteInv
  BY DEF Init, WriteInv
<1>2. ASSUME Inv, WriteInv, [Next]_vars, run # None, run' = None
      PROVE  /\ fed'.input = fed.input /\ fed'.noSched = fed.noSched /\ fed'.policy = fed.policy
             /\ fed.turn = "before" => fed'.turn = "before"
  <2>1. CASE Persist
    BY <1>2, <2>1 DEF Persist, WriteInv
  <2>2. CASE PersistFails \/ Restart \/ Deliver \/ ChangePolicy \/ UNCHANGED vars
    BY <1>2, <2>2 DEF PersistFails, Restart, Deliver, ChangePolicy, vars
  <2>3. ASSUME NEW obj, Write(obj) PROVE FALSE
    <3>1. run \in Runs /\ run' = [run EXCEPT !.fresh = FALSE]
      BY <1>2, <2>3 DEF Write, Inv, Typed
    <3>2. run' \in Runs
      BY <3>1 DEF Runs
    <3> QED BY <1>2, <3>2, NotNone
  <2>4. CASE ChangeObject \/ OthersFinish
    BY <2>3, <2>4 DEF ChangeObject, OthersFinish
  <2>5. CASE Reconcile
    BY <1>2, <2>5 DEF Reconcile, LeaveAlone, SkipScheduling, ScheduleObject, Begin
  <2>6. ASSUME NEW c, NEW new, SetCluster(c, new) PROVE UNCHANGED fed
    BY <2>6 DEF SetCluster
  <2>7. ASSUME NEW c \in Cluster, Register(c) \/ Join(c) \/ Collect(c) \/ ChangeCluster(c)
        PROVE  UNCHANGED fed
    BY <2>6, <2>7 DEF Register, Join, Collect, ChangeCluster
  <2> QED BY <1>2, <2>1, <2>2, <2>4, <2>5, <2>7 DEF Next
<1>3. Inv /\ WriteInv /\ [Next]_vars => [run # None /\ run' = None =>
          /\ fed'.input = fed.input /\ fed'.noSched = fed.noSched /\ fed'.policy = fed.policy
          /\ fed.turn = "before" => fed'.turn = "before"]_vars
  BY <1>2
<1> QED BY <1>1, <1>3, Invariance, NextWriteInv, PTL DEF Spec, NothingUndone

(* The object, its cached copy and the one about to be written are well-formed, the recorded     *)
(* triggers included (computeSchedulingTriggers), a write comes from the latest copy or will     *)
(* conflict, and reasons are deferred only by an object that was scheduled once                  *)
(* (updateSchedulingAnnotations).                                                                *)
THEOREM TypeCorrect == Spec => []TypeOK
<1>1. Inv => TypeOK
  <2> SUFFICES ASSUME Inv PROVE TypeOK
    OBVIOUS
  <2>1. ASSUME NEW obj \in Objects PROVE IsObject(obj) /\ (obj.deferred # {} => obj.seen # None)
    <3>1. /\ obj.policy \in Policy \cup {""} /\ obj.placement \subseteq Cluster
          /\ obj.turn \in {"before", "mine", "after", "done"} /\ obj.deferred \in Deferrals
          /\ obj.seen \in {None} \cup TriggerSet /\ (obj.deferred # {} => obj.seen # None)
      BY DEF Objects
    <3>2. \A t \in TriggerSet : /\ t.content \in Contents \cup {None} /\ IsInjective(t.clusters)
                                /\ Range(t.clusters) = DOMAIN t.taints
      BY DEF TriggerSet
    <3> QED BY <3>1, <3>2 DEF IsObject, Deferrals
  <2>2. IsObject(fed) /\ IsObject(cached) /\ (run = None \/ IsObject(run.obj))
    <3>1. run # None => run.obj \in Objects
      BY DEF Inv, Typed, Runs
    <3> QED BY <2>1, <3>1 DEF Inv, Typed
  <2>3. \A obj \in {fed, cached} : obj.deferred # {} => obj.seen # None
    BY <2>1 DEF Inv, Typed
  <2> QED BY <2>2, <2>3 DEF TypeOK, Inv, Typed
<1> QED BY <1>1, Invariance, PTL

(* No change gets lost between the event handlers (enqueueFederatedObjectsForPolicy,             *)
(* enqueueFederatedObjectsForCluster, the handler of cluster updates) and the triggers in the    *)
(* annotation: once the scheduler rests, the object was considered against the policy and the    *)
(* clusters as they are, through conflicts, failed writes and restarts.                          *)
THEOREM RestIsConsidered == Spec => []QuietIsConsidered
<1>1. Inv => QuietIsConsidered
  <2> SUFFICES ASSUME Inv, Quiet, HasPolicy(fed) PROVE UpToDate(fed)
    BY DEF QuietIsConsidered
  <2>1. ~queued /\ run = None /\ fresh /\ Works(fed) /\ \A c \in Joined : clusters[c].api # "unknown"
    BY DEF Quiet, Works, Joined
  <2> QED BY <2>1 DEF Inv, RestInv
<1> QED BY <1>1, Invariance, PTL

(* Under a policy that enables every trigger and is not sticky, the object rests in no cluster   *)
(* that is gone, does not serve the type, is not selected or evicts it, and in every cluster     *)
(* that is and was acceptable, up to the bound; without a policy it is nowhere (the filter and   *)
(* select plugins, applySchedulingResult, and the triggers that make up for every later change). *)
THEOREM RestIsPlacedRight == Spec => []PlacedRight
<1>1. Inv => PlacedRight
  <2> SUFFICES ASSUME Inv, Quiet, ~skipped
               PROVE  /\ HasPolicy(fed) /\ Responsive(policies[fed.policy]) =>
                           /\ \A c \in fed.placement : ~Forbidden(policies[fed.policy], c)
                           /\ Cardinality(fed.placement) <= policies[fed.policy].max
                           /\ Cardinality(fed.placement) < policies[fed.policy].max =>
                                 \A c \in Cluster : Required(policies[fed.policy], c) => c \in fed.placement
                      /\ fed.policy = "" => fed.placement = {}
    BY DEF PlacedRight
  <2>1. /\ ~queued /\ run = None /\ fresh /\ fed \in Objects /\ Typed
        /\ fed.policy = "" \/ HasPolicy(fed) => Works(fed)
        /\ \A c \in Joined : clusters[c].api # "unknown"
    BY DEF Quiet, Works, Joined, Inv, Typed
  <2>2. Right(fed)
    BY DEF Inv, RecordInv
  <2>3. CASE fed.policy = ""
    <3>1. ~HasPolicy(fed)
      BY <2>3, PolicyAssumption DEF HasPolicy, Inv, Typed
    <3>2. fed.seen # None /\ fed.seen.content = None
      BY <2>1, <2>3 DEF Inv, RestInv
    <3> QED BY <2>2, <3>1, <3>2 DEF Right, LeadsTo
  <2>4. CASE fed.policy # ""
    <3> SUFFICES ASSUME HasPolicy(fed), Responsive(policies[fed.policy])
                 PROVE  /\ \A c \in fed.placement : ~Forbidden(policies[fed.policy], c)
                        /\ Cardinality(fed.placement) <= policies[fed.policy].max
                        /\ Cardinality(fed.placement) < policies[fed.policy].max =>
                              \A c \in Cluster : Required(policies[fed.policy], c) => c \in fed.placement
      BY <2>4
    <3> DEFINE policy == policies[fed.policy]
    <3>1. UpToDate(fed)
      BY <2>1 DEF Inv, RestInv
    <3>2. /\ fed.seen # None /\ fed.seen.content = policy
          /\ DOMAIN fed.seen.taints = Joined
          /\ \A c \in Joined : /\ fed.seen.labels[c] = clusters[c].label
                               /\ fed.seen.taints[c] = clusters[c].taints
                               /\ fed.seen.apis[c] = clusters[c].api
      BY <2>1, <3>1, UnchangedIsCurrent
    <3>3. policy # None /\ ~policy.sticky
      BY NotNone DEF Responsive, HasPolicy, Inv, Typed
    <3>4. /\ \A c \in fed.placement : Accepts(fed.seen, c)
          /\ Cardinality(fed.placement) <= policy.max
          /\ Cardinality(fed.placement) < policy.max =>
                \A c \in (DOMAIN fed.seen.taints) \ unfit :
                    Accepts(fed.seen, c) /\ fed.seen.taints[c] = {} => c \in fed.placement
      BY <2>2, <3>2, <3>3 DEF Right, LeadsTo
    <3> HIDE DEF policy
    <3>5. \A c \in fed.placement : ~Forbidden(policy, c)
      BY <3>2, <3>4 DEF Accepts, Forbidden
    <3>6. \A c \in Cluster : Required(policy, c) =>
            /\ c \in (DOMAIN fed.seen.taints) \ unfit
            /\ Accepts(fed.seen, c) /\ fed.seen.taints[c] = {}
      BY <3>2 DEF Required, Forbidden, Accepts
    <3> QED BY <3>4, <3>5, <3>6 DEF policy
  <2> QED BY <2>3, <2>4
<1> QED BY <1>1, Invariance, PTL
=============================================================================
