------------------------------ MODULE Scheduler ------------------------------
(***************************************************************************)
(* The scheduler controller for one federated object: which changes wake   *)
(* it, the scheduling triggers that decide whether it schedules at all,    *)
(* which are kept in an annotation of the object and so survive restarts,  *)
(* and the write of the result.                                            *)
(*                                                                         *)
(* The policies and clusters are those of the scheduler's informer stores; *)
(* of the federated object there is the one in the API server and the      *)
(* cached copy.  input stands for what the object itself contributes to    *)
(* the triggers: scheduling annotations, replicas, resource request.       *)
(***************************************************************************)
EXTENDS SchedulingFramework, SequencesExt

CONSTANTS
    Cluster,
    Policy,        \* policies an object may name, of a namespace or of the whole cluster
    policyName,    \* their names: the triggers leave out the namespace
    Contents,      \* specifications a policy may have
    Start,         \* specifications the first policy may start with
    StartClusters, \* sets of clusters that may be joined at the start
    MaxEdits,      \* bound on changes of objects, policies and clusters
    MaxFaults      \* bound on failing writes and restarts

ASSUME BoundsAssumption == MaxEdits \in Nat /\ MaxFaults \in Nat
ASSUME PolicyAssumption == policyName \in [Policy -> STRING] /\ "" \notin Policy /\ Policy # {}

VARIABLES
    fed,        \* the federated object in the API server
    cached,     \* the copy in the scheduler's cache
    fresh,      \* the copy has the object's latest resource version
    policies,   \* policies in the store, with their specification
    clusters,   \* clusters in the store
    queued,     \* the key is in the work queue
    run,        \* a reconcile that has computed its write, or None
    unfit,      \* history: clusters that were unready or deleted at some time
    skipped,    \* history: triggers were recorded without scheduling
    edits, faults

vars == <<fed, cached, fresh, policies, clusters, queued, run, unfit, skipped, edits, faults>>
env == <<unfit, edits, faults>>

None == [none |-> TRUE]

(* The changes that reschedule only where the policy says so. *)
Reasons == {"content", "labels", "apis", "joined"}

(* What a policy specifies: the labels and the number of clusters it       *)
(* selects, the rescheduling it wants, whether objects stay where they are *)
(* and whether followers follow.                                           *)
ASSUME ContentsAssumption ==
    /\ Contents \subseteq [labels : SUBSET STRING, max : Nat, trigger : {None} \cup [Reasons -> BOOLEAN],
                           sticky : BOOLEAN, follow : BOOLEAN]
    /\ Start \subseteq Contents

ASSUME ClusterAssumption == IsFiniteSet(Cluster) /\ StartClusters \subseteq SUBSET Cluster

-----------------------------------------------------------------------------
(* Scheduling triggers. *)

Joined == {c \in DOMAIN clusters : clusters[c].joined}

HasPolicy(obj) == obj.policy \in DOMAIN policies

(* The clusters come in the order in which the lister's map yields them.   *)
computeSchedulingTriggers(obj, order) ==
    [input    |-> obj.input,
     policy   |-> IF HasPolicy(obj) THEN policyName[obj.policy] ELSE "",
     content  |-> IF HasPolicy(obj) THEN policies[obj.policy] ELSE None,
     clusters |-> order,
     labels   |-> [c \in Joined |-> clusters[c].label],
     taints   |-> [c \in Joined |-> clusters[c].taints],
     apis     |-> [c \in Joined |-> clusters[c].api]]

(* Mutant: a cluster that is gone changes nothing. *)
isClusterTriggerKept(new, old) == \E c \in DOMAIN old \cap DOMAIN new : new[c] # old[c]

(* A cluster that changed or is gone; one that joined does not count. *)
isClusterTriggerChanged(new, old) ==
    \E c \in DOMAIN old : c \notin DOMAIN new \/ new[c] # old[c]

compareStableTriggers(new, old) == new.input # old.input \/ new.policy # old.policy

OptionalReasons(new, old) ==
    {r \in Reasons :
        \/ r = "content" /\ new.content # old.content
        \/ r = "labels" /\ isClusterTriggerChanged(new.labels, old.labels)
        \/ r = "apis" /\ isClusterTriggerChanged(new.apis, old.apis)
        \/ /\ r = "joined"
           /\ Range(old.clusters) \subseteq Range(new.clusters)
           /\ Range(old.clusters) # Range(new.clusters)}

(* Mutant: triggers that are deferred are not told from ones that are not. *)
DecideEagerly(obj, order) ==
    LET new == computeSchedulingTriggers(obj, order)
    IN [triggers |-> obj.seen, deferred |-> {}, changed |-> new # obj.seen]

(* Mutant: a sticky policy is looked at first.                             *)
DecideStickyFirst(obj, order) ==
    LET new == computeSchedulingTriggers(obj, order)
    IN IF HasPolicy(obj) /\ policies[obj.policy].sticky
       THEN [triggers |-> obj.seen, deferred |-> {"sticky"}, changed |-> FALSE]
       ELSE [triggers |-> new, deferred |-> {}, changed |-> new # obj.seen]

(* The triggers and the deferred reasons to record, and whether to         *)
(* schedule.                                                               *)
computeSchedulingAnnotations(obj, order) ==
    LET new     == computeSchedulingTriggers(obj, order)
        old     == obj.seen
        go      == [triggers |-> new, deferred |-> {}, changed |-> new # old]
        stay(r) == [triggers |-> old, deferred |-> r, changed |-> FALSE]
        policy  == policies[obj.policy]
        reasons == OptionalReasons(new, old)
    IN  IF old \in {None, new} \/ ~HasPolicy(obj) \/ compareStableTriggers(new, old) THEN go
        ELSE IF policy.sticky THEN stay({"sticky"})
        ELSE IF policy.trigger = None THEN stay({"never"})
        ELSE IF \/ isClusterTriggerChanged(new.taints, old.taints)
                \/ \E r \in reasons : policy.trigger[r]
             THEN go
        ELSE stay(reasons)

-----------------------------------------------------------------------------
(* The scheduler works on an object whose turn it is, or that no           *)
(* controller has to see, and whose policy exists if it names one.         *)
Works(obj) == obj.turn \in {"mine", "done"} /\ (obj.policy = "" \/ HasPolicy(obj))

schedulingUnit(obj) ==
    LET policy == policies[obj.policy]
    IN [current |-> obj.placement, labels |-> policy.labels, max |-> policy.max, sticky |-> policy.sticky]

(* The results a run may have; without a policy the object goes nowhere. *)
schedule(obj) ==
    IF obj.policy = "" THEN {{}}
    ELSE ScheduleResults(schedulingUnit(obj), [c \in Joined |-> clusters[c]])

(* updateSchedulingAnnotations, and the scheduler is no longer pending; the *)
(* controllers after it still are, if they were.                            *)
Recorded(obj, decision) ==
    [obj EXCEPT !.seen = decision.triggers, !.deferred = decision.deferred,
                !.turn = IF @ = "mine" THEN "after" ELSE @]

(* The later controllers are told of a result that differs. *)
applySchedulingResult(obj, placement) ==
    LET follow == HasPolicy(obj) /\ policies[obj.policy].follow
    IN [obj EXCEPT !.placement = placement, !.follow = follow,
            !.turn = IF placement = obj.placement /\ follow = obj.follow THEN @ ELSE "after"]

(* The decisions that the orders of the clusters lead to. *)
Decisions(obj) == {computeSchedulingAnnotations(obj, order) : order \in SetToSeqs(Joined)}

(* Reconciling the object may change nothing. *)
UpToDate(obj) == \E d \in Decisions(obj) : ~d.changed /\ Recorded(obj, d) = obj

Begin == queued /\ run = None /\ queued' = FALSE
         /\ UNCHANGED <<fed, cached, fresh, policies, clusters, skipped, env>>

(* reconcile, prepareToSchedule: the object is left alone, *)
LeaveAlone ==
    /\ Begin
    /\ Works(cached) => UpToDate(cached)
    /\ UNCHANGED run

(* or its annotations are brought up to date without scheduling, *)
SkipScheduling ==
    /\ Begin
    /\ Works(cached)
    /\ \E d \in Decisions(cached) :
        /\ ~d.changed \/ cached.noSched
        /\ Recorded(cached, d) # cached
        /\ run' = [obj |-> Recorded(cached, d), skip |-> d.changed, fresh |-> fresh]

(* or it is scheduled. *)
ScheduleObject ==
    /\ Begin
    /\ Works(cached) /\ ~cached.noSched
    /\ \E d \in Decisions(cached) : \E S \in schedule(cached) :
        /\ d.changed
        /\ run' = [obj |-> applySchedulingResult(Recorded(cached, d), S), skip |-> FALSE, fresh |-> fresh]

Reconcile == LeaveAlone \/ SkipScheduling \/ ScheduleObject

(* Mutant: the update ignores the resource version. *)
PersistBlindly ==
    /\ run # None
    /\ run' = None
    /\ fed' = run.obj /\ fresh' = FALSE
    /\ skipped' = (run.skip \/ (skipped /\ run.obj.seen = fed.seen))
    /\ UNCHANGED <<cached, policies, clusters, queued, env>>

(* The update: a conflict, like any error, brings the key back. *)
Persist ==
    /\ run # None
    /\ run' = None
    /\ IF run.fresh
       THEN /\ fed' = run.obj /\ fresh' = FALSE
            /\ skipped' = (run.skip \/ (skipped /\ run.obj.seen = fed.seen))
            /\ UNCHANGED queued
       ELSE /\ queued' = TRUE
            /\ UNCHANGED <<fed, fresh, skipped>>
    /\ UNCHANGED <<cached, policies, clusters, env>>

PersistFails ==
    /\ run # None /\ faults < MaxFaults
    /\ run' = None /\ queued' = TRUE
    /\ faults' = faults + 1
    /\ UNCHANGED <<fed, cached, fresh, policies, clusters, skipped, unfit, edits>>

(* After a restart every object is new to the informers. *)
Restart ==
    /\ faults < MaxFaults
    /\ run' = None /\ queued' = TRUE
    /\ cached' = fed /\ fresh' = TRUE
    /\ faults' = faults + 1
    /\ UNCHANGED <<fed, policies, clusters, skipped, unfit, edits>>

Deliver ==
    /\ ~fresh
    /\ cached' = fed /\ fresh' = TRUE
    /\ queued' = TRUE
    /\ UNCHANGED <<fed, policies, clusters, run, skipped, env>>

-----------------------------------------------------------------------------
(* The environment. *)

Edit == edits < MaxEdits /\ edits' = edits + 1

(* Somebody else writes the object: a write from an older copy conflicts. *)
Write(obj) ==
    /\ fed' = obj /\ fresh' = FALSE
    /\ run' = IF run = None THEN None ELSE [run EXCEPT !.fresh = FALSE]
    /\ UNCHANGED <<cached, policies, clusters, queued, skipped, unfit, faults>>

(* A user changes the source object, and the federate controller passes    *)
(* the change on with all controllers pending.                             *)
ChangeObject ==
    /\ Edit
    /\ LET changed == [fed EXCEPT !.turn = "before"]
       IN \/ Write([changed EXCEPT !.input = 1 - @])
          \/ Write([changed EXCEPT !.noSched = ~@])
          \/ \E p \in (Policy \cup {""}) \ {fed.policy} : Write([changed EXCEPT !.policy = p])

(* The controllers before or after the scheduler are done. *)
OthersFinish ==
    /\ fed.turn \in {"before", "after"}
    /\ Write([fed EXCEPT !.turn = IF @ = "before" THEN "mine" ELSE "done"])
    /\ UNCHANGED edits

(* enqueueFederatedObjectsForPolicy finds the objects in the cache. *)
ChangePolicy ==
    /\ Edit
    /\ \E p \in Policy :
        /\ \/ \E spec \in Contents : policies' = [q \in DOMAIN policies \cup {p} |->
                                                    IF q = p THEN spec ELSE policies[q]]
           \/ policies' = [q \in DOMAIN policies \ {p} |-> policies[q]]
        /\ policies' # policies
        /\ queued' = (queued \/ cached.policy = p)
    /\ UNCHANGED <<fed, cached, fresh, clusters, run, unfit, skipped, faults>>

(* Mutant: only new and removed clusters are noticed. *)
NoticesMembership(old, new) == old = None \/ new = None

(* The handler passes on new and removed clusters, and changes of labels,  *)
(* taints or served APIs; enqueueFederatedObjectsForCluster passes over a  *)
(* cluster that is not joined.                                             *)
Notices(old, new) ==
    /\ IF new = None THEN old.joined ELSE new.joined
    /\ \/ old = None \/ new = None
       \/ old.label # new.label \/ old.taints # new.taints \/ old.api # new.api

SetCluster(c, new) ==
    LET old == IF c \in DOMAIN clusters THEN clusters[c] ELSE None
    IN /\ clusters' = IF new = None THEN [d \in DOMAIN clusters \ {c} |-> clusters[d]]
                      ELSE [d \in DOMAIN clusters \cup {c} |-> IF d = c THEN new ELSE clusters[d]]
       /\ queued' = (queued \/ (cached.policy # "" /\ Notices(old, new)))
       /\ UNCHANGED <<fed, cached, fresh, policies, run, skipped, faults>>

Register(c) ==
    /\ c \notin DOMAIN clusters /\ Edit
    /\ SetCluster(c, [joined |-> FALSE, label |-> "a", taints |-> {}, api |-> "unknown",
                      ready |-> FALSE, deleting |-> FALSE])
    /\ UNCHANGED unfit

(* The federated cluster controller joins the cluster, then collects its   *)
(* status.                                                                 *)
Join(c) ==
    /\ c \in DOMAIN clusters /\ ~clusters[c].joined
    /\ SetCluster(c, [clusters[c] EXCEPT !.joined = TRUE])
    /\ UNCHANGED <<unfit, edits>>

Collect(c) ==
    /\ c \in Joined /\ clusters[c].api = "unknown"
    /\ \E a \in {"served", "missing"} :
        SetCluster(c, [clusters[c] EXCEPT !.api = a, !.ready = TRUE])
    /\ UNCHANGED <<unfit, edits>>

ChangeCluster(c) ==
    /\ c \in Joined /\ clusters[c].api # "unknown" /\ Edit
    /\ \/ /\ \/ SetCluster(c, [clusters[c] EXCEPT !.label = IF @ = "a" THEN "b" ELSE "a"])
             \/ \E t \in {{}, {"NoSchedule"}, {"NoExecute"}} \ {clusters[c].taints} :
                   SetCluster(c, [clusters[c] EXCEPT !.taints = t])
             \/ SetCluster(c, [clusters[c] EXCEPT !.api = IF @ = "served" THEN "missing" ELSE "served"])
             \/ clusters[c].deleting /\ SetCluster(c, None)
          /\ UNCHANGED unfit
       \/ /\ \/ SetCluster(c, [clusters[c] EXCEPT !.ready = ~@])
             \/ ~clusters[c].deleting /\ SetCluster(c, [clusters[c] EXCEPT !.deleting = TRUE])
          /\ unfit' = unfit \cup {c}

-----------------------------------------------------------------------------
Init ==
    /\ fed = [input |-> 0, noSched |-> FALSE, policy |-> CHOOSE p \in Policy : TRUE,
              turn |-> "mine", placement |-> {}, follow |-> FALSE, seen |-> None, deferred |-> {}]
    /\ cached = fed /\ fresh = TRUE
    /\ \E spec \in Start : policies = [p \in {fed.policy} |-> spec]
    /\ \E S \in StartClusters :
        clusters = [c \in S |-> [joined |-> TRUE, label |-> "a", taints |-> {}, api |-> "served",
                                 ready |-> TRUE, deleting |-> FALSE]]
    /\ queued = TRUE
    /\ run = None
    /\ unfit = {} /\ skipped = FALSE
    /\ edits = 0 /\ faults = 0

Next ==
    \/ Reconcile \/ Persist \/ PersistFails \/ Restart \/ Deliver
    \/ ChangeObject \/ OthersFinish \/ ChangePolicy
    \/ \E c \in Cluster : Register(c) \/ Join(c) \/ Collect(c) \/ ChangeCluster(c)

(* SF: the lister's order is random, so an object that is looked at again  *)
(* and again is some time found in the order that leaves it alone.         *)
Fairness ==
    /\ WF_vars(Reconcile \/ Persist) /\ SF_vars(LeaveAlone)
    /\ WF_vars(Deliver) /\ WF_vars(OthersFinish)
    /\ WF_vars(\E c \in Cluster : Join(c) \/ Collect(c))

Spec == Init /\ [][Next]_vars /\ Fairness

-----------------------------------------------------------------------------
(* Properties. *)

IsObject(obj) ==
    /\ obj.policy \in Policy \cup {""} /\ obj.placement \subseteq Cluster
    /\ obj.turn \in {"before", "mine", "after", "done"}
    /\ obj.deferred \in (SUBSET Reasons) \cup {{"sticky"}, {"never"}}
    /\ obj.seen = None \/ /\ obj.seen.content \in Contents \cup {None}
                          /\ IsInjective(obj.seen.clusters)
                          /\ Range(obj.seen.clusters) = DOMAIN obj.seen.taints

(* The object, its cached copy and the one about to be written are         *)
(* well-formed; a write comes from a policy and clusters that existed, and *)
(* reasons are deferred only by an object that was scheduled once.         *)
TypeOK ==
    /\ IsObject(fed) /\ IsObject(cached) /\ (run = None \/ IsObject(run.obj))
    /\ fresh => cached = fed
    /\ run = None \/ (run.fresh => fresh)
    /\ \A obj \in {fed, cached} : obj.deferred # {} => obj.seen # None
    /\ DOMAIN clusters \subseteq Cluster /\ DOMAIN policies \subseteq Policy
    /\ edits \in 0..MaxEdits /\ faults \in 0..MaxFaults

(* The scheduler's write, computed from a copy that may be old by then,    *)
(* never undoes what another wrote to the object meanwhile, and never      *)
(* makes the controllers before the scheduler pass for done.               *)
NothingUndone ==
    [][run # None /\ run' = None =>
          /\ fed'.input = fed.input /\ fed'.noSched = fed.noSched /\ fed'.policy = fed.policy
          /\ fed.turn = "before" => fed'.turn = "before"]_vars

(* Nothing is on its way to the scheduler. *)
Quiet ==
    /\ ~queued /\ run = None /\ fresh
    /\ fed.turn \in {"mine", "done"}
    /\ \A c \in DOMAIN clusters : clusters[c].joined /\ clusters[c].api # "unknown"

(* No change gets lost between the event handlers and the recorded         *)
(* triggers: once the scheduler rests, an object that has a policy was     *)
(* considered against the policy and the clusters as they are.  The        *)
(* handlers enqueue for some changes only, the triggers compare others,    *)
(* and the record outlives conflicts, failed writes and restarts.          *)
QuietIsConsidered ==
    Quiet /\ HasPolicy(fed) => UpToDate(fed)

(* The clusters that the object of this policy must not stay in, and those *)
(* it must be in.                                                          *)
Forbidden(policy, c) ==
    \/ c \notin Joined
    \/ clusters[c].api # "served" \/ clusters[c].label \notin policy.labels
    \/ "NoExecute" \in clusters[c].taints

Required(policy, c) ==
    /\ c \in Joined \ unfit
    /\ ~Forbidden(policy, c) /\ clusters[c].taints = {}

Responsive(policy) ==
    policy.trigger # None /\ ~policy.sticky /\ \A r \in DOMAIN policy.trigger : policy.trigger[r]

(* When a policy enables every trigger and is not sticky, then once the    *)
(* scheduler rests the object is in no cluster that is gone, does not      *)
(* serve the type, is not selected or evicts it, and it is in every        *)
(* cluster that is acceptable and always was, up to the bound; without a   *)
(* policy it is nowhere.  (Triggers recorded under the no-scheduling       *)
(* annotation are excluded: they are never made up for.)                   *)
PlacedRight ==
    Quiet /\ ~skipped =>
        /\ HasPolicy(fed) /\ Responsive(policies[fed.policy]) =>
              LET policy == policies[fed.policy]
              IN /\ \A c \in fed.placement : ~Forbidden(policy, c)
                 /\ Cardinality(fed.placement) <= policy.max
                 /\ Cardinality(fed.placement) < policy.max =>
                       \A c \in Cluster : Required(policy, c) => c \in fed.placement
        /\ fed.policy = "" => fed.placement = {}

(* The scheduler comes to rest after the last change: the writes it makes  *)
(* itself, which wake it again, and the deferred reasons it records, do    *)
(* not keep it going.                                                      *)
Drains == <>[]Quiet
=============================================================================
