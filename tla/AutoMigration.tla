---------------------------- MODULE AutoMigration ----------------------------
(***************************************************************************)
(* The feedback loop of automigration, for one workload: the scheduler     *)
(* divides the replicas with one of the two planners, the sync controller  *)
(* brings the counts to the member clusters, pods get scheduled or stay    *)
(* pending, the automigration controller writes what it sees into an       *)
(* annotation of the federated object, and the annotation is one of the    *)
(* triggers that make the scheduler run again.                             *)
(*                                                                         *)
(* Each controller step is atomic: a write that meets a conflict is tried  *)
(* again from a fresh copy.  Each controller is woken by every change it   *)
(* reads: target objects, pod conditions and the threshold timer for       *)
(* automigration, the federated object and clusters for the scheduler.     *)
(***************************************************************************)
EXTENDS BinPack

CONSTANTS
    Scenarios,    \* where to start: the policy with the cluster order it leads
                  \* to, the capacities, and whether changes always reach the
                  \* pods within the delay of the automigration controller,
                  \* and a bound on the changes of the environment
    MaxReplicas   \* bound on the replicas a user asks for

(* No cluster twice. *)
IsOrder(order) == \A i, j \in DOMAIN order : order[i] = order[j] => i = j

Limit == Nat \cup {Absent}

Policy ==
    [binpack : BOOLEAN, dynamic : BOOLEAN, avoid : BOOLEAN, keep : BOOLEAN, order : Seq(Cluster),
     weight : [Cluster -> Nat], min : [Cluster -> Nat],
     max : [Cluster -> Limit], limit : [Cluster -> Limit]]

ASSUME AutoMigrationAssumption ==
    /\ MaxReplicas \in Nat
    /\ \A s \in Scenarios :
        /\ s.policy \in Policy /\ IsOrder(s.policy.order)
        /\ s.capacity \in [Cluster -> Nat] /\ s.prompt \in BOOLEAN /\ s.edits \in Nat

VARIABLES
    policy,     \* the propagation policy of the object
    prompt,     \* changes reach the pods before automigration looks again
    total,      \* replicas of the template
    plan,       \* replicas per cluster in the placement, 0 when not placed
    info,       \* the automigration annotation: est and scheduled
    seen,       \* the scheduling triggers the last run recorded
    spec,       \* replicas of the member object, 0 when there is none
    sched,      \* its pods that are scheduled
    fresh,      \* its pending pods below the unschedulable threshold
    ripe,       \* its pending pods beyond it
    capacity,   \* how many pods fit into the cluster
    status,     \* the resources in the status of the FederatedCluster
    tainted,    \* clusters with a NoSchedule taint that is not tolerated
    edits       \* changes of the environment still to come

member == <<spec, sched, fresh, ripe>>
vars == <<policy, prompt, total, plan, info, seen, member, capacity, status, tainted, edits>>

NoInfo == [est |-> NoLimit, scheduled |-> NoLimit]

Pods(c) == sched[c] + fresh[c] + ripe[c]

-----------------------------------------------------------------------------
(* What automigration sees. *)

(* A placed cluster whose member object exists. *)
Visible(c) == plan[c] > 0 /\ spec[c] > 0

(* Pods that were not created yet count as schedulable.  No estimate is    *)
(* written for a cluster that can take all it should run.                  *)
estimateCapacity(c) ==
    LET estimate == (IF Pods(c) >= spec[c] THEN Pods(c) ELSE spec[c]) - ripe[c]
    IN  IF ~Visible(c) \/ Pods(c) = sched[c] \/ estimate >= spec[c] THEN Absent
        ELSE IF estimate < 0 THEN 0 ELSE estimate

Observed ==
    [est       |-> [c \in Cluster |-> estimateCapacity(c)],
     scheduled |-> [c \in Cluster |-> IF Visible(c) THEN sched[c] ELSE Absent]]

-----------------------------------------------------------------------------
(* What the scheduler computes. *)

SumWeight == 1000

Rounded(a, b) == (2 * a + b) \div (2 * b)

(* The weight of a cluster is at most 1.4 times its share of all resources. *)
CalcWeightLimit(C) ==
    LET sum == SumOf([c \in C |-> status[c].allocatable], C)
    IN [c \in C |-> IF sum = 0 THEN Rounded(SumWeight, Cardinality(C))
                    ELSE Rounded(status[c].allocatable * SumWeight * 14, sum * 10)]

(* Weights by what is available, scaled to SumWeight; the rounding error   *)
(* goes to the heaviest cluster, and to any of them in a tie.  When no     *)
(* cluster keeps a weight the code divides by zero: every weight becomes   *)
(* the smallest int64 and the planner, seeing a sum that is not positive,  *)
(* distributes nothing.                                                    *)
AvailableToPercentage(C, tie) ==
    LET available == [c \in C |-> status[c].available]
        sum == SumOf(available, C)
        limit == CalcWeightLimit(C)
        tmp == [c \in C |-> Least2(Rounded(available[c] * SumWeight, sum), limit[c])]
        sumTmp == SumOf(tmp, C)
        scaled == [c \in C |-> Rounded(tmp[c] * SumWeight, sumTmp)]
        heaviest == {c \in C : \A d \in C : scaled[d] <= scaled[c]}
        maxCluster == IF tie \in heaviest THEN tie ELSE CHOOSE c \in heaviest : TRUE
    IN  IF sum = 0 THEN [c \in C |-> Rounded(SumWeight, Cardinality(C))]
        ELSE IF sumTmp = 0 THEN [c \in C |-> -SumWeight]
        ELSE [scaled EXCEPT ![maxCluster] = @ + SumWeight - SumOf(scaled, C)]

(* The filters keep a tainted cluster only when it is placed already. *)
Eligible == {c \in Cluster : c \in tainted => plan[c] > 0}

(* Mutant: taints are left to the filters. *)
clusterPreferencesUntainted(tie) ==
    [c \in Eligible |->
        [min |-> policy.min[c], max |-> policy.max[c], weight |-> policy.weight[c]]]

(* A cluster with an untolerated NoSchedule taint keeps at most what it has. *)
clusterPreferences(tie) ==
    LET weight == IF policy.dynamic THEN AvailableToPercentage(Eligible, tie) ELSE policy.weight
    IN [c \in Eligible |->
            [min    |-> policy.min[c],
             max    |-> IF c \in tainted THEN Cut(plan[c], policy.max[c]) ELSE policy.max[c],
             weight |-> weight[c]]]

(* The placement: the overflow is added to the plan. *)
Replicas(result) ==
    [c \in Cluster |-> IF c \in Eligible THEN result.plan[c] + result.overflow[c] ELSE 0]

ReplicaScheduling(tie) ==
    Replicas(IF policy.binpack
             THEN BinPackPlan(policy.order, clusterPreferences(tie), total,
                              {c \in Cluster : plan[c] > 0}, plan, info.est, policy.limit,
                              policy.avoid, policy.keep, info.scheduled)
             ELSE Plan(clusterPreferences(tie), total, plan, info.est, policy.limit, policy.avoid,
                       policy.keep))

(* Mutant: the annotation is no trigger. *)
TriggersInfoless == [total |-> total, info |-> NoInfo, tainted |-> tainted]

Triggers == [total |-> total, info |-> info, tainted |-> tainted]

-----------------------------------------------------------------------------
Init ==
    /\ \E s \in Scenarios :
        /\ policy = s.policy /\ capacity = s.capacity
        /\ prompt = s.prompt /\ edits = s.edits
    /\ total = MaxReplicas
    /\ plan = Zero
    /\ info = NoInfo
    /\ seen = [total |-> Absent]
    /\ spec = Zero /\ sched = Zero /\ fresh = Zero /\ ripe = Zero
    /\ status = [c \in Cluster |-> [allocatable |-> capacity[c], available |-> capacity[c]]]
    /\ tainted = {}

(* The scheduler runs when a trigger differs from the recorded one. *)
Schedule ==
    /\ seen # Triggers
    /\ \E tie \in Cluster : plan' = ReplicaScheduling(tie)
    /\ seen' = Triggers
    /\ UNCHANGED <<policy, prompt, total, info, member, capacity, status, tainted, edits>>

(* The counts of the placement have reached the clusters and their pods.  *)
Propagated ==
    \A c \in Cluster :
        /\ spec[c] = plan[c] /\ Pods(c) = spec[c]
        /\ fresh[c] + ripe[c] > 0 => sched[c] >= capacity[c]

(* One reconcile of the automigration controller. *)
Migrate ==
    /\ info # Observed
    /\ prompt => Propagated
    /\ info' = Observed
    /\ UNCHANGED <<policy, prompt, total, plan, seen, member, capacity, status, tainted, edits>>

(* The pods of a cluster that not all run cannot be listed: a reconcile    *)
(* leaves the cluster out, and is tried again.                             *)
MigratePartly(c) ==
    /\ edits > 0
    /\ prompt => Propagated
    /\ Visible(c) /\ Pods(c) # sched[c]
    /\ info' = [est |-> [Observed.est EXCEPT ![c] = Absent],
                scheduled |-> [Observed.scheduled EXCEPT ![c] = Absent]]
    /\ edits' = edits - 1
    /\ UNCHANGED <<policy, prompt, total, plan, seen, member, capacity, status, tainted>>

(* The sync controller brings the count of the placement to a cluster. *)
Sync(c) ==
    /\ spec[c] # plan[c]
    /\ spec' = [spec EXCEPT ![c] = plan[c]]
    /\ UNCHANGED <<policy, prompt, total, plan, info, seen, sched, fresh, ripe, capacity, status, tainted, edits>>

(* The workload controller of the cluster creates what is missing, and     *)
(* deletes pending pods before running ones.                               *)
AdjustPods(c) ==
    /\ Pods(c) # spec[c]
    /\ IF Pods(c) < spec[c]
       THEN /\ fresh' = [fresh EXCEPT ![c] = @ + spec[c] - Pods(c)]
            /\ UNCHANGED <<ripe, sched>>
       ELSE /\ sched' = [sched EXCEPT ![c] = Least2(@, spec[c])]
            /\ ripe'  = [ripe EXCEPT ![c] = Least2(@, spec[c] - sched'[c])]
            /\ fresh' = [fresh EXCEPT ![c] = spec[c] - sched'[c] - ripe'[c]]
    /\ UNCHANGED <<policy, prompt, total, plan, info, seen, spec, capacity, status, tainted, edits>>

(* The pending pods that fit get a node, the older ones first. *)
RunPods(c) ==
    /\ sched[c] < capacity[c] /\ fresh[c] + ripe[c] > 0
    /\ sched' = [sched EXCEPT ![c] = Least2(Pods(c), capacity[c])]
    /\ ripe'  = [ripe EXCEPT ![c] = @ - Least2(@, sched'[c] - sched[c])]
    /\ fresh' = [fresh EXCEPT ![c] = Pods(c) - sched'[c] - ripe'[c]]
    /\ UNCHANGED <<policy, prompt, total, plan, info, seen, spec, capacity, status, tainted, edits>>

(* Pods that have been pending for the threshold. *)
Ripen(c) ==
    /\ fresh[c] > 0 /\ sched[c] >= capacity[c]
    /\ ripe'  = [ripe EXCEPT ![c] = @ + fresh[c]]
    /\ fresh' = [fresh EXCEPT ![c] = 0]
    /\ UNCHANGED <<policy, prompt, total, plan, info, seen, spec, sched, capacity, status, tainted, edits>>

(* The federated cluster controller collects the resources of a cluster,   *)
(* which only the dynamic weights read.                                    *)
Resources(c) == [allocatable |-> capacity[c], available |-> capacity[c] - sched[c]]

CollectStatus(c) ==
    /\ policy.dynamic /\ status[c] # Resources(c)
    /\ status' = [status EXCEPT ![c] = Resources(c)]
    /\ UNCHANGED <<policy, prompt, total, plan, info, seen, member, capacity, tainted, edits>>

Scale ==
    /\ edits > 0
    /\ \E n \in 1..MaxReplicas \ {total} : total' = n
    /\ edits' = edits - 1
    /\ UNCHANGED <<policy, prompt, plan, info, seen, member, capacity, status, tainted>>

(* Nodes come or go; pods that lose their node are created anew. *)
ChangeCapacity(c) ==
    /\ edits > 0
    /\ \E k \in 0..MaxReplicas \ {capacity[c]} :
        /\ capacity' = [capacity EXCEPT ![c] = k]
        /\ sched' = [sched EXCEPT ![c] = Least2(@, k)]
        /\ fresh' = [fresh EXCEPT ![c] = @ + sched[c] - sched'[c]]
    /\ edits' = edits - 1
    /\ UNCHANGED <<policy, prompt, total, plan, info, seen, spec, ripe, status, tainted>>

Taint(c) ==
    /\ edits > 0
    /\ tainted' = IF c \in tainted THEN tainted \ {c} ELSE tainted \cup {c}
    /\ edits' = edits - 1
    /\ UNCHANGED <<policy, prompt, total, plan, info, seen, member, capacity, status>>

Controllers ==
    \/ Schedule
    \/ Migrate
    \/ \E c \in Cluster : Sync(c) \/ AdjustPods(c) \/ RunPods(c) \/ Ripen(c) \/ CollectStatus(c)

Next ==
    \/ Controllers
    \/ Scale
    \/ \E c \in Cluster : MigratePartly(c) \/ ChangeCapacity(c) \/ Taint(c)

(* Every controller and every member cluster keeps working.  Only Schedule *)
(* writes the recorded triggers, so fairness to it is fairness to that     *)
(* write.                                                                  *)
Fairness ==
    /\ WF_seen(seen' = Triggers) /\ WF_vars(Migrate)
    /\ \A c \in Cluster :
        /\ WF_vars(Sync(c)) /\ WF_vars(AdjustPods(c)) /\ WF_vars(RunPods(c))
        /\ WF_vars(Ripen(c)) /\ WF_vars(CollectStatus(c))

Spec == Init /\ [][Next]_vars /\ Fairness

-----------------------------------------------------------------------------
(* Nothing is left to do until the environment changes. *)
Quiet ==
    /\ seen = Triggers /\ info = Observed
    /\ Propagated /\ fresh = Zero

(* No planner ever returns a negative count, no estimate is negative.      *)
TypeOK ==
    /\ plan \in [Cluster -> Nat] /\ spec \in [Cluster -> Nat]
    /\ sched \in [Cluster -> Nat] /\ fresh \in [Cluster -> Nat] /\ ripe \in [Cluster -> Nat]
    /\ \A c \in Cluster : sched[c] <= capacity[c]
    /\ info.est \in [Cluster -> Nat \cup {Absent}] /\ tainted \subseteq Cluster

Room(c) == Cut(Cut(capacity[c], policy.max[c]), policy.limit[c])

Fits == Least2(total, SumOf([c \in Cluster |-> Room(c)], Cluster))

(* The policy lets replicas that are stuck move, and its weights do not    *)
(* depend on resources, whose changes are no trigger.                      *)
Moves == policy.avoid /\ ~policy.keep /\ ~policy.dynamic /\ tainted = {}

(* The annotation describes the pods of the present plan. *)
Current == info = Observed /\ Propagated

(* When estimateCapacity and the planners have settled, every replica that *)
(* has room in some cluster runs there, whatever stale estimates were used *)
(* on the way, and the extra replicas that planners let overflow are gone  *)
(* once all replicas run.  The packing planner has settled when one more   *)
(* run of it would change nothing: nothing triggers that run.              *)
RoomIsUsed ==
    Quiet /\ Moves /\ (policy.binpack => \A tie \in Cluster : plan = ReplicaScheduling(tie)) =>
        /\ SumOf(sched, Cluster) = Fits
        /\ Fits = total => SumOf(plan, Cluster) = total

(* With avoidDisruption no run of the planners takes a replica that fits   *)
(* its cluster from there while another cluster grows, unless the policy   *)
(* lets unschedulable replicas overflow where they are.                    *)
NoMove ==
    [][policy.avoid /\ ~policy.keep /\ ~policy.dynamic /\ (policy.binpack => Current) =>
        ~ \E c, d \in Cluster :
            /\ plan'[c] < Cut(Cut(Cut(plan[c], info.est[c]), policy.limit[c]), policy.max[c])
            /\ plan'[d] > plan[d]]_vars

(* A cluster with an untolerated NoSchedule taint and no minimum never     *)
(* gets new replicas, neither from the planners nor as overflow.           *)
TaintedShrinks ==
    [][(policy.binpack => Current) =>
        \A c \in tainted : policy.min[c] = 0 => plan'[c] <= plan[c]]_vars

(* Unschedulable replicas stay where they are, or there is room for all in *)
(* clusters that may grow and the weights do not depend on it.             *)
Enough == policy.keep \/ ~policy.avoid \/ (Fits = total /\ Moves)

(* Rescheduling and automigration do not chase each other for ever (what   *)
(* Plan avoids by keeping unschedulable replicas when disruption is        *)
(* allowed), as long as a change has reached the pods when automigration   *)
(* looks again.                                                            *)
Settles == prompt /\ <>[]Enough => <>[]Quiet
=============================================================================
