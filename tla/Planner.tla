------------------------------- MODULE Planner -------------------------------
(***************************************************************************)
(* planner/planner.go: the replica planner that spreads replicas over      *)
(* clusters by weight, within minima, maxima and two kinds of capacity.    *)
(*                                                                         *)
(* A map from clusters to int64 is a function on all clusters, Absent      *)
(* where the map has no entry.  An order is a sequence of clusters without *)
(* repetition; a loop over it is a recursive function of the number of     *)
(* clusters done, and leaves out the clusters that have no preference.     *)
(***************************************************************************)
EXTENDS Integers, Sequences, FiniteSets

CONSTANTS
    Cluster,     \* the member clusters
    Hash,        \* fnv hash of cluster name and object key, per cluster
    Absent       \* what a map holds for a key it has no entry for

ASSUME PlannerAssumption ==
    /\ IsFiniteSet(Cluster)
    /\ Hash \in [Cluster -> Nat]
    /\ Absent \notin Int

(* The sum of f over a set of clusters. *)
SumOf(f, S) ==
    LET sum[T \in SUBSET Cluster] ==
            IF T = {} THEN 0 ELSE f[CHOOSE c \in T : TRUE] + sum[T \ {CHOOSE c \in T : TRUE}]
    IN  sum[S]

Least2(a, b) == IF a < b THEN a ELSE b

(* n, or the limit when there is one and it is smaller. *)
Cut(n, limit) == IF limit = Absent THEN n ELSE Least2(n, limit)

Zero == [c \in Cluster |-> 0]

NoLimit == [c \in Cluster |-> Absent]

-----------------------------------------------------------------------------
(* Spreading. *)

(* Decreasing weight, then increasing hash. *)
Before(prefs, a, b) ==
    \/ prefs[a].weight > prefs[b].weight
    \/ prefs[a].weight = prefs[b].weight /\ Hash[a] < Hash[b]

getNamedPreferences(prefs) ==
    CHOOSE order \in [1 .. Cardinality(DOMAIN prefs) -> DOMAIN prefs] :
        \A i, j \in DOMAIN order :
            i < j => order[i] # order[j] /\ ~Before(prefs, order[j], order[i])

(* A plan under construction: what each cluster has, the replicas that its *)
(* estimated capacity turned away, and the replicas not placed yet.        *)
EmptyPlan(total) == [plan |-> Zero, overflow |-> Zero, remaining |-> total]

(* A cluster gets its minimum, within its capacities. *)
AssignMin(st, c, prefs, est, lim) ==
    LET wanted == Cut(Least2(prefs[c].min, st.remaining), lim[c])
        got    == Cut(wanted, est[c])
    IN [plan      |-> [st.plan EXCEPT ![c] = got],
        overflow  |-> [st.overflow EXCEPT ![c] = wanted - got],
        remaining |-> st.remaining - got]

AssignMins(order, prefs, est, lim, total) ==
    LET after[i \in 0 .. Len(order)] ==
            IF i = 0 THEN EmptyPlan(total)
            ELSE IF order[i] \notin DOMAIN prefs THEN after[i - 1]
            ELSE AssignMin(after[i - 1], order[i], prefs, est, lim)
    IN  after[Len(order)]

(* One cluster's turn in a pass of the loop: its share of what the pass    *)
(* distributes, rounded up, cut at the maximum and at both capacities.  A  *)
(* cluster that is cut is full and has no turn in the next pass.           *)
Share(st, c, prefs, est, lim, due, weightSum) ==
    LET start  == st.plan[c]
        extra  == Least2((due * prefs[c].weight + weightSum - 1) \div weightSum, st.remaining)
        capped == Cut(Cut(start + extra, prefs[c].max), lim[c])
        got    == Cut(capped, est[c])
    IN [plan      |-> [st.plan EXCEPT ![c] = got],
        overflow  |-> [st.overflow EXCEPT ![c] = @ + (capped - got)],
        remaining |-> st.remaining - (got - start),
        open      |-> IF got = start + extra THEN st.open ELSE st.open \ {c},
        modified  |-> st.modified \/ got > start]

(* A pass over the clusters that are not full yet. *)
Pass(st, order, prefs, est, lim, weightSum) ==
    LET after[i \in 0 .. Len(order)] ==
            IF i = 0 THEN [st EXCEPT !.modified = FALSE]
            ELSE IF order[i] \notin st.open THEN after[i - 1]
            ELSE Share(after[i - 1], order[i], prefs, est, lim, st.remaining, weightSum)
    IN  after[Len(order)]

WeightSum(prefs, S) == SumOf([c \in DOMAIN prefs |-> prefs[c].weight], S)

DistributeOnce(st, order, prefs, est, lim) ==
    IF st.modified /\ st.remaining > 0 /\ WeightSum(prefs, st.open) > 0
    THEN Pass(st, order, prefs, est, lim, WeightSum(prefs, st.open)) ELSE st

(* A pass places everything or fills a cluster, so there are no more       *)
(* passes than clusters.                                                   *)
Distribute(st, order, prefs, est, lim) ==
    LET after[i \in 0 .. Len(order)] ==
            IF i = 0
            THEN [plan |-> st.plan, overflow |-> st.overflow, remaining |-> st.remaining,
                  open |-> DOMAIN prefs, modified |-> TRUE]
            ELSE DistributeOnce(after[i - 1], order, prefs, est, lim)
    IN  after[Len(order)]

(* Unless the unschedulable replicas stay where they are, the overflow is  *)
(* cut at what no cluster took.                                            *)
Trimmed(overflow, remaining) ==
    [c \in Cluster |-> IF Least2(overflow[c], remaining) > 0
                       THEN Least2(overflow[c], remaining) ELSE 0]

getDesiredPlan(prefs, est, lim, total, keep) ==
    LET order == getNamedPreferences(prefs)
        st    == Distribute(AssignMins(order, prefs, est, lim, total), order, prefs, est, lim)
    IN [plan     |-> st.plan,
        overflow |-> IF keep THEN st.overflow ELSE Trimmed(st.overflow, st.remaining)]

(* Mutant: scaling up moves to the desired plan. *)
scaleUpRebalanced(prefs, current, desired, count) == desired

(* Only the clusters below their desired count grow, by at most what is    *)
(* missing in total.                                                       *)
scaleUp(prefs, current, desired, count) ==
    LET growing == {c \in DOMAIN prefs : desired[c] > current[c]}
        extra   == getDesiredPlan(
                       [c \in growing |->
                           [min |-> 0, weight |-> desired[c] - current[c],
                            max |-> IF prefs[c].max = Absent THEN Absent
                                    ELSE prefs[c].max - current[c]]],
                       NoLimit, NoLimit, count, FALSE).plan
    IN [c \in Cluster |-> current[c] + extra[c]]

(* Mutant: the current count does not bound what a cluster gives up. *)
scaleDownUnbounded(prefs, current, desired, count) ==
    LET shrinking == {c \in DOMAIN prefs : desired[c] < current[c]}
    IN [c \in Cluster |-> IF c \in shrinking THEN current[c] - 2 * count ELSE current[c]]

(* Only the clusters above their desired count shrink. *)
scaleDown(prefs, current, desired, count) ==
    LET shrinking == {c \in DOMAIN prefs : desired[c] < current[c]}
        less      == getDesiredPlan(
                         [c \in shrinking |->
                             [min |-> 0, weight |-> current[c] - desired[c], max |-> current[c]]],
                         NoLimit, NoLimit, count, FALSE).plan
    IN [c \in Cluster |-> current[c] - less[c]]

(* What runs now, as far as the capacities allow it. *)
Fitting(prefs, current, est, lim) ==
    [c \in Cluster |-> IF c \in DOMAIN prefs THEN Cut(Cut(current[c], lim[c]), est[c]) ELSE 0]

(* Mutant: the policy alone decides. *)
KeepsAsAsked(avoidDisruption, keepUnschedulable) == keepUnschedulable

(* Without avoidDisruption the unschedulable replicas stay where they are. *)
Keeps(avoidDisruption, keepUnschedulable) == keepUnschedulable \/ ~avoidDisruption

(* From what fits of what runs now towards the desired plan. *)
Rescale(prefs, ok, desired, have, want) ==
    IF have = want THEN ok
    ELSE IF have > want THEN scaleDown(prefs, ok, desired, have - want)
    ELSE scaleUp(prefs, ok, desired, want - have)

AvoidDisruption(prefs, ok, desired) ==
    Rescale(prefs, ok, desired, SumOf(ok, Cluster), SumOf(desired, Cluster))

Replan(prefs, ok, desired, avoidDisruption) ==
    [plan     |-> IF avoidDisruption THEN AvoidDisruption(prefs, ok, desired.plan) ELSE desired.plan,
     overflow |-> desired.overflow]

Plan(prefs, total, current, est, lim, avoidDisruption, keepUnschedulable) ==
    Replan(prefs, Fitting(prefs, current, est, lim),
           getDesiredPlan(prefs, est, lim, total, Keeps(avoidDisruption, keepUnschedulable)),
           avoidDisruption)
=============================================================================
