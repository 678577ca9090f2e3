------------------------- MODULE SchedulingFramework -------------------------
(***************************************************************************)
(* The scheduling algorithm for objects that are duplicated over clusters: *)
(* the default filter plugins but one, the selection of clusters and the   *)
(* sticky clusters (core/generic_scheduler.go, framework/runtime and the   *)
(* plugins).  Dividing replicas is in Planner and BinPack.                 *)
(*                                                                         *)
(* A cluster is a record of what the plugins read, a unit is the part of   *)
(* the scheduling unit they read: where the object is now, the labels that *)
(* the policy selects, its bound on clusters and whether it is sticky.     *)
(***************************************************************************)
EXTENDS Integers, FiniteSets

Effects == {"NoSchedule", "NoExecute"}

(* A cluster that has the object only loses it to a NoExecute taint. *)
TaintToleration(unit, c, cluster) ==
    cluster.taints \cap (IF c \in unit.current THEN {"NoExecute"} ELSE Effects) = {}

(* A cluster that has the object keeps it while it is not ready. *)
ClusterReady(unit, c, cluster) == c \in unit.current \/ cluster.ready

APIResources(cluster) == cluster.api = "served"

ClusterTerminating(cluster) == ~cluster.deleting

(* Affinity and placement of the policy. *)
ClusterAffinity(unit, cluster) == cluster.label \in unit.labels

(* The default filters, for an object without an applied custom migration: *)
(* ClusterEvicted, which keeps out the clusters that such a migration      *)
(* declares unavailable, is left out.                                      *)
RunFilterPlugins(unit, c, cluster) ==
    /\ APIResources(cluster)
    /\ TaintToleration(unit, c, cluster)
    /\ ClusterAffinity(unit, cluster)
    /\ ClusterReady(unit, c, cluster)
    /\ ClusterTerminating(cluster)

findClustersThatFitWorkload(unit, clusters) ==
    {c \in DOMAIN clusters : RunFilterPlugins(unit, c, clusters[c])}

(* Any clusters may have the best scores. *)
SelectClusters(unit, feasible) ==
    {S \in SUBSET feasible :
        Cardinality(S) = IF unit.max < Cardinality(feasible) THEN unit.max ELSE Cardinality(feasible)}

(* The possible results.  That no cluster fits is a result too: none.      *)
ScheduleResults(unit, clusters) ==
    IF unit.sticky /\ unit.current # {} THEN {unit.current}
    ELSE SelectClusters(unit, findClustersThatFitWorkload(unit, clusters))
=============================================================================
