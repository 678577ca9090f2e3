------------------------------- MODULE Pipeline -------------------------------
(***************************************************************************)
(* What the pending-controllers annotation promises, for one federated     *)
(* object: "The controllers that must run before the source object can be  *)
(* propagated to member clusters.  Each inner slice specifies a step.      *)
(* Step T must complete before step T+1 can commence.  Controllers within  *)
(* each step can execute in parallel" (Controllers of the                  *)
(* FederatedTypeConfig).                                                   *)
(*                                                                         *)
(* A controller turns the template and the results of the controllers of   *)
(* earlier steps into a result of its own.  The federated object may be    *)
(* propagated when no controller is pending.                               *)
(***************************************************************************)
EXTENDS Integers

CONSTANTS
    Controllers,
    Level,       \* the step of each controller, a number
    MaxTemplate, \* bound: versions of the template
    MaxResult    \* bound: versions of a controller's result

VARIABLES
    template,    \* the version of the template
    result,      \* per controller: the version of its result
    pending,     \* the controllers that have to run
    basis        \* per controller: what it last computed its result from

vars == <<template, result, pending, basis>>

Upstream(k) == {u \in Controllers : Level[u] < Level[k]}
Downstream(k) == {d \in Controllers : Level[d] > Level[k]}

(* What a controller computes its result from. *)
Inputs(t, r, k) == [template |-> t, result |-> [u \in Upstream(k) |-> r[u]]]

(* The step whose turn it is. *)
First == {k \in pending : \A j \in pending : Level[k] <= Level[j]}

(* A controller may run in its turn, and at any time once the pipeline is through:
   its policies, or the clusters, may have changed. *)
MayRun(k) == pending = {} \/ k \in First

Init ==
    /\ template = 1
    /\ result = [k \in Controllers |-> 0]
    /\ pending = Controllers
    /\ basis = [k \in Controllers |-> Inputs(0, result, k)]

(* The federate controller writes a newer template, perhaps leaving some versions of
   the source out, and everything starts over. *)
Federate ==
    /\ \E t \in (template + 1) .. MaxTemplate : template' = t
    /\ pending' = Controllers
    /\ UNCHANGED <<result, basis>>

(* Controller k computes its result again.  If it has changed, all later steps have
   to run again, whatever of them was pending. *)
Process(k, changed) ==
    /\ MayRun(k)
    /\ changed => result[k] < MaxResult
    /\ result' = IF changed THEN [result EXCEPT ![k] = @ + 1] ELSE result
    /\ basis' = [basis EXCEPT ![k] = Inputs(template, result, k)]
    /\ pending' = (First \ {k}) \cup (IF changed THEN Downstream(k) ELSE pending \ First)
    /\ UNCHANGED template

Next == Federate \/ \E k \in Controllers, changed \in BOOLEAN : Process(k, changed)

Spec == Init /\ [][Next]_vars

-----------------------------------------------------------------------------
Basis(k) == [template : Nat, result : [Upstream(k) -> Nat]]

TypeOK ==
    /\ template \in Nat
    /\ result \in [Controllers -> Nat]
    /\ pending \subseteq Controllers
    /\ basis = [k \in Controllers |-> basis[k]] \* a function on Controllers
    /\ \A k \in Controllers : basis[k] \in Basis(k)

(* A controller that is not pending has computed its result from the current template
   and the current results of all earlier steps, though controllers run in parallel
   and run again out of turn: so everything the sync controller propagates, once no
   controller is pending, fits together. *)
Settled == \A k \in Controllers \ pending : basis[k] = Inputs(template, result, k)

(* A step begins only when the steps before it are complete. *)
InOrder ==
    [][\A k \in Controllers : basis'[k] # basis[k] =>
          \A u \in Upstream(k) : basis[u] = Inputs(template, result, u)]_vars
=============================================================================
