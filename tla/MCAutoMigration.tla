--------------------------- MODULE MCAutoMigration ---------------------------
EXTENDS AutoMigration, TLC

CONSTANTS c1, c2

Clusters == {c1, c2}
Hashes == c1 :> 1 @@ c2 :> 2
Both(v) == c1 :> v @@ c2 :> v
None == Both(Absent)

Base ==
    [binpack |-> FALSE, dynamic |-> FALSE, avoid |-> TRUE, keep |-> FALSE, order |-> <<c1, c2>>,
     weight |-> Both(1), min |-> Both(0), max |-> None, limit |-> None]

PolicySet ==
    {Base,
     [Base EXCEPT !.keep = TRUE],
     [Base EXCEPT !.avoid = FALSE],
     [Base EXCEPT !.dynamic = TRUE],
     [Base EXCEPT !.weight = c1 :> 3 @@ c2 :> 1, !.max = c1 :> 2 @@ c2 :> Absent],
     [Base EXCEPT !.limit = c1 :> 1 @@ c2 :> Absent],
     [Base EXCEPT !.binpack = TRUE],
     [Base EXCEPT !.binpack = TRUE, !.keep = TRUE],
     [Base EXCEPT !.binpack = TRUE, !.avoid = FALSE]}

Some == c1 :> 1 @@ c2 :> 2

ScenarioSet ==
    [policy : PolicySet, prompt : {TRUE}, edits : {2}, capacity : {Some}]
        \cup [policy : PolicySet, prompt : {TRUE}, edits : {1},
              capacity : {Both(3), Both(1), c1 :> 0 @@ c2 :> 3}]
        \cup [policy : {[Base EXCEPT !.binpack = TRUE], [Base EXCEPT !.min = Some]}, prompt : {TRUE},
              edits : {3}, capacity : {Both(2)}]
        \cup [policy : {p \in PolicySet : p.avoid /\ ~p.keep /\ ~p.dynamic}, prompt : {FALSE},
              edits : {1}, capacity : {Some}]
=============================================================================
