----------------------------- MODULE MCScheduler -----------------------------
(* The scheduler with two clusters and two policies of the same name.      *)
EXTENDS Scheduler

MCPolicy == {"ns/p", "p"}

MCNames == [p \in MCPolicy |-> "p"]

All == [content |-> TRUE, labels |-> TRUE, apis |-> TRUE, joined |-> TRUE]

(* What the API server defaults to. *)
OnContent == [All EXCEPT !.labels = FALSE, !.apis = FALSE, !.joined = FALSE]

Content(labels, max, trigger, sticky) ==
    [labels |-> labels, max |-> max, trigger |-> trigger, sticky |-> sticky, follow |-> TRUE]

(* A policy that follows every change, one that is bounded to one cluster, *)
(* one with the default triggers, one that never reschedules and a sticky  *)
(* one.                                                                    *)
MCContents ==
    {Content({"a", "b"}, 9, All, FALSE), Content({"a"}, 1, All, FALSE),
     [Content({"a"}, 9, OnContent, FALSE) EXCEPT !.follow = FALSE],
     Content({"a"}, 9, None, FALSE), Content({"b"}, 9, All, TRUE)}

MCStart == {spec \in MCContents : spec.max = 9 /\ (spec.trigger = All => ~spec.sticky)}
MCStartClusters == {{"c1"}, {"c1", "c2"}}
==============================================================================
