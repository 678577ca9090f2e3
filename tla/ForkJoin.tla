------------------------------ MODULE ForkJoin ------------------------------
(***************************************************************************)
(* What an operation dispatcher promises its caller, with no channel, no   *)
(* counter and no clock: operations are forked while the join is open, the *)
(* join closes either because nothing is outstanding any more ("joined")   *)
(* or because the caller gave up ("abandoned"), and an operation that is   *)
(* still outstanding when the caller gave up stays with nobody waiting.    *)
(***************************************************************************)
CONSTANT Ops

VARIABLES outstanding, joined

vars == <<outstanding, joined>>

Init ==
    /\ outstanding = {}
    /\ joined = "open"

Fork(op) ==
    /\ joined \in {"open", "abandoned"}
    /\ op \notin outstanding
    /\ outstanding' = outstanding \cup {op}
    /\ UNCHANGED joined

Finish(op) ==
    /\ joined = "open"
    /\ op \in outstanding
    /\ outstanding' = outstanding \ {op}
    /\ UNCHANGED joined

Join ==
    /\ joined = "open"
    /\ outstanding = {}
    /\ joined' = "joined"
    /\ UNCHANGED outstanding

Abandon ==
    /\ joined = "open"
    /\ joined' = "abandoned"
    /\ UNCHANGED outstanding

Next ==
    \/ \E op \in Ops : Fork(op) \/ Finish(op)
    \/ Join
    \/ Abandon

Spec == Init /\ [][Next]_vars
=============================================================================
