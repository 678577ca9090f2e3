------------------------------- MODULE BinPack -------------------------------
(***************************************************************************)
(* preferencebinpack/planner.go: clusters are filled one after the other   *)
(* in the order of their priorities.  Unlike the spreading planner it      *)
(* waits until the pods of the last plan are accounted for: scheduled is   *)
(* the number of scheduled pods the automigration controller saw, for the  *)
(* clusters it saw.                                                        *)
(***************************************************************************)
EXTENDS Planner

(* Everything that remains goes to the next cluster. *)
Fill(st, c, prefs, est, lim) ==
    LET start  == st.plan[c]
        capped == Cut(Cut(start + st.remaining, prefs[c].max), lim[c])
        got    == Cut(capped, est[c])
    IN [plan      |-> [st.plan EXCEPT ![c] = got],
        overflow  |-> [st.overflow EXCEPT ![c] = IF capped - got > @ THEN capped - got ELSE @],
        remaining |-> st.remaining - (got - start)]

fillPlan(order, prefs, est, lim, total) ==
    LET after[i \in 0 .. Len(order)] ==
            IF i = 0 THEN AssignMins(order, prefs, est, lim, total)
            ELSE IF order[i] \notin DOMAIN prefs THEN after[i - 1]
            ELSE Fill(after[i - 1], order[i], prefs, est, lim)
    IN  after[Len(order)]

fillUp(order, prefs, current, desired, lim, count) ==
    LET growing == {c \in DOMAIN prefs : desired[c] > current[c]}
        extra   == fillPlan(order,
                       [c \in growing |->
                           [min |-> prefs[c].min,
                            max |-> IF prefs[c].max = Absent THEN Absent
                                    ELSE prefs[c].max - current[c]]],
                       NoLimit, lim, count).plan
    IN [c \in Cluster |-> current[c] + extra[c]]

Backwards(order) == [i \in 1 .. Len(order) |-> order[Len(order) + 1 - i]]

(* The last cluster in the order shrinks first. *)
drainDown(order, prefs, current, desired, count) ==
    LET shrinking == {c \in DOMAIN prefs : desired[c] < current[c]}
        less      == fillPlan(Backwards(order),
                         [c \in shrinking |-> [min |-> 0, max |-> current[c]]],
                         NoLimit, NoLimit, count).plan
    IN [c \in Cluster |-> current[c] - less[c]]

(* The pods of every cluster are where the last plan put them. *)
isEstimatedCapacityAvailable(current, est, scheduled) ==
    \A c \in Cluster : scheduled[c] # Absent =>
        scheduled[c] = (IF est[c] # Absent THEN est[c] ELSE current[c])

shouldPlan(prefs, placed, current, est, lim, scheduled) ==
    \/ placed \ DOMAIN prefs # {}
    \/ \E c \in placed : current[c] # Cut(current[c], lim[c])
    \/ isEstimatedCapacityAvailable(current, est, scheduled)

(* What runs according to the annotation, in the clusters it names. *)
Running(prefs, lim, scheduled) ==
    [c \in Cluster |-> IF c \in DOMAIN prefs /\ scheduled[c] # Absent
                       THEN Cut(scheduled[c], lim[c]) ELSE 0]

(* From what fits of what runs now towards the desired plan. *)
Repack(order, prefs, ok, desired, lim, total, have, want) ==
    IF have = want THEN ok
    ELSE IF have > want THEN drainDown(order, prefs, ok, desired, have - total)
    ELSE fillUp(order, prefs, ok, desired, lim, total - have)

(* placed is the set of clusters that current has an entry for. *)
BinPackPlan(order, prefs, total, placed, current, est, lim, avoidDisruption, keepUnsched, scheduled) ==
    LET keep    == Keeps(avoidDisruption, keepUnsched)
        desired == fillPlan(order, prefs, est, lim, total)
        ok      == Fitting(prefs, current, est, lim)
        missing == total - SumOf(Running(prefs, lim, scheduled), Cluster)
    IN  IF ~shouldPlan(prefs, placed, current, est, lim, scheduled)
        THEN [plan |-> current, overflow |-> Zero]
        ELSE IF ~keep /\ missing = 0
        THEN [plan |-> [c \in Cluster |-> IF scheduled[c] # Absent THEN scheduled[c] ELSE 0],
              overflow |-> Zero]
        ELSE IF ~avoidDisruption THEN [plan |-> desired.plan, overflow |-> desired.overflow]
        ELSE [plan     |-> Repack(order, prefs, ok, desired.plan, lim, total,
                                  SumOf(ok, Cluster), SumOf(desired.plan, Cluster)),
              overflow |-> IF keep THEN desired.overflow ELSE Trimmed(desired.overflow, missing)]
=============================================================================
