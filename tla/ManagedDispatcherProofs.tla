------------------------ MODULE ManagedDispatcherProofs ------------------------
(***************************************************************************)
(* What the loop of operationDispatcherImpl.Wait guarantees, for every set *)
(* of clusters.  The counters alone do not say that nothing is left        *)
(* behind: they have to be tied to the operations they count.              *)
(***************************************************************************)
EXTENDS ManagedDispatcher, FiniteSetTheorems, TLAPS

Begun == {op \in Ops : phase[op] # "idle"}
Reported == {op \in Ops : phase[op] = "done"}

(* The counters count: an operation is counted before its goroutine starts, and
   received once for each result. *)
Counted ==
    /\ IsFiniteSet(Begun)
    /\ initiated = Cardinality(Begun)
    /\ received = Cardinality(Reported)

(* No operation is started twice. *)
StartedOnce ==
    \A c \in Clusters :
        /\ c \in toVisit => \A k \in Kinds : phase[<<c, k>>] = "idle"
        /\ phase[<<c, "create">>] = "running" => phase[<<c, "update">>] = "idle"

(* Where the caller is. *)
InPhase ==
    /\ pc # "dispatch" => toVisit = {}
    /\ timedOut => pc = "returned"
    /\ pc = "returned" /\ ~timedOut => received >= initiated

IInv == TypeOK /\ Counted /\ StartedOnce /\ InPhase

-----------------------------------------------------------------------------
(* Once as many results are received as operations were started, none is outstanding. *)
LEMMA NothingLeft ==
  ASSUME TypeOK, Counted, received >= initiated
  PROVE  Outstanding = {} /\ Begun = Reported
<1>1. Reported \in SUBSET Begun
  BY DEF Reported, Begun
<1>2. IsFiniteSet(Begun) /\ Cardinality(Reported) >= Cardinality(Begun)
  BY DEF Counted
<1>3. Cardinality(Reported) <= Cardinality(Begun) /\ IsFiniteSet(Reported)
  BY <1>1, <1>2, FS_Subset
<1>4. Cardinality(Reported) \in Nat /\ Cardinality(Begun) \in Nat
  BY <1>2, <1>3, FS_CardinalityType
<1>5. Begun = Reported
  <2>1. Cardinality(Begun) = Cardinality(Reported)
    BY <1>2, <1>3, <1>4
  <2> QED BY <1>1, <1>2, <2>1, FS_Subset
<1>6. Outstanding = {}
  BY <1>5 DEF Outstanding, Begun, Reported
<1> QED BY <1>5, <1>6

(* A round without a timeout has no goroutine left that could do anything. *)
LEMMA ReturnedIsDone ==
  ASSUME IInv, pc = "returned", ~timedOut
  PROVE  Outstanding = {}
  BY NothingLeft DEF IInv, InPhase

LEMMA InitIInv == Init => IInv
<1> SUFFICES ASSUME Init PROVE IInv
  OBVIOUS
<1>1. TypeOK
  BY DEF Init, TypeOK, Status, NoStatus
<1>2. Counted
  <2>1. Begun = {} /\ Reported = {}
    BY DEF Init, Begun, Reported
  <2> QED BY <2>1, FS_EmptySet DEF Init, Counted
<1>3. StartedOnce /\ InPhase
  BY DEF Init, StartedOnce, InPhase, Ops, Kinds
<1> QED BY <1>1, <1>2, <1>3 DEF IInv

-----------------------------------------------------------------------------
(* The type invariant is inductive by itself. *)
LEMMA NextTypeOK == TypeOK /\ [Next]_vars => TypeOK'
<1> SUFFICES ASSUME TypeOK, [Next]_vars PROVE TypeOK'
  OBVIOUS
<1> USE DEF TypeOK, waitVars
<1>1. ASSUME NEW k \in Kinds PROVE TimedOut[k] \in Status
  BY DEF TimedOut, Kinds, Status
<1>2. ASSUME NEW s \in Status PROVE Settle(s) \in Status
  BY DEF Settle, Status, Kinds, TimedOut, NoStatus
<1>3. ASSUME NEW c \in Clusters, NEW k \in Kinds, Start(c, k) PROVE TypeOK'
  BY <1>1, <1>3 DEF Start, Ops
<1>4. ASSUME NEW c \in Clusters, NEW s \in {"NotSynced", "WaitingForRemoval"},
             RecordClusterStatus(c, s)
      PROVE  TypeOK'
  BY <1>4 DEF RecordClusterStatus, Status
<1>5. ASSUME NEW c \in Clusters, Skip(c) PROVE TypeOK'
  BY <1>5 DEF Skip
<1>6. CASE BeginWait
  BY <1>6 DEF BeginWait
<1>7. ASSUME NEW c \in Clusters, NEW k \in Kinds, OperationFails(c, k) PROVE TypeOK'
  BY <1>7 DEF OperationFails, Returns, Ops, Status
<1>8. ASSUME NEW c \in Clusters, NEW k \in Kinds, PropagationSucceeds(c, k) PROVE TypeOK'
  BY <1>8 DEF PropagationSucceeds, Returns, Ops
<1>9. ASSUME NEW c \in Clusters, NEW k \in Kinds, RemovalSucceeds(c, k) PROVE TypeOK'
  BY <1>9 DEF RemovalSucceeds, Returns, Ops
<1>10. ASSUME NEW c \in Clusters, CreateAdopts(c) PROVE TypeOK'
  BY <1>1, <1>10 DEF CreateAdopts, Ops, Kinds
<1>11. ASSUME NEW c \in Clusters, NEW k \in Kinds, Receive(c, k) PROVE TypeOK'
  BY <1>11 DEF Receive, Ops
<1>12. CASE Expire
  BY <1>12 DEF Expire
<1>13. CASE WaitTimesOut
  BY <1>13 DEF WaitTimesOut
<1>14. CASE WaitReturns
  BY <1>2, <1>14 DEF WaitReturns
<1>15. CASE UNCHANGED vars
  BY <1>15 DEF vars
<1> QED
  BY <1>3, <1>4, <1>5, <1>6, <1>7, <1>8, <1>9, <1>10, <1>11, <1>12, <1>13, <1>14, <1>15
  DEF Next, Caller, Operation, Wait
-----------------------------------------------------------------------------
(* A step that counts the one operation it starts. *)
LEMMA CountedStart ==
  ASSUME TypeOK, Counted, NEW op \in Ops, phase[op] = "idle",
         Begun' = Begun \cup {op}, Reported' = Reported,
         initiated' = initiated + 1, received' = received
  PROVE  Counted'
<1>1. op \notin Begun
  BY DEF Begun
<1> QED BY <1>1, FS_AddElement DEF Counted

LEMMA CountedKept ==
  ASSUME Counted, Begun' = Begun, Reported' = Reported, UNCHANGED <<initiated, received>>
  PROVE  Counted'
  BY DEF Counted

(* A closure that returns leaves its operation among those begun, and not reported. *)
LEMMA ReturnsKeeps ==
  ASSUME TypeOK, NEW c \in Clusters, NEW k \in Kinds, NEW r, Returns(c, k, r)
  PROVE  Begun' = Begun /\ Reported' = Reported
  BY DEF Returns, Begun, Reported, TypeOK, Ops

LEMMA NextCounted == IInv /\ [Next]_vars => Counted'
<1> SUFFICES ASSUME IInv, [Next]_vars PROVE Counted'
  OBVIOUS
<1>0. TypeOK /\ Counted /\ StartedOnce
  BY DEF IInv
<1>1. ASSUME NEW c \in Clusters, NEW k \in Kinds, Start(c, k) PROVE Counted'
  <2>1. <<c, k>> \in Ops /\ phase[<<c, k>>] = "idle"
    BY <1>0, <1>1 DEF Start, StartedOnce, Ops
  <2>2. Begun' = Begun \cup {<<c, k>>} /\ Reported' = Reported
    BY <1>0, <1>1, <2>1 DEF Start, Begun, Reported, TypeOK
  <2>3. initiated' = initiated + 1 /\ received' = received
    BY <1>1 DEF Start, waitVars
  <2> QED BY <1>0, <2>1, <2>2, <2>3, CountedStart
<1>2. ASSUME NEW c \in Clusters, CreateAdopts(c) PROVE Counted'
  <2>1. <<c, "update">> \in Ops /\ <<c, "create">> \in Ops
    BY DEF Ops, Kinds
  <2>2. phase[<<c, "create">>] = "running" /\ phase[<<c, "update">>] = "idle"
    BY <1>0, <1>2 DEF CreateAdopts, StartedOnce
  <2>3. Begun' = Begun \cup {<<c, "update">>} /\ Reported' = Reported
    BY <1>0, <1>2, <2>1, <2>2 DEF CreateAdopts, Begun, Reported, TypeOK
  <2>4. initiated' = initiated + 1 /\ received' = received
    BY <1>2 DEF CreateAdopts, waitVars
  <2> QED BY <1>0, <2>1, <2>2, <2>3, <2>4, CountedStart
<1>3. ASSUME NEW c \in Clusters, NEW k \in Kinds, Receive(c, k) PROVE Counted'
  <2>1. <<c, k>> \in Ops /\ <<c, k>> \notin Reported
    BY <1>3 DEF Receive, Reported, Ops
  <2>2. Begun' = Begun /\ Reported' = Reported \cup {<<c, k>>}
    BY <1>0, <1>3, <2>1 DEF Receive, Begun, Reported, TypeOK
  <2>3. IsFiniteSet(Reported)
    <3>1. Reported \in SUBSET Begun
      BY DEF Reported, Begun
    <3> QED BY <1>0, <3>1, FS_Subset DEF Counted
  <2>4. Cardinality(Reported') = received + 1
    BY <1>0, <2>1, <2>2, <2>3, FS_AddElement DEF Counted
  <2>5. initiated' = initiated /\ received' = received + 1
    BY <1>3 DEF Receive
  <2> QED BY <1>0, <2>2, <2>4, <2>5 DEF Counted
<1>4. ASSUME NEW c \in Clusters, NEW k \in Kinds,
             OperationFails(c, k) \/ PropagationSucceeds(c, k) \/ RemovalSucceeds(c, k)
      PROVE  Counted'
  <2>1. Returns(c, k, FALSE) \/ Returns(c, k, TRUE)
    BY <1>4 DEF OperationFails, PropagationSucceeds, RemovalSucceeds
  <2>2. UNCHANGED <<initiated, received>>
    BY <1>4 DEF OperationFails, PropagationSucceeds, RemovalSucceeds, waitVars
  <2> QED BY <1>0, <2>1, <2>2, ReturnsKeeps, CountedKept
<1>5. CASE UNCHANGED <<phase, initiated, received>>
  BY <1>0, <1>5, CountedKept DEF Begun, Reported
<1>6. ASSUME NEW c \in Clusters, NEW s, RecordClusterStatus(c, s) \/ Skip(c)
      PROVE  Counted'
  BY <1>5, <1>6 DEF RecordClusterStatus, Skip, waitVars
<1>7. CASE BeginWait \/ Expire \/ WaitTimesOut \/ WaitReturns \/ UNCHANGED vars
  BY <1>5, <1>7 DEF BeginWait, Expire, WaitTimesOut, WaitReturns, vars
<1> QED
  BY <1>1, <1>2, <1>3, <1>4, <1>6, <1>7 DEF Next, Caller, Operation, Wait

LEMMA NextStartedOnce == IInv /\ [Next]_vars => StartedOnce'
<1> SUFFICES ASSUME IInv, [Next]_vars, NEW d \in Clusters
             PROVE  /\ d \in toVisit' => \A j \in Kinds : phase'[<<d, j>>] = "idle"
                    /\ phase'[<<d, "create">>] = "running" => phase'[<<d, "update">>] = "idle"
  BY DEF StartedOnce
<1>0. /\ d \in toVisit => \A j \in Kinds : phase[<<d, j>>] = "idle"
      /\ phase[<<d, "create">>] = "running" => phase[<<d, "update">>] = "idle"
      /\ TypeOK
  BY DEF IInv, StartedOnce
<1> USE DEF TypeOK, Ops, Kinds, waitVars
<1>1. ASSUME NEW c \in Clusters, NEW k \in Kinds, Start(c, k)
      PROVE  /\ d \in toVisit' => \A j \in Kinds : phase'[<<d, j>>] = "idle"
             /\ phase'[<<d, "create">>] = "running" => phase'[<<d, "update">>] = "idle"
  BY <1>0, <1>1 DEF Start
<1>2. ASSUME NEW c \in Clusters, NEW k \in Kinds, NEW r, Returns(c, k, r), toVisit' = toVisit
      PROVE  /\ d \in toVisit' => \A j \in Kinds : phase'[<<d, j>>] = "idle"
             /\ phase'[<<d, "create">>] = "running" => phase'[<<d, "update">>] = "idle"
  BY <1>0, <1>2 DEF Returns
<1>3. ASSUME NEW c \in Clusters, CreateAdopts(c)
      PROVE  /\ d \in toVisit' => \A j \in Kinds : phase'[<<d, j>>] = "idle"
             /\ phase'[<<d, "create">>] = "running" => phase'[<<d, "update">>] = "idle"
  BY <1>0, <1>3 DEF CreateAdopts
<1>4. ASSUME NEW c \in Clusters, NEW k \in Kinds, Receive(c, k)
      PROVE  /\ d \in toVisit' => \A j \in Kinds : phase'[<<d, j>>] = "idle"
             /\ phase'[<<d, "create">>] = "running" => phase'[<<d, "update">>] = "idle"
  BY <1>0, <1>4 DEF Receive
<1>5. CASE phase' = phase /\ toVisit' \subseteq toVisit
  BY <1>0, <1>5
<1>6. ASSUME NEW c \in Clusters, NEW s, RecordClusterStatus(c, s) \/ Skip(c)
      PROVE  phase' = phase /\ toVisit' \subseteq toVisit
  BY <1>6 DEF RecordClusterStatus, Skip
<1>7. CASE BeginWait \/ Expire \/ WaitTimesOut \/ WaitReturns \/ UNCHANGED vars
  BY <1>5, <1>7 DEF BeginWait, Expire, WaitTimesOut, WaitReturns, vars
<1>8. ASSUME NEW c \in Clusters, NEW k \in Kinds,
             OperationFails(c, k) \/ PropagationSucceeds(c, k) \/ RemovalSucceeds(c, k)
      PROVE  toVisit' = toVisit /\ \E r : Returns(c, k, r)
  BY <1>8 DEF OperationFails, PropagationSucceeds, RemovalSucceeds
<1> QED
  BY <1>1, <1>2, <1>3, <1>4, <1>5, <1>6, <1>7, <1>8 DEF Next, Caller, Operation, Wait

LEMMA NextInPhase == IInv /\ [Next]_vars => InPhase'
<1> SUFFICES ASSUME IInv, [Next]_vars PROVE InPhase'
  OBVIOUS
<1>0. TypeOK /\ InPhase
  BY DEF IInv
<1> USE DEF waitVars
<1>1. ASSUME NEW c \in Clusters, NEW k \in Kinds, Start(c, k) PROVE InPhase'
  BY <1>0, <1>1 DEF Start, InPhase
<1>2. ASSUME NEW c \in Clusters, NEW s, RecordClusterStatus(c, s) \/ Skip(c) PROVE InPhase'
  BY <1>0, <1>2 DEF RecordClusterStatus, Skip, InPhase
<1>3. CASE BeginWait
  BY <1>0, <1>3 DEF BeginWait, InPhase
<1>4. ASSUME NEW c \in Clusters, NEW k \in Kinds,
             OperationFails(c, k) \/ PropagationSucceeds(c, k) \/ RemovalSucceeds(c, k)
      PROVE  InPhase'
  BY <1>0, <1>4 DEF OperationFails, PropagationSucceeds, RemovalSucceeds, Returns, InPhase
<1>5. ASSUME NEW c \in Clusters, CreateAdopts(c) PROVE InPhase'
  \* a running goroutine: the round is not over, or it timed out
  <2>1. Outstanding # {}
    BY <1>5 DEF CreateAdopts, Outstanding, Ops, Kinds
  <2>2. pc = "returned" => timedOut
    BY <2>1, ReturnedIsDone
  <2> QED BY <1>0, <1>5, <2>2 DEF CreateAdopts, InPhase
<1>6. ASSUME NEW c \in Clusters, NEW k \in Kinds, Receive(c, k) PROVE InPhase'
  BY <1>0, <1>6 DEF Receive, InPhase
<1>7. CASE Expire \/ WaitTimesOut \/ WaitReturns
  BY <1>0, <1>7 DEF Expire, WaitTimesOut, WaitReturns, InPhase
<1>8. CASE UNCHANGED vars
  BY <1>0, <1>8 DEF vars, InPhase
<1> QED
  BY <1>1, <1>2, <1>3, <1>4, <1>5, <1>6, <1>7, <1>8 DEF Next, Caller, Operation, Wait

(* The inductive invariant: the type, the counters and where each goroutine can be. *)
THEOREM Invariance == Spec => []IInv
<1>1. IInv /\ [Next]_vars => IInv'
  BY NextTypeOK, NextCounted, NextStartedOnce, NextInPhase DEF IInv
<1> QED BY <1>1, InitIInv, PTL DEF Spec

(* Type correctness of the dispatcher. *)
THEOREM TypeCorrect == Spec => []TypeOK
<1>1. IInv => TypeOK
  BY DEF IInv
<1> QED BY <1>1, Invariance, PTL

(* Wait without a timeout error leaves no operation behind, for every set of clusters
   and every interleaving of the goroutines. *)
THEOREM WaitIsComplete == Spec => []AllReported
<1>1. IInv => AllReported
  BY ReturnedIsDone DEF AllReported
<1> QED BY <1>1, Invariance, PTL

Settled == pc = "returned" /\ ~timedOut

(* After a Wait without a timeout the round is over: there is nothing left to happen. *)
LEMMA SettledIsFinal ==
  ASSUME IInv, Settled, [Next]_vars
  PROVE  UNCHANGED vars
<1>1. Outstanding = {}
  BY ReturnedIsDone DEF Settled
<1>2. ASSUME NEW c \in Clusters, NEW k \in Kinds, phase[<<c, k>>] = "running" PROVE FALSE
  BY <1>1, <1>2 DEF Outstanding, Ops
<1>3. ASSUME NEW c \in Clusters, NEW k \in Kinds, Operation(c, k) PROVE FALSE
  BY <1>2, <1>3 DEF Operation, OperationFails, PropagationSucceeds, RemovalSucceeds,
     Returns, CreateAdopts
<1>4. ~Caller /\ ~Wait
  BY DEF Caller, Start, RecordClusterStatus, Skip, BeginWait,
     Wait, Receive, Expire, WaitTimesOut, WaitReturns, Settled
<1> QED BY <1>3, <1>4 DEF Next

(* Nothing writes the status and version maps after such a Wait: CollectedStatus and
   VersionMap see one and the same round. *)
THEOREM MapsFrozen == Spec => ResultsFrozen
<1>1. ASSUME IInv, [Next]_vars
      PROVE  [pc = "returned" /\ ~timedOut => UNCHANGED <<statusMap, versionMap>>]_vars
  BY <1>1, SettledIsFinal DEF Settled, vars
<1> QED BY <1>1, Invariance, PTL DEF Spec, ResultsFrozen

-----------------------------------------------------------------------------
(* The counter and the channel implement the join of ForkJoin. *)
LEMMA StepForkJoin == IInv /\ [Next]_vars => [Barrier!Next]_Barrier!vars
<1> SUFFICES ASSUME IInv, [Next]_vars PROVE [Barrier!Next]_Barrier!vars
  OBVIOUS
<1>0. TypeOK /\ Counted /\ StartedOnce /\ InPhase
  BY DEF IInv
<1> USE DEF waitVars, Barrier!vars
<1>1. ASSUME NEW c \in Clusters, NEW k \in Kinds, Start(c, k) PROVE Barrier!Fork(<<c, k>>)
  <2>1. <<c, k>> \in Ops /\ phase[<<c, k>>] = "idle"
    BY <1>0, <1>1 DEF Start, StartedOnce, Ops
  <2>2. Outstanding' = Outstanding \cup {<<c, k>>} /\ <<c, k>> \notin Outstanding
    BY <1>0, <1>1, <2>1 DEF Start, Outstanding, TypeOK
  <2> QED BY <1>1, <2>2 DEF Start, Barrier!Fork
<1>2. ASSUME NEW c \in Clusters, CreateAdopts(c) PROVE Barrier!Fork(<<c, "update">>)
  <2>1. /\ <<c, "update">> \in Ops /\ phase[<<c, "update">>] = "idle"
        /\ <<c, "create">> \in Ops /\ phase[<<c, "create">>] = "running"
    BY <1>0, <1>2 DEF CreateAdopts, StartedOnce, Ops, Kinds
  <2>2. Outstanding' = Outstanding \cup {<<c, "update">>} /\ <<c, "update">> \notin Outstanding
    BY <1>0, <1>2, <2>1 DEF CreateAdopts, Outstanding, TypeOK
  <2>3. pc = "returned" => timedOut
    BY <2>1, ReturnedIsDone DEF Outstanding
  <2> QED BY <1>2, <2>2, <2>3 DEF CreateAdopts, Barrier!Fork
<1>3. ASSUME NEW c \in Clusters, NEW k \in Kinds, Receive(c, k) PROVE Barrier!Finish(<<c, k>>)
  <2>1. Outstanding' = Outstanding \ {<<c, k>>} /\ <<c, k>> \in Outstanding
    BY <1>0, <1>3 DEF Receive, Outstanding, TypeOK, Ops
  <2> QED BY <1>3, <2>1 DEF Receive, Barrier!Finish
<1>4. CASE WaitReturns
  <2>1. Outstanding = {} /\ ~timedOut
    BY <1>0, <1>4, NothingLeft DEF WaitReturns, InPhase
  <2>2. Outstanding' = Outstanding
    BY <1>4 DEF WaitReturns, Outstanding
  <2>3. Barrier!Join
    BY <1>4, <2>1, <2>2 DEF WaitReturns, Barrier!Join
  <2> QED BY <2>3 DEF Barrier!Next
<1>5. CASE WaitTimesOut
  <2>1. Outstanding' = Outstanding
    BY <1>5 DEF WaitTimesOut, Outstanding
  <2>2. Barrier!Abandon
    BY <1>5, <2>1 DEF WaitTimesOut, Barrier!Abandon
  <2> QED BY <2>2 DEF Barrier!Next
<1>6. ASSUME NEW c \in Clusters, NEW k \in Kinds,
             OperationFails(c, k) \/ PropagationSucceeds(c, k) \/ RemovalSucceeds(c, k)
      PROVE  UNCHANGED Barrier!vars
  <2>1. PICK r : Returns(c, k, r)
    BY <1>6 DEF OperationFails, PropagationSucceeds, RemovalSucceeds
  <2>2. Outstanding' = Outstanding
    BY <1>0, <2>1 DEF Returns, Outstanding, TypeOK, Ops
  <2> QED BY <1>6, <2>2 DEF OperationFails, PropagationSucceeds, RemovalSucceeds, Returns
<1>7. ASSUME NEW c \in Clusters, NEW s, RecordClusterStatus(c, s) \/ Skip(c)
      PROVE  UNCHANGED Barrier!vars
  BY <1>7 DEF RecordClusterStatus, Skip, Outstanding
<1>8. CASE BeginWait \/ Expire \/ UNCHANGED vars
  BY <1>8 DEF BeginWait, Expire, vars, Outstanding
<1>9. \A c \in Clusters, k \in Kinds : <<c, k>> \in Ops
  BY DEF Ops
<1>10. "update" \in Kinds
  BY DEF Kinds
<1> QED
  BY <1>1, <1>2, <1>3, <1>4, <1>5, <1>6, <1>7, <1>8, <1>9, <1>10
  DEF Next, Caller, Operation, Wait, Barrier!Next

(* The dispatcher implements ForkJoin: every behaviour of the goroutines, the channel
   and the counter is, seen from outside, a fork/join that closes only when nothing is
   outstanding or is abandoned. *)
THEOREM DispatcherIsForkJoin == Spec => ForkJoinRefined
<1>1. Init => Barrier!Init
  BY DEF Init, Barrier!Init, Outstanding
<1> QED BY <1>1, StepForkJoin, Invariance, PTL DEF Spec, ForkJoinRefined, Barrier!Spec

-----------------------------------------------------------------------------
(* What the status map says while the round is on.  The status of a cluster is always *)
(* one operation's: the Update's when there is one, else that of the one operation.   *)
Decides(c, k) == phase[<<c, k>>] # "idle" /\ (k = "update" \/ phase[<<c, "update">>] = "idle")

(* At most one operation per cluster, or a Create that succeeded by starting an Update. *)
OneEach(c) ==
    /\ \A j, k \in Kinds : phase[<<c, j>>] # "idle" /\ phase[<<c, k>>] # "idle" =>
         j = k \/ {j, k} = {"create", "update"}
    /\ phase[<<c, "create">>] # "idle" /\ phase[<<c, "update">>] # "idle" =>
         result[<<c, "create">>]
    /\ \A k \in Kinds : result[<<c, k>>] \/ phase[<<c, k>>] \in {"sending", "done"}

(* Until Wait settles them, the statuses are those of the operations that decide. *)
Told(c) ==
    /\ c \in toVisit => statusMap[c] = NoStatus
    /\ ~Dispatched(c) => statusMap[c] \in {NoStatus, "NotSynced", "WaitingForRemoval"}
    /\ \A k \in Kinds : Decides(c, k) =>
         statusMap[c] = IF result[<<c, k>>] THEN TimedOut[k] ELSE "OperationFailed"

(* A Create or Update that has succeeded by itself has recorded a version. *)
Versioned(c) ==
    \A k \in {"create", "update"} :
        Decides(c, k) /\ phase[<<c, k>>] \in {"sending", "done"} /\ result[<<c, k>>]
            => c \in versionMap

(* ok is the conjunction of the results received. *)
Conjoined == ~timedOut => (waitOk <=> \A op \in Reported : result[op])

TruthInv ==
    /\ IInv
    /\ \A c \in Clusters : OneEach(c) /\ Versioned(c)
    /\ ~Settled => \A c \in Clusters : Told(c)
    /\ Conjoined
    /\ StatusTruthful

(* The operation that decides is the one StatusTruthful names. *)
LEMMA DecidesIsLast ==
  ASSUME NEW c \in Clusters, NEW k \in Kinds, OneEach(c), Decides(c, k)
  PROVE  Dispatched(c) /\ LastOp(c) = <<c, k>>
<1>1. Dispatched(c)
  BY DEF Dispatched, Decides
<1>2. CASE phase[<<c, "update">>] # "idle"
  BY <1>1, <1>2 DEF LastOp, Decides
<1>3. CASE phase[<<c, "update">>] = "idle"
  <2>1. \A j \in Kinds : phase[<<c, j>>] # "idle" => j = k
    BY <1>3 DEF OneEach, Decides, Kinds
  <2>2. (CHOOSE j \in Kinds : phase[<<c, j>>] # "idle") = k
    BY <2>1 DEF Decides
  <2> QED BY <1>1, <1>3, <2>2 DEF LastOp
<1> QED BY <1>2, <1>3

LEMMA SomeDecides ==
  ASSUME NEW c \in Clusters, Dispatched(c)
  PROVE  \E k \in Kinds : Decides(c, k)
<1>1. PICK k \in Kinds : phase[<<c, k>>] # "idle"
  BY DEF Dispatched
<1>2. CASE phase[<<c, "update">>] = "idle"
  BY <1>1, <1>2 DEF Decides
<1>3. CASE phase[<<c, "update">>] # "idle"
  BY <1>3 DEF Decides, Kinds
<1> QED BY <1>2, <1>3

(* One cluster's part of the invariant, action by action. *)
ClusterInv(c) == OneEach(c) /\ Versioned(c) /\ Told(c)

(* The invariant of a cluster reads the cluster's own part of the state only. *)
LEMMA ElsewhereSame ==
  ASSUME NEW d \in Clusters, ClusterInv(d),
         \A k \in Kinds : phase'[<<d, k>>] = phase[<<d, k>>] /\ result'[<<d, k>>] = result[<<d, k>>],
         statusMap'[d] = statusMap[d], d \in toVisit' => d \in toVisit,
         d \in versionMap => d \in versionMap'
  PROVE  ClusterInv(d)'
<1>1. "create" \in Kinds /\ "update" \in Kinds
  BY DEF Kinds
<1>2. \A k \in Kinds : Decides(d, k)' <=> Decides(d, k)
  BY <1>1 DEF Decides
<1>3. Dispatched(d)' <=> Dispatched(d)
  BY DEF Dispatched
<1>4. OneEach(d)'
  BY <1>1 DEF ClusterInv, OneEach
<1>5. Versioned(d)'
  BY <1>1, <1>2 DEF ClusterInv, Versioned
<1>6. Told(d)'
  BY <1>2, <1>3 DEF ClusterInv, Told
<1> QED BY <1>4, <1>5, <1>6 DEF ClusterInv

(* An operation that has begun returns or is reported: only one that decides may fail. *)
LEMMA OperationMoves ==
  ASSUME NEW d \in Clusters, ClusterInv(d), NEW k \in Kinds, NEW p \in {"sending", "done"}, NEW r \in BOOLEAN,
         phase[<<d, k>>] # "idle",
         \A j \in Kinds : /\ phase'[<<d, j>>] = IF j = k THEN p ELSE phase[<<d, j>>]
                          /\ result'[<<d, j>>] = IF j = k THEN r ELSE result[<<d, j>>],
         r \/ Decides(d, k),
         statusMap'[d] = IF Decides(d, k) THEN (IF r THEN TimedOut[k] ELSE "OperationFailed") ELSE statusMap[d],
         d \notin toVisit', d \in versionMap => d \in versionMap',
         Decides(d, k) /\ k \in {"create", "update"} /\ r => d \in versionMap'
  PROVE  ClusterInv(d)'
<1>1. "create" \in Kinds /\ "update" \in Kinds
  BY DEF Kinds
<1>2. \A j \in Kinds : phase'[<<d, j>>] # "idle" <=> phase[<<d, j>>] # "idle"
  OBVIOUS
<1>3. \A j \in Kinds : Decides(d, j)' <=> Decides(d, j)
  BY <1>1, <1>2 DEF Decides
<1>4. Dispatched(d)' /\ Dispatched(d)
  BY <1>2 DEF Dispatched
<1>5. \A i, j \in Kinds : Decides(d, i) /\ Decides(d, j) => i = j
  BY <1>1 DEF ClusterInv, OneEach, Decides
<1>6. OneEach(d)'
  <2>1. \A i, j \in Kinds : phase'[<<d, i>>] # "idle" /\ phase'[<<d, j>>] # "idle" =>
          i = j \/ {i, j} = {"create", "update"}
    BY <1>2 DEF ClusterInv, OneEach
  <2>2. phase'[<<d, "create">>] # "idle" /\ phase'[<<d, "update">>] # "idle" => result'[<<d, "create">>]
    <3> SUFFICES ASSUME phase'[<<d, "create">>] # "idle", phase'[<<d, "update">>] # "idle"
                 PROVE  result'[<<d, "create">>]
      OBVIOUS
    <3>1. result[<<d, "create">>] /\ ~Decides(d, "create")
      BY <1>1, <1>2 DEF ClusterInv, OneEach, Decides
    <3> QED BY <1>1, <3>1
  <2>3. ASSUME NEW j \in Kinds PROVE result'[<<d, j>>] \/ phase'[<<d, j>>] \in {"sending", "done"}
    <3>1. result[<<d, j>>] \/ phase[<<d, j>>] \in {"sending", "done"}
      BY DEF ClusterInv, OneEach
    <3> QED BY <3>1
  <2> QED BY <2>1, <2>2, <2>3 DEF OneEach
<1>7. Versioned(d)'
  <2> SUFFICES ASSUME NEW j \in {"create", "update"}, Decides(d, j), phase'[<<d, j>>] \in {"sending", "done"},
                      result'[<<d, j>>]
               PROVE  d \in versionMap'
    BY <1>1, <1>3 DEF Versioned
  <2>1. CASE j = k
    BY <2>1
  <2>2. CASE j # k
    BY <1>1, <2>2 DEF ClusterInv, Versioned
  <2> QED BY <2>1, <2>2
<1>8. Told(d)'
  <2> SUFFICES ASSUME NEW j \in Kinds, Decides(d, j)
               PROVE  statusMap'[d] = IF result'[<<d, j>>] THEN TimedOut[j] ELSE "OperationFailed"
    BY <1>3, <1>4 DEF Told
  <2>1. CASE j = k
    BY <2>1
  <2>2. CASE j # k
    <3>1. ~Decides(d, k)
      BY <1>5, <2>2
    <3>2. statusMap[d] = IF result[<<d, j>>] THEN TimedOut[j] ELSE "OperationFailed"
      BY DEF ClusterInv, Told
    <3> QED BY <2>2, <3>1, <3>2
  <2> QED BY <2>1, <2>2
<1> QED BY <1>6, <1>7, <1>8 DEF ClusterInv

(* The first operation of a cluster, and a Create that starts an Update and succeeds. *)
LEMMA OperationBegins ==
  ASSUME NEW d \in Clusters, ClusterInv(d), NEW k \in Kinds,
         \A j \in Kinds : /\ phase[<<d, j>>] = "idle"
                          /\ phase'[<<d, j>>] = IF j = k THEN "running" ELSE "idle"
                          /\ result'[<<d, j>>] = result[<<d, j>>],
         statusMap'[d] = TimedOut[k], d \notin toVisit'
  PROVE  ClusterInv(d)'
<1>1. "create" \in Kinds /\ "update" \in Kinds
  BY DEF Kinds
<1>2. \A j \in Kinds : result'[<<d, j>>] /\ (phase'[<<d, j>>] # "idle" <=> j = k)
  <2> TAKE j \in Kinds
  <2>1. result[<<d, j>>] \/ phase[<<d, j>>] \in {"sending", "done"}
    BY DEF ClusterInv, OneEach
  <2> QED BY <2>1
<1>3. \A j \in Kinds : Decides(d, j)' => j = k
  BY <1>2 DEF Decides
<1>4. OneEach(d)'
  BY <1>1, <1>2 DEF OneEach
<1>5. Versioned(d)'
  <2>1. \A j \in Kinds : phase'[<<d, j>>] \notin {"sending", "done"}
    OBVIOUS
  <2> QED BY <1>1, <2>1 DEF Versioned
<1>6. Told(d)'
  BY <1>2, <1>3 DEF Told, Dispatched
<1> QED BY <1>4, <1>5, <1>6 DEF ClusterInv

LEMMA AdoptionBegins ==
  ASSUME NEW d \in Clusters, ClusterInv(d),
         phase[<<d, "create">>] = "running", phase[<<d, "update">>] = "idle",
         \A j \in Kinds : /\ phase'[<<d, j>>] = IF j = "create" THEN "sending"
                                                ELSE IF j = "update" THEN "running" ELSE phase[<<d, j>>]
                          /\ result'[<<d, j>>] = IF j = "create" THEN TRUE ELSE result[<<d, j>>],
         statusMap'[d] = TimedOut["update"], d \notin toVisit'
  PROVE  ClusterInv(d)'
<1>1. "create" \in Kinds /\ "update" \in Kinds
  BY DEF Kinds
<1>2. \A j \in Kinds : phase'[<<d, j>>] # "idle" => j \in {"create", "update"}
  <2> SUFFICES ASSUME NEW j \in Kinds, j \notin {"create", "update"}, phase'[<<d, j>>] # "idle" PROVE FALSE
    OBVIOUS
  <2>1. phase[<<d, j>>] # "idle" /\ phase[<<d, "create">>] # "idle"
    OBVIOUS
  <2>2. j = "create" \/ {j, "create"} = {"create", "update"}
    BY <1>1, <2>1 DEF ClusterInv, OneEach
  <2>3. j \in {j, "create"}
    OBVIOUS
  <2> QED BY <2>2, <2>3
<1>3. result'[<<d, "create">>] /\ result'[<<d, "update">>] /\ phase'[<<d, "update">>] = "running"
  BY <1>1 DEF ClusterInv, OneEach
<1>4. \A j \in Kinds : Decides(d, j)' <=> j = "update"
  BY <1>1, <1>3 DEF Decides
<1>5. OneEach(d)'
  <2>1. \A i, j \in Kinds : phase'[<<d, i>>] # "idle" /\ phase'[<<d, j>>] # "idle" =>
          i = j \/ {i, j} = {"create", "update"}
    BY <1>2
  <2>2. ASSUME NEW j \in Kinds PROVE result'[<<d, j>>] \/ phase'[<<d, j>>] \in {"sending", "done"}
    <3>1. result[<<d, j>>] \/ phase[<<d, j>>] \in {"sending", "done"}
      BY DEF ClusterInv, OneEach
    <3> QED BY <1>3, <3>1
  <2> QED BY <1>3, <2>1, <2>2 DEF OneEach
<1>6. Versioned(d)'
  BY <1>1, <1>3, <1>4 DEF Versioned
<1>7. Told(d)'
  BY <1>1, <1>3, <1>4 DEF Told, Dispatched
<1> QED BY <1>5, <1>6, <1>7 DEF ClusterInv

(* A running operation decides, and nothing but its timeout is recorded for its cluster. *)
LEMMA RunningDecides ==
  ASSUME TypeOK, StartedOnce, NEW d \in Clusters, ClusterInv(d), NEW k \in Kinds, phase[<<d, k>>] = "running"
  PROVE  Decides(d, k) /\ d \notin toVisit /\ statusMap[d] = TimedOut[k]
<1>1. d \notin toVisit
  BY DEF StartedOnce
<1>2. Decides(d, k)
  <2>1. phase[<<d, k>>] # "idle" /\ "update" \in Kinds
    BY DEF Kinds
  <2>2. ASSUME k # "update", phase[<<d, "update">>] # "idle" PROVE FALSE
    <3>1. k = "create"
      BY <2>1, <2>2 DEF ClusterInv, OneEach
    <3> QED BY <2>2, <3>1 DEF StartedOnce
  <2> QED BY <2>1, <2>2 DEF Decides
<1>3. result[<<d, k>>]
  BY DEF ClusterInv, OneEach
<1> QED BY <1>1, <1>2, <1>3 DEF ClusterInv, Told

LEMMA NextClusterInv ==
  ASSUME IInv, ~Settled, NEW d \in Clusters, ClusterInv(d), [Next]_vars
  PROVE  OneEach(d)' /\ Versioned(d)' /\ (~WaitReturns => Told(d)')
<1>0. TypeOK /\ StartedOnce
  BY DEF IInv
<1>a. /\ phase \in [Ops -> {"idle", "running", "sending", "done"}] /\ result \in [Ops -> BOOLEAN]
      /\ statusMap \in [Clusters -> Status]
  BY <1>0 DEF TypeOK
<1>b. \A c \in Clusters, k \in Kinds : <<c, k>> \in Ops
  BY DEF Ops
<1>1. ASSUME NEW c \in Clusters, NEW k \in Kinds, Start(c, k) PROVE ClusterInv(d)'
  <2>1. CASE c = d
    <3>1. \A j \in Kinds : phase[<<d, j>>] = "idle"
      BY <1>0, <1>1, <2>1 DEF Start, StartedOnce
    <3>2. \A j \in Kinds : /\ phase'[<<d, j>>] = IF j = k THEN "running" ELSE phase[<<d, j>>]
                           /\ result'[<<d, j>>] = result[<<d, j>>]
      BY <1>a, <1>b, <1>1, <2>1 DEF Start
    <3>3. statusMap'[d] = TimedOut[k] /\ d \notin toVisit'
      BY <1>a, <1>1, <2>1 DEF Start
    <3> QED BY <3>1, <3>2, <3>3, OperationBegins
  <2>2. CASE c # d
    <3>1. \A j \in Kinds : phase'[<<d, j>>] = phase[<<d, j>>] /\ result'[<<d, j>>] = result[<<d, j>>]
      BY <1>a, <1>b, <1>1, <2>2 DEF Start
    <3>2. statusMap'[d] = statusMap[d] /\ (d \in toVisit' => d \in toVisit) /\ versionMap' = versionMap
      BY <1>a, <1>1, <2>2 DEF Start
    <3> QED BY <3>1, <3>2, ElsewhereSame
  <2> QED BY <2>1, <2>2
<1>2. ASSUME NEW c \in Clusters, NEW s \in {"NotSynced", "WaitingForRemoval"},
             RecordClusterStatus(c, s)
      PROVE  ClusterInv(d)'
  <2>0. phase' = phase /\ result' = result /\ versionMap' = versionMap
    BY <1>2 DEF RecordClusterStatus
  <2>1. CASE c = d
    <3>1. \A j \in Kinds : phase[<<d, j>>] = "idle"
      BY <1>0, <1>2, <2>1 DEF RecordClusterStatus, StartedOnce
    <3>2. statusMap'[d] = s /\ d \notin toVisit'
      BY <1>a, <1>2, <2>1 DEF RecordClusterStatus
    <3>3. OneEach(d)'
      BY <2>0 DEF ClusterInv, OneEach
    <3>4. \A j \in Kinds : ~Decides(d, j)'
      BY <2>0, <3>1 DEF Decides
    <3>5. Versioned(d)'
      BY <3>4 DEF Versioned, Kinds
    <3>6. Told(d)'
      BY <3>2, <3>4 DEF Told
    <3> QED BY <3>3, <3>5, <3>6 DEF ClusterInv
  <2>2. CASE c # d
    <3>1. statusMap'[d] = statusMap[d] /\ (d \in toVisit' => d \in toVisit)
      BY <1>a, <1>2, <2>2 DEF RecordClusterStatus
    <3> QED BY <2>0, <3>1, ElsewhereSame
  <2> QED BY <2>1, <2>2
<1>3. ASSUME NEW c \in Clusters, Skip(c) PROVE ClusterInv(d)'
  BY <1>3, ElsewhereSame DEF Skip
<1>4. ASSUME NEW c \in Clusters, NEW k \in Kinds, NEW r \in BOOLEAN, Returns(c, k, r), toVisit' = toVisit,
             statusMap' = IF r THEN statusMap ELSE [statusMap EXCEPT ![c] = "OperationFailed"],
             versionMap \subseteq versionMap', r /\ k \in {"create", "update"} => c \in versionMap'
      PROVE  ClusterInv(d)'
  <2>1. CASE c = d
    <3>1. phase[<<d, k>>] = "running" /\ phase[<<d, k>>] # "idle"
      BY <1>4, <2>1 DEF Returns
    <3>2. Decides(d, k) /\ d \notin toVisit /\ statusMap[d] = TimedOut[k]
      BY <1>0, <3>1, RunningDecides
    <3>3. \A j \in Kinds : /\ phase'[<<d, j>>] = IF j = k THEN "sending" ELSE phase[<<d, j>>]
                           /\ result'[<<d, j>>] = IF j = k THEN r ELSE result[<<d, j>>]
      BY <1>a, <1>b, <1>4, <2>1 DEF Returns
    <3>4. statusMap'[d] = IF r THEN TimedOut[k] ELSE "OperationFailed"
      BY <1>a, <1>4, <2>1, <3>2
    <3>5. /\ d \notin toVisit' /\ (d \in versionMap => d \in versionMap')
          /\ (k \in {"create", "update"} /\ r => d \in versionMap')
      BY <1>4, <2>1, <3>2
    <3> DEFINE p == "sending"
    <3>6. p \in {"sending", "done"} /\ \A j \in Kinds : phase'[<<d, j>>] = IF j = k THEN p ELSE phase[<<d, j>>]
      BY <3>3
    <3> HIDE DEF p
    <3> QED BY <3>1, <3>2, <3>3, <3>4, <3>5, <3>6, OperationMoves
  <2>2. CASE c # d
    <3>1. \A j \in Kinds : phase'[<<d, j>>] = phase[<<d, j>>] /\ result'[<<d, j>>] = result[<<d, j>>]
      BY <1>a, <1>b, <1>4, <2>2 DEF Returns
    <3>2. statusMap'[d] = statusMap[d] /\ (d \in toVisit' => d \in toVisit) /\ (d \in versionMap => d \in versionMap')
      BY <1>a, <1>4, <2>2
    <3> QED BY <3>1, <3>2, ElsewhereSame
  <2> QED BY <2>1, <2>2
<1>5. ASSUME NEW c \in Clusters, NEW k \in Kinds, OperationFails(c, k) PROVE ClusterInv(d)'
  BY <1>4, <1>5 DEF OperationFails
<1>6. ASSUME NEW c \in Clusters, NEW k \in Kinds, PropagationSucceeds(c, k) \/ RemovalSucceeds(c, k)
      PROVE  ClusterInv(d)'
  <2>1. Returns(c, k, TRUE) /\ toVisit' = toVisit /\ statusMap' = statusMap /\ versionMap \subseteq versionMap'
    BY <1>6 DEF PropagationSucceeds, RemovalSucceeds
  <2>2. k \in {"create", "update"} => c \in versionMap'
    BY <1>6 DEF PropagationSucceeds, RemovalSucceeds
  <2> QED BY <1>4, <2>1, <2>2
<1>7. ASSUME NEW c \in Clusters, CreateAdopts(c) PROVE ClusterInv(d)'
  <2>0. "create" \in Kinds /\ "update" \in Kinds /\ toVisit' = toVisit /\ versionMap' = versionMap
    BY <1>7 DEF CreateAdopts, Kinds
  <2>1. CASE c = d
    <3>1. phase[<<d, "create">>] = "running" /\ phase[<<d, "update">>] = "idle" /\ d \notin toVisit'
      BY <1>0, <1>7, <2>0, <2>1 DEF CreateAdopts, StartedOnce
    <3>2. \A j \in Kinds : /\ phase'[<<d, j>>] = IF j = "create" THEN "sending"
                                                 ELSE IF j = "update" THEN "running" ELSE phase[<<d, j>>]
                           /\ result'[<<d, j>>] = IF j = "create" THEN TRUE ELSE result[<<d, j>>]
      BY <1>a, <1>b, <1>7, <2>0, <2>1 DEF CreateAdopts
    <3>3. statusMap'[d] = TimedOut["update"]
      BY <1>a, <1>7, <2>1 DEF CreateAdopts
    <3> QED BY <3>1, <3>2, <3>3, AdoptionBegins
  <2>2. CASE c # d
    <3>1. \A j \in Kinds : phase'[<<d, j>>] = phase[<<d, j>>] /\ result'[<<d, j>>] = result[<<d, j>>]
      BY <1>a, <1>b, <1>7, <2>0, <2>2 DEF CreateAdopts
    <3>2. statusMap'[d] = statusMap[d]
      BY <1>a, <1>7, <2>2 DEF CreateAdopts
    <3> QED BY <2>0, <3>1, <3>2, ElsewhereSame
  <2> QED BY <2>1, <2>2
<1>8. ASSUME NEW c \in Clusters, NEW k \in Kinds, Receive(c, k) PROVE ClusterInv(d)'
  <2>0. UNCHANGED <<toVisit, result, statusMap, versionMap>>
    BY <1>8 DEF Receive
  <2>1. CASE c = d
    <3>1. phase[<<d, k>>] = "sending" /\ phase[<<d, k>>] # "idle"
      BY <1>8, <2>1 DEF Receive
    <3>2. \A j \in Kinds : phase'[<<d, j>>] = IF j = k THEN "done" ELSE phase[<<d, j>>]
      BY <1>a, <1>b, <1>8, <2>1 DEF Receive
    <3>3. d \notin toVisit
      BY <1>0, <3>1 DEF StartedOnce
    <3> DEFINE r == result[<<d, k>>]
               p == "done"
    <3>4. r \in BOOLEAN
      BY <1>a, <1>b
    <3>5. r \/ Decides(d, k)
      <4> SUFFICES ASSUME ~r, k # "update", phase[<<d, "update">>] # "idle" PROVE FALSE
        BY <3>1 DEF Decides
      <4>1. k = "create"
        BY <3>1 DEF ClusterInv, OneEach, Kinds
      <4> QED BY <3>1, <4>1 DEF ClusterInv, OneEach
    <3>6. Decides(d, k) => statusMap[d] = IF r THEN TimedOut[k] ELSE "OperationFailed"
      BY DEF ClusterInv, Told
    <3>7. Decides(d, k) /\ k \in {"create", "update"} /\ r => d \in versionMap
      BY <3>1 DEF ClusterInv, Versioned
    <3>8. \A j \in Kinds : result'[<<d, j>>] = IF j = k THEN r ELSE result[<<d, j>>]
      BY <2>0
    <3>9. p \in {"sending", "done"} /\ \A j \in Kinds : phase'[<<d, j>>] = IF j = k THEN p ELSE phase[<<d, j>>]
      BY <3>2
    <3> HIDE DEF r, p
    <3> QED BY <2>0, <3>1, <3>3, <3>4, <3>5, <3>6, <3>7, <3>8, <3>9, OperationMoves
  <2>2. CASE c # d
    <3>1. \A j \in Kinds : phase'[<<d, j>>] = phase[<<d, j>>]
      BY <1>a, <1>b, <1>8, <2>2 DEF Receive
    <3> QED BY <2>0, <3>1, ElsewhereSame
  <2> QED BY <2>1, <2>2
<1>9. CASE BeginWait \/ Expire \/ WaitTimesOut \/ UNCHANGED vars
  <2>1. UNCHANGED <<toVisit, phase, result, statusMap, versionMap>>
    BY <1>9 DEF BeginWait, Expire, WaitTimesOut, vars
  <2>2. ClusterInv(d)'
    BY <2>1, ElsewhereSame
  <2> QED BY <2>2 DEF ClusterInv
<1>10. CASE WaitReturns
  <2>1. phase' = phase /\ result' = result /\ versionMap' = versionMap
    BY <1>10 DEF WaitReturns
  <2>2. OneEach(d)'
    BY <2>1 DEF ClusterInv, OneEach
  <2>3. Versioned(d)'
    BY <2>1 DEF ClusterInv, Versioned, Decides
  <2> QED BY <1>10, <2>2, <2>3
<1>11. CASE Caller
  <2>1. ASSUME NEW c \in Clusters,
               (\E k \in Kinds : Start(c, k))
                 \/ (\E s \in {"NotSynced", "WaitingForRemoval"} : RecordClusterStatus(c, s)) \/ Skip(c)
        PROVE  ClusterInv(d)'
    BY <1>1, <1>2, <1>3, <2>1
  <2> QED BY <1>9, <1>11, <2>1 DEF Caller, ClusterInv
<1>12. ASSUME NEW c \in Clusters, NEW k \in Kinds, Operation(c, k) PROVE ClusterInv(d)'
  BY <1>5, <1>6, <1>7, <1>12 DEF Operation
<1>13. CASE Wait
  BY <1>8, <1>9, <1>10, <1>13 DEF Wait, ClusterInv
<1> QED
  BY <1>9, <1>11, <1>12, <1>13 DEF Next, ClusterInv

LEMMA NextConjoined ==
  ASSUME IInv, ~Settled, Conjoined, [Next]_vars
  PROVE  Conjoined'
<1>0. TypeOK /\ StartedOnce
  BY DEF IInv
<1> USE <1>0 DEF TypeOK, Ops, waitVars, Conjoined, Reported
<1>1. ASSUME NEW c \in Clusters, NEW k \in Kinds, Start(c, k) PROVE Conjoined'
  BY <1>1 DEF Start, StartedOnce
<1>2. ASSUME NEW c \in Clusters, NEW s, RecordClusterStatus(c, s) \/ Skip(c) PROVE Conjoined'
  BY <1>2 DEF RecordClusterStatus, Skip
<1>3. ASSUME NEW c \in Clusters, NEW k \in Kinds,
             OperationFails(c, k) \/ PropagationSucceeds(c, k) \/ RemovalSucceeds(c, k)
      PROVE  Conjoined'
  BY <1>3 DEF OperationFails, PropagationSucceeds, RemovalSucceeds, Returns
<1>4. ASSUME NEW c \in Clusters, CreateAdopts(c) PROVE Conjoined'
  BY <1>4 DEF CreateAdopts, Kinds, StartedOnce
<1>5. ASSUME NEW c \in Clusters, NEW k \in Kinds, Receive(c, k) PROVE Conjoined'
  <2>1. Reported' = Reported \cup {<<c, k>>}
    BY <1>5 DEF Receive
  <2> QED BY <1>5, <2>1 DEF Receive
<1>6. CASE BeginWait \/ Expire \/ WaitTimesOut \/ WaitReturns \/ UNCHANGED vars
  BY <1>6 DEF BeginWait, Expire, WaitTimesOut, WaitReturns, vars
<1> QED
  BY <1>1, <1>2, <1>3, <1>4, <1>5, <1>6 DEF Next, Caller, Operation, Wait

(* The loop over the statuses at the end of Wait makes the map true. *)
LEMMA WaitReturnsTruthful ==
  ASSUME TruthInv, ~Settled, WaitReturns
  PROVE  StatusTruthful'
<1>0. TypeOK /\ Counted /\ Conjoined /\ ~timedOut
  BY DEF TruthInv, IInv, InPhase, WaitReturns
<1>1. Begun = Reported
  BY <1>0, NothingLeft DEF WaitReturns
<1>2. \A c \in Clusters, k \in Kinds : phase[<<c, k>>] \in {"idle", "done"}
  BY <1>1 DEF Begun, Reported, Ops
<1>3. waitOk <=> \A c \in Clusters, k \in Kinds : phase[<<c, k>>] = "done" => result[<<c, k>>]
  BY <1>0 DEF Conjoined, Reported, Ops
<1>4. /\ UNCHANGED <<phase, result, versionMap, waitOk>>
      /\ \A c \in Clusters : statusMap'[c] = Settle(statusMap[c])
  BY <1>0 DEF WaitReturns, TypeOK
<1>5. ASSUME NEW c \in Clusters, NEW k \in Kinds, Decides(c, k)
      PROVE  /\ LastOp(c)' = <<c, k>> /\ Dispatched(c)'
             /\ statusMap'[c] = Settle(IF result[<<c, k>>] THEN TimedOut[k] ELSE "OperationFailed")
             /\ result[<<c, k>>] /\ k \in {"create", "update"} => c \in versionMap
  <2>1. OneEach(c) /\ Versioned(c) /\ Told(c)
    BY DEF TruthInv
  <2>2. LastOp(c)' = LastOp(c) /\ (Dispatched(c)' <=> Dispatched(c))
    BY <1>4 DEF LastOp, Dispatched
  <2> QED BY <1>2, <1>4, <1>5, <2>1, <2>2, DecidesIsLast DEF Told, Versioned, Decides
<1>6. ASSUME NEW c \in Clusters, ~Dispatched(c)
      PROVE  statusMap'[c] \in {NoStatus, "NotSynced", "WaitingForRemoval"} /\ ~Dispatched(c)'
  <2>1. Told(c)
    BY DEF TruthInv
  <2> QED BY <1>4, <1>6, <2>1 DEF Told, Settle, NoStatus, Dispatched
<1>7. ASSUME NEW c \in Clusters
      PROVE  /\ statusMap'[c] \notin {TimedOut[k] : k \in Kinds}
             /\ statusMap'[c] = "OK" <=> /\ Dispatched(c)'
                                         /\ LastOp(c)'[2] \in {"create", "update"}
                                         /\ result'[LastOp(c)']
             /\ statusMap'[c] = "OK" => c \in versionMap'
             /\ statusMap'[c] = "OperationFailed" <=> Dispatched(c)' /\ ~result'[LastOp(c)']
  <2>1. CASE Dispatched(c)
    <3>1. PICK k \in Kinds : Decides(c, k)
      BY <2>1, SomeDecides
    <3>2. statusMap'[c] = IF ~result[<<c, k>>] THEN "OperationFailed"
                          ELSE IF k \in {"create", "update"} THEN "OK"
                          ELSE IF k = "delete" THEN "WaitingForRemoval" ELSE NoStatus
      BY <1>5, <3>1 DEF Settle, TimedOut, Kinds
    <3>3. LastOp(c)' = <<c, k>> /\ Dispatched(c)' /\ LastOp(c)'[2] = k
      <4>1. LastOp(c)' = <<c, k>> /\ Dispatched(c)'
        BY <1>5, <3>1
      <4>2. <<c, k>>[2] = k
        OBVIOUS
      <4> QED BY <4>1, <4>2
    <3>4. result'[LastOp(c)'] = result[<<c, k>>] /\ result[<<c, k>>] \in BOOLEAN
      BY <1>0, <1>4, <3>3 DEF TypeOK, Ops
    <3>5. statusMap'[c] \notin {TimedOut[j] : j \in Kinds}
      BY <3>2 DEF TimedOut, Kinds, NoStatus
    <3>6. statusMap'[c] = "OK" => c \in versionMap'
      BY <1>4, <1>5, <3>1, <3>2 DEF NoStatus
    <3> QED BY <3>2, <3>3, <3>4, <3>5, <3>6 DEF NoStatus
  <2>2. CASE ~Dispatched(c)
    BY <1>6, <2>2 DEF TimedOut, Kinds, NoStatus
  <2> QED BY <2>1, <2>2
<1>8. waitOk' <=> \A c \in Clusters : statusMap'[c] # "OperationFailed"
  <2>1. ASSUME NEW c \in Clusters, NEW k \in Kinds, phase[<<c, k>>] = "done", ~result[<<c, k>>]
        PROVE  statusMap'[c] = "OperationFailed"
    <3>1. OneEach(c)
      BY DEF TruthInv
    <3>2. Decides(c, k)
      BY <2>1, <3>1 DEF OneEach, Decides, Kinds
    <3> QED BY <1>5, <2>1, <3>2 DEF Settle
  <2>2. ASSUME NEW c \in Clusters, statusMap'[c] = "OperationFailed"
        PROVE  \E k \in Kinds : phase[<<c, k>>] = "done" /\ ~result[<<c, k>>]
    <3>1. Dispatched(c)
      BY <1>6, <2>2 DEF NoStatus
    <3>2. PICK k \in Kinds : Decides(c, k)
      BY <3>1, SomeDecides
    <3>3. ~result[<<c, k>>]
      BY <1>5, <2>2, <3>2 DEF Settle, TimedOut, Kinds, NoStatus
    <3> QED BY <1>2, <3>2, <3>3 DEF Decides
  <2> QED BY <1>3, <1>4, <2>1, <2>2
<1> QED BY <1>7, <1>8 DEF StatusTruthful

LEMMA InitTruth == Init => TruthInv
<1> SUFFICES ASSUME Init PROVE TruthInv
  OBVIOUS
<1>1. \A c \in Clusters : OneEach(c) /\ Versioned(c) /\ Told(c)
  BY DEF Init, OneEach, Versioned, Told, Decides, Dispatched, Ops, Kinds, NoStatus
<1>2. Conjoined /\ StatusTruthful
  BY DEF Init, Conjoined, Reported, StatusTruthful
<1> QED BY <1>1, <1>2, InitIInv DEF TruthInv

LEMMA NextTruth == TruthInv /\ [Next]_vars => TruthInv'
<1> SUFFICES ASSUME TruthInv, [Next]_vars PROVE TruthInv'
  OBVIOUS
<1>0. IInv /\ IInv'
  BY NextTypeOK, NextCounted, NextStartedOnce, NextInPhase DEF TruthInv, IInv
<1>1. CASE Settled
  <2>1. UNCHANGED vars
    BY <1>0, <1>1, SettledIsFinal
  <2>2. ASSUME NEW c \in Clusters PROVE OneEach(c)' /\ Versioned(c)'
    BY <2>1 DEF TruthInv, vars, OneEach, Versioned, Decides
  <2>3. ASSUME NEW c \in Clusters PROVE LastOp(c)' = LastOp(c) /\ (Dispatched(c)' <=> Dispatched(c))
    BY <2>1 DEF vars, LastOp, Dispatched
  <2>4. StatusTruthful'
    BY <2>1, <2>3 DEF TruthInv, vars, StatusTruthful
  <2>5. Settled' /\ Conjoined'
    BY <1>1, <2>1 DEF TruthInv, vars, Settled, Conjoined, Reported
  <2> QED BY <1>0, <2>2, <2>4, <2>5 DEF TruthInv
<1>2. CASE ~Settled
  <2>1. ASSUME NEW c \in Clusters
        PROVE  OneEach(c)' /\ Versioned(c)' /\ (~WaitReturns => Told(c)')
    <3>1. ClusterInv(c)
      BY <1>2 DEF TruthInv, ClusterInv
    <3> QED BY <1>0, <1>2, <3>1, NextClusterInv
  <2>2. Conjoined'
    BY <1>0, <1>2, NextConjoined DEF TruthInv
  <2>3. CASE WaitReturns
    <3>1. Settled'
      BY <1>0, <2>3 DEF WaitReturns, Settled, IInv, InPhase
    <3> QED BY <1>0, <1>2, <2>1, <2>2, <2>3, <3>1, WaitReturnsTruthful DEF TruthInv
  <2>4. CASE ~WaitReturns
    <3>1. ~Settled'
      <4>1. CASE UNCHANGED waitVars \/ UNCHANGED <<pc, timedOut>>
        BY <1>2, <4>1 DEF Settled, waitVars
      <4>2. CASE WaitTimesOut \/ BeginWait
        BY <4>2 DEF WaitTimesOut, BeginWait, Settled
      <4>3. Caller => UNCHANGED waitVars \/ BeginWait
        BY DEF Caller, Start, RecordClusterStatus, Skip
      <4>4. ASSUME NEW c \in Clusters, NEW k \in Kinds, Operation(c, k) PROVE UNCHANGED waitVars
        BY <4>4 DEF Operation, OperationFails, PropagationSucceeds, RemovalSucceeds, CreateAdopts
      <4>5. Wait => UNCHANGED <<pc, timedOut>> \/ WaitTimesOut
        BY <2>4 DEF Wait, Receive, Expire
      <4> QED BY <4>1, <4>2, <4>3, <4>4, <4>5 DEF Next, vars
    <3> QED BY <1>0, <2>1, <2>2, <2>4, <3>1 DEF TruthInv, StatusTruthful, Settled
  <2> QED BY <2>3, <2>4
<1> QED BY <1>1, <1>2

(* After a Wait without a timeout error the status map, the version map and ok tell what the
   operations did, for every set of clusters: the operation-specific timeouts the round
   started with are all replaced, a cluster is OK only if its last operation created or
   updated the object and left its version, and ok says whether any failed. *)
THEOREM StatusesAreTrue == Spec => []StatusTruthful
<1>1. TruthInv => StatusTruthful
  BY DEF TruthInv
<1> QED BY <1>1, InitTruth, NextTruth, PTL DEF Spec
=============================================================================
