-------------------------- MODULE ManagedDispatcher --------------------------
(***************************************************************************)
(* One dispatch round of the sync controller                               *)
(* (pkg/controllers/sync/dispatch: managed.go, unmanaged.go, operation.go).*)
(*                                                                         *)
(* The caller walks over the clusters, starting at most one operation for  *)
(* each; every operation is a goroutine that ends by sending its result on *)
(* an unbuffered channel.  The caller then sits in Wait, whose loop        *)
(*     for i := 0; i < operationsInitiated.Load(); i++                     *)
(* re-reads the counter at every turn, because a Create that meets an      *)
(* existing object starts an Update of its own.  Wait gives up when the    *)
(* dispatcher's timeout is over; the goroutines are not cancelled.         *)
(*                                                                         *)
(* Abstracted: what is sent to the member cluster (an operation just       *)
(* succeeds or fails), events, metrics and logs; time is one flag,         *)
(* expired, that may become true at any moment of the wait.                *)
(***************************************************************************)
EXTENDS Integers

CONSTANT Clusters

Kinds == {"create", "update", "delete", "unlabel"}

(* An operation is named by its cluster and its kind: a round starts at most
   one operation per cluster, plus the Update nested in a Create. *)
Ops == Clusters \X Kinds

(* The status a started operation leaves until something else is known. *)
TimedOut == [create |-> "CreationTimedOut", update |-> "UpdateTimedOut",
             delete |-> "DeletionTimedOut", unlabel |-> "LabelRemovalTimedOut"]

NoStatus == "none"

(* "OperationFailed" stands for every status recordOperationError is called with
   (CreationFailed, AlreadyExists, UpdateFailed, DeletionFailed, ClientRetrievalFailed
   and so on), "NotSynced" for those the caller records for a cluster that gets no
   operation (ClusterNotReady, ClusterTerminating, CachedRetrievalFailed...). *)
Status == {TimedOut[k] : k \in Kinds}
          \cup {"OK", "WaitingForRemoval", "OperationFailed", "NotSynced", NoStatus}

VARIABLES
    pc,          \* the caller: "dispatch", "wait" or "returned"
    toVisit,     \* clusters the caller has not come to yet
    phase,       \* per operation: "idle", "running", "sending" or "done"
    result,      \* per operation: what it sends, or has sent, on resultChan
    initiated,   \* operationsInitiated
    received,    \* the loop variable i of Wait
    expired,     \* the timeout is over
    waitOk,      \* ok and timedOut: Wait's two results
    timedOut,
    statusMap,   \* per cluster: statusMap of managedDispatcherImpl
    versionMap   \* clusters with an entry in versionMap

vars == <<pc, toVisit, phase, result, initiated, received, expired, waitOk,
          timedOut, statusMap, versionMap>>

Init ==
    /\ pc = "dispatch"
    /\ toVisit = Clusters
    /\ phase = [op \in Ops |-> "idle"]
    /\ result = [op \in Ops |-> TRUE]
    /\ initiated = 0
    /\ received = 0
    /\ expired = FALSE
    /\ waitOk = TRUE
    /\ timedOut = FALSE
    /\ statusMap = [c \in Clusters |-> NoStatus]
    /\ versionMap = {}

waitVars == <<pc, received, expired, waitOk, timedOut>>

-----------------------------------------------------------------------------
(* The caller's loop. *)

(* Create, Update, Delete, RemoveManagedLabel: the cluster's status becomes the
   operation's own timeout before the goroutine is started. *)
Start(c, k) ==
    /\ pc = "dispatch"
    /\ c \in toVisit
    /\ toVisit' = toVisit \ {c}
    /\ statusMap' = [statusMap EXCEPT ![c] = TimedOut[k]]
    /\ initiated' = initiated + 1
    /\ phase' = [phase EXCEPT ![<<c, k>>] = "running"]
    /\ UNCHANGED <<result, versionMap, waitVars>>

(* RecordClusterError and RecordStatus called by the caller itself. *)
RecordClusterStatus(c, s) ==
    /\ pc = "dispatch"
    /\ c \in toVisit
    /\ toVisit' = toVisit \ {c}
    /\ statusMap' = [statusMap EXCEPT ![c] = s]
    /\ UNCHANGED <<phase, result, initiated, versionMap, waitVars>>

(* A cluster that needs nothing and leaves no status. *)
Skip(c) ==
    /\ pc = "dispatch"
    /\ c \in toVisit
    /\ toVisit' = toVisit \ {c}
    /\ UNCHANGED <<phase, result, initiated, statusMap, versionMap, waitVars>>

BeginWait ==
    /\ pc = "dispatch"
    /\ toVisit = {}
    /\ pc' = "wait"
    /\ UNCHANGED <<toVisit, phase, result, initiated, received, expired, waitOk,
                   timedOut, statusMap, versionMap>>

-----------------------------------------------------------------------------
(* The goroutines: clusterOperation and the closures it runs. *)

(* The closure returns r; clusterOperation is now blocked on resultChan. *)
Returns(c, k, r) ==
    /\ phase[<<c, k>>] = "running"
    /\ phase' = [phase EXCEPT ![<<c, k>>] = "sending"]
    /\ result' = [result EXCEPT ![<<c, k>>] = r]

(* An error, the missing client included: recordOperationError, then false. *)
OperationFails(c, k) ==
    /\ Returns(c, k, FALSE)
    /\ statusMap' = [statusMap EXCEPT ![c] = "OperationFailed"]
    /\ UNCHANGED <<toVisit, initiated, versionMap, waitVars>>

(* Create and Update record the version of the object the cluster returned, or
   for an object that is current, the version recorded before. *)
PropagationSucceeds(c, k) ==
    /\ k \in {"create", "update"}
    /\ Returns(c, k, TRUE)
    /\ versionMap' = versionMap \cup {c}
    /\ UNCHANGED <<toVisit, initiated, statusMap, waitVars>>

RemovalSucceeds(c, k) ==
    /\ k \in {"delete", "unlabel"}
    /\ Returns(c, k, TRUE)
    /\ UNCHANGED <<toVisit, initiated, statusMap, versionMap, waitVars>>

(* Forgetting to count the nested Update. *)
CreateAdoptsUncounted(c) ==
    /\ phase[<<c, "create">>] = "running"
    /\ phase' = [phase EXCEPT ![<<c, "create">>] = "sending", ![<<c, "update">>] = "running"]
    /\ result' = [result EXCEPT ![<<c, "create">>] = TRUE]
    /\ statusMap' = [statusMap EXCEPT ![c] = TimedOut["update"]]
    /\ UNCHANGED <<toVisit, initiated, versionMap, waitVars>>

(* The object exists and may be adopted: the Create goroutine starts an Update
   (which counts itself) before it returns, and so before it reports. *)
CreateAdopts(c) ==
    /\ phase[<<c, "create">>] = "running"
    /\ phase' = [phase EXCEPT ![<<c, "create">>] = "sending", ![<<c, "update">>] = "running"]
    /\ result' = [result EXCEPT ![<<c, "create">>] = TRUE]
    /\ statusMap' = [statusMap EXCEPT ![c] = TimedOut["update"]]
    /\ initiated' = initiated + 1
    /\ UNCHANGED <<toVisit, versionMap, waitVars>>

-----------------------------------------------------------------------------
(* operationDispatcherImpl.Wait and managedDispatcherImpl.Wait. *)

(* The unbuffered channel: the send and the receive are one step. *)
Receive(c, k) ==
    /\ pc = "wait"
    /\ ~expired
    /\ received < initiated
    /\ phase[<<c, k>>] = "sending"
    /\ phase' = [phase EXCEPT ![<<c, k>>] = "done"]
    /\ received' = received + 1
    /\ waitOk' = (waitOk /\ result[<<c, k>>])
    /\ UNCHANGED <<pc, toVisit, result, initiated, expired, timedOut, statusMap, versionMap>>

Expire ==
    /\ pc = "wait"
    /\ ~expired
    /\ expired' = TRUE
    /\ UNCHANGED <<pc, toVisit, phase, result, initiated, received, waitOk, timedOut,
                   statusMap, versionMap>>

(* Giving up the result, but not the wait. *)
WaitTimesOutLoops ==
    /\ pc = "wait"
    /\ expired
    /\ received < initiated
    /\ timedOut' = TRUE
    /\ waitOk' = FALSE
    /\ UNCHANGED <<pc, toVisit, phase, result, initiated, received, expired, statusMap, versionMap>>

(* A timed-out Wait returns before the statuses are settled. *)
WaitTimesOut ==
    /\ pc = "wait"
    /\ expired
    /\ received < initiated
    /\ pc' = "returned"
    /\ timedOut' = TRUE
    /\ waitOk' = FALSE
    /\ UNCHANGED <<toVisit, phase, result, initiated, received, expired, statusMap, versionMap>>

(* Forgetting the nested Update's status, and inventing a status. *)
SettleNoUpdate(s) ==
    CASE s = "CreationTimedOut"     -> "OK"
      [] s = "DeletionTimedOut"     -> "WaitingForRemoval"
      [] s = "LabelRemovalTimedOut" -> NoStatus
      [] OTHER                      -> s

SettleRemoved(s) ==
    CASE s \in {"CreationTimedOut", "UpdateTimedOut"} -> "OK"
      [] s \in {"DeletionTimedOut", "LabelRemovalTimedOut"} -> "Removed"
      [] OTHER -> s

(* The statuses that still say "timed out" did not time out after all. *)
Settle(s) ==
    CASE s \in {"CreationTimedOut", "UpdateTimedOut"} -> "OK"
      [] s = "DeletionTimedOut"     -> "WaitingForRemoval"
      [] s = "LabelRemovalTimedOut" -> NoStatus
      [] OTHER                      -> s

WaitReturns ==
    /\ pc = "wait"
    /\ received >= initiated
    /\ pc' = "returned"
    /\ statusMap' = [c \in Clusters |-> Settle(statusMap[c])]
    /\ UNCHANGED <<toVisit, phase, result, initiated, received, expired, waitOk,
                   timedOut, versionMap>>

-----------------------------------------------------------------------------
Caller ==
    \/ \E c \in Clusters : \/ \E k \in Kinds : Start(c, k)
                           \/ \E s \in {"NotSynced", "WaitingForRemoval"} : RecordClusterStatus(c, s)
                           \/ Skip(c)
    \/ BeginWait

Operation(c, k) ==
    \/ OperationFails(c, k)
    \/ PropagationSucceeds(c, k)
    \/ RemovalSucceeds(c, k)
    \/ k = "create" /\ CreateAdopts(c)

Wait ==
    \/ \E c \in Clusters, k \in Kinds : Receive(c, k)
    \/ Expire
    \/ WaitTimesOut
    \/ WaitReturns

Next ==
    \/ Caller
    \/ \E c \in Clusters, k \in Kinds : Operation(c, k)
    \/ Wait

Spec == Init /\ [][Next]_vars

(* The caller's loop does not block, and Wait's deadline comes.  Nothing is
   assumed of the operations: a member cluster may never answer. *)
FairSpec == Spec /\ WF_vars(Caller) /\ WF_vars(Wait)

-----------------------------------------------------------------------------
Outstanding == {op \in Ops : phase[op] \in {"running", "sending"}}

TypeOK ==
    /\ pc \in {"dispatch", "wait", "returned"}
    /\ toVisit \subseteq Clusters
    /\ phase \in [Ops -> {"idle", "running", "sending", "done"}]
    /\ result \in [Ops -> BOOLEAN]
    /\ initiated \in Nat /\ received \in Nat
    /\ expired \in BOOLEAN /\ waitOk \in BOOLEAN /\ timedOut \in BOOLEAN
    /\ statusMap \in [Clusters -> Status]
    /\ versionMap \subseteq Clusters

(* A Wait that returns without a timeout error has received the result of every
   operation, the Update a Create went on to included: the loop of
   operationDispatcherImpl.Wait never leaves an operation behind. *)
AllReported == pc = "returned" /\ ~timedOut => Outstanding = {}

(* The operation whose outcome is the cluster's outcome: the nested Update when a
   Create went on to one. *)
LastOp(c) == IF phase[<<c, "update">>] # "idle" THEN <<c, "update">>
             ELSE <<c, CHOOSE k \in Kinds : phase[<<c, k>>] # "idle">>

Dispatched(c) == \E k \in Kinds : phase[<<c, k>>] # "idle"

(* After a Wait without timeout the status map tells what happened: a cluster is OK
   exactly when its Create or Update went through and its version is known, has a
   failure exactly when its last operation failed, and no operation-specific timeout
   is left; ok is true exactly when no cluster has a failure. *)
StatusTruthful ==
    pc = "returned" /\ ~timedOut =>
        /\ \A c \in Clusters :
             /\ statusMap[c] \notin {TimedOut[k] : k \in Kinds}
             /\ statusMap[c] = "OK" <=> /\ Dispatched(c)
                                        /\ LastOp(c)[2] \in {"create", "update"}
                                        /\ result[LastOp(c)]
             /\ statusMap[c] = "OK" => c \in versionMap
             /\ statusMap[c] = "OperationFailed" <=> Dispatched(c) /\ ~result[LastOp(c)]
        /\ waitOk <=> \A c \in Clusters : statusMap[c] # "OperationFailed"

(* Once Wait has returned without a timeout nothing writes the maps any more:
   VersionMap and CollectedStatus, which the sync controller calls one after the
   other, read the same round. *)
ResultsFrozen ==
    [][pc = "returned" /\ ~timedOut => UNCHANGED <<statusMap, versionMap>>]_vars

(* Wait does not hang, whatever the member clusters do. *)
WaitEnds == pc = "wait" ~> pc = "returned"

(* The dispatcher is a fork/join: its counter and its channel implement a join
   that closes only when nothing is outstanding, or is abandoned. *)
Barrier == INSTANCE ForkJoin WITH
    outstanding <- Outstanding,
    joined <- IF pc # "returned" THEN "open" ELSE IF timedOut THEN "abandoned" ELSE "joined"

ForkJoinRefined == Barrier!Spec
=============================================================================
