-------------------------- MODULE PendingControllers --------------------------
(***************************************************************************)
(* The pending-controllers annotation of one federated object              *)
(* (pkg/util/pendingcontrollers) and the controllers that keep it: the     *)
(* federate controller, and the controllers of the FederatedTypeConfig     *)
(* (the scheduler, override, namespace auto-propagation), which read the   *)
(* object from a cache, compute, and write it back.                        *)
(*                                                                         *)
(* The annotation is a list of steps, each a list of names; the order of   *)
(* the names in a step does not matter, so a step is a set here.  The      *)
(* result of a controller (placements, overrides, annotations) is a        *)
(* version number, what it reads besides the object (policies, clusters)   *)
(* another; the policies the object names exist (the override controller   *)
(* and the scheduler leave an object pending until they do).  A copy of    *)
(* the object is current when it equals the object: no two versions of it  *)
(* are equal, for template and results only grow, and while they stand     *)
(* still the annotation only shrinks.                                      *)
(***************************************************************************)
EXTENDS Integers, Sequences, FiniteSets, SequencesExt

CONSTANTS
    AllControllers, \* GetControllers of the FederatedTypeConfig: a sequence of sets
    Failing,        \* controllers whose writes may fail
    NoRetry,        \* controllers that return StatusAllOK when a write fails
    MaxSource,      \* bound: versions of the source object
    MaxResult,      \* bound: versions of a controller's result
    MaxStimuli,     \* bound: changes of what controllers read besides the object
    MaxFailures     \* bound: writes that fail, and restarts

Controllers == UNION Range(AllControllers)

ASSUME PipelineAssumption ==
    /\ AllControllers \in Seq(SUBSET Controllers)
    /\ \A i, j \in DOMAIN AllControllers : i # j => AllControllers[i] \cap AllControllers[j] = {}
    /\ {} \notin Range(AllControllers)
    /\ Failing \subseteq Controllers /\ NoRetry \subseteq Controllers
    /\ MaxSource \in Nat \ {0}

VARIABLES
    source,    \* the version of the source object
    fed,       \* the federated object in the API server: template, result, pending
    cache,     \* its copy in the informer cache
    queued,    \* controllers with the object's key in their queue
    work,      \* per controller: what its reconcile has read, or Idle
    stimulus,  \* per controller: the version of what it reads besides the object
    failures,
    basis,     \* history, per controller: the part of the object, and
    seen       \* the stimulus, its result was last computed from

vars == <<source, fed, cache, queued, work, stimulus, failures, basis, seen>>

Idle == [busy |-> FALSE]

Level == [k \in Controllers |-> CHOOSE i \in DOMAIN AllControllers : k \in AllControllers[i]]

Abstract == INSTANCE Pipeline WITH
    MaxTemplate <- MaxSource,
    template <- fed.template,
    result <- fed.result,
    pending <- UNION Range(fed.pending)

-----------------------------------------------------------------------------
(* pkg/util/pendingcontrollers *)

(* The steps without the empty ones. *)
NormalizeControllers(steps) ==
    LET kept[i \in 0 .. Len(steps)] ==
            IF i = 0 THEN <<>>
            ELSE IF steps[i] = {} THEN kept[i - 1] ELSE Append(kept[i - 1], steps[i])
    IN  kept[Len(steps)]

(* The steps after the one that names the controller. *)
GetDownstreamControllers(k) ==
    LET i == CHOOSE i \in DOMAIN AllControllers : k \in AllControllers[i]
    IN  SubSeq(AllControllers, i + 1, Len(AllControllers))

(* Keeping what was pending of the later steps. *)
UpdateWithinRest(pending, k, shouldSetDownstream) ==
    LET current == IF pending = <<>> THEN {} ELSE Head(pending)
        rest == IF pending = <<>> THEN <<>> ELSE Tail(pending)
    IN  NormalizeControllers(<<current \ {k}>> \o rest)

(* Leaving an empty step in front. *)
UpdateUnnormalized(pending, k, shouldSetDownstream) ==
    LET current == IF pending = <<>> THEN {} ELSE Head(pending)
        rest == IF pending = <<>> THEN <<>> ELSE Tail(pending)
    IN  <<current \ {k}>> \o
            (IF shouldSetDownstream THEN GetDownstreamControllers(k) ELSE rest)

UpdatePendingControllers(pending, k, shouldSetDownstream) ==
    LET current == IF pending = <<>> THEN {} ELSE Head(pending)
        rest == IF pending = <<>> THEN <<>> ELSE Tail(pending)
    IN  NormalizeControllers(<<current \ {k}>> \o
            (IF shouldSetDownstream THEN GetDownstreamControllers(k) ELSE rest))

(* Any controller that is pending, whatever its step. *)
DependenciesIgnored(pending, k) == pending # <<>> => k \in UNION Range(pending)

ControllerDependenciesFulfilled(pending, k) == pending # <<>> => k \in Head(pending)

-----------------------------------------------------------------------------
Init ==
    /\ source = 1
    /\ fed = [template |-> 1, result |-> [k \in Controllers |-> 0],
              pending |-> NormalizeControllers(AllControllers)]
    /\ cache = fed
    /\ queued = Controllers
    /\ work = [k \in Controllers |-> Idle]
    /\ stimulus = [k \in Controllers |-> 0]
    /\ failures = 0
    /\ basis = [k \in Controllers |-> Abstract!Inputs(0, fed.result, k)]
    /\ seen = [k \in Controllers |-> -1]

UpdateSource ==
    /\ source < MaxSource
    /\ source' = source + 1
    /\ UNCHANGED <<fed, cache, queued, work, stimulus, failures, basis, seen>>

(* updateFederatedObjectForSourceObject: every update of the federated object starts
   the pipeline over.  A write from an old copy is refused and tried again. *)
Federate ==
    /\ cache.template # source
    /\ cache = fed
    /\ fed' = [fed EXCEPT !.template = source, !.pending = NormalizeControllers(AllControllers)]
    /\ UNCHANGED <<source, cache, queued, work, stimulus, failures, basis, seen>>

(* A policy or a cluster that concerns controller k changes. *)
Stimulate(k) ==
    /\ FoldFunctionOnSet(+, 0, stimulus, Controllers) < MaxStimuli
    /\ stimulus' = [stimulus EXCEPT ![k] = @ + 1]
    /\ queued' = queued \cup {k}
    /\ UNCHANGED <<source, fed, cache, work, failures, basis, seen>>

(* Every change of the object enqueues it for every controller. *)
Observe ==
    /\ cache # fed
    /\ cache' = fed
    /\ queued' = Controllers
    /\ UNCHANGED <<source, fed, work, stimulus, failures, basis, seen>>

(* reconcile: not this controller's turn.  The key is dropped. *)
Skip(k) ==
    /\ k \in queued /\ ~work[k].busy
    /\ ~ControllerDependenciesFulfilled(cache.pending, k)
    /\ queued' = queued \ {k}
    /\ UNCHANGED <<source, fed, cache, work, stimulus, failures, basis, seen>>

Read(k) ==
    /\ k \in queued /\ ~work[k].busy
    /\ ControllerDependenciesFulfilled(cache.pending, k)
    /\ queued' = queued \ {k}
    /\ work' = [work EXCEPT ![k] = [busy |-> TRUE, obj |-> cache, stimulus |-> stimulus[k]]]
    /\ UNCHANGED <<source, fed, cache, stimulus, failures, basis, seen>>

-----------------------------------------------------------------------------
(* The rest of reconcile.  changed: the result differs from the one in the object,
   which takes something new to compute it from. *)

New(k) == \/ basis[k] # Abstract!Inputs(work[k].obj.template, work[k].obj.result, k)
          \/ seen[k] # work[k].stimulus

Updated(k, changed) ==
    LET obj == work[k].obj
    IN  [obj EXCEPT !.result[k] = IF changed THEN @ + 1 ELSE @,
                    !.pending = UpdatePendingControllers(@, k, changed)]

Computing(k, changed) ==
    /\ work[k].busy
    /\ changed => New(k) /\ work[k].obj.result[k] < MaxResult
    /\ work' = [work EXCEPT ![k] = Idle]

(* The result in the object is that of the inputs read. *)
Record(k) ==
    /\ basis' = [basis EXCEPT ![k] = Abstract!Inputs(fed.template, fed.result, k)]
    /\ seen' = [seen EXCEPT ![k] = work[k].stimulus]

(* Nothing to write.  The copy may be old: then an event is still to come. *)
NothingToWrite(k) ==
    /\ Computing(k, FALSE)
    /\ Updated(k, FALSE) = work[k].obj
    /\ IF work[k].obj = fed THEN Record(k) ELSE UNCHANGED <<basis, seen>>
    /\ UNCHANGED <<source, fed, cache, queued, stimulus, failures>>

Write(k, changed) ==
    /\ Computing(k, changed)
    /\ Updated(k, changed) # work[k].obj
    /\ work[k].obj = fed
    /\ fed' = Updated(k, changed)
    /\ Record(k)
    /\ UNCHANGED <<source, cache, queued, stimulus, failures>>

(* The write is refused: StatusConflict. *)
Conflict(k, changed) ==
    /\ Computing(k, changed)
    /\ Updated(k, changed) # work[k].obj
    /\ work[k].obj # fed
    /\ queued' = queued \cup {k}
    /\ UNCHANGED <<source, fed, cache, stimulus, failures, basis, seen>>

(* Never trying again. *)
WriteFailsDropped(k, changed) ==
    /\ k \in Failing
    /\ failures < MaxFailures /\ failures' = failures + 1
    /\ Computing(k, changed)
    /\ Updated(k, changed) # work[k].obj
    /\ UNCHANGED <<source, fed, cache, queued, stimulus, basis, seen>>

(* Any other error: StatusError, but for the controllers in NoRetry. *)
WriteFails(k, changed) ==
    /\ k \in Failing
    /\ failures < MaxFailures /\ failures' = failures + 1
    /\ Computing(k, changed)
    /\ Updated(k, changed) # work[k].obj
    /\ queued' = IF k \in NoRetry THEN queued ELSE queued \cup {k}
    /\ UNCHANGED <<source, fed, cache, stimulus, basis, seen>>

(* The process is restarted: everything is listed and enqueued anew. *)
Restart ==
    /\ failures < MaxFailures /\ failures' = failures + 1
    /\ cache' = fed
    /\ queued' = Controllers
    /\ work' = [k \in Controllers |-> Idle]
    /\ UNCHANGED <<source, fed, stimulus, basis, seen>>

Reconcile(k) ==
    \/ Skip(k) \/ Read(k) \/ NothingToWrite(k)
    \/ \E changed \in BOOLEAN : Write(k, changed) \/ Conflict(k, changed)

Next ==
    \/ UpdateSource \/ Federate \/ Observe \/ Restart
    \/ \E k \in Controllers :
          \/ Stimulate(k) \/ Reconcile(k)
          \/ \E changed \in BOOLEAN : WriteFails(k, changed)

Spec == Init /\ [][Next]_vars

(* The informer delivers, the federate controller and every worker run. *)
FairSpec ==
    /\ Spec
    /\ WF_vars(Observe) /\ WF_vars(Federate)
    /\ \A k \in Controllers : WF_vars(Reconcile(k))

-----------------------------------------------------------------------------
(* The annotation in the object is what the abstract pipeline says: the copies, the
   refused writes and the dropped keys of the controllers do not show. *)
PipelineRefined == Abstract!Spec

(* What the pipeline promises holds of the object in the API server.  A controller that
   is not pending has computed its result from the template and the results of the
   earlier steps that stand in the object, though controllers work from copies, in
   parallel, and run again out of turn: what the sync controller propagates, once no
   controller is pending, fits together. *)
Settled == Abstract!Settled

(* "Step T must complete before step T+1 can commence": no result is written before
   the steps it depends on are through. *)
InOrder == Abstract!InOrder

(* "StatusAllOK indicates that reconciliation was successful and the object should not
   be requeued": no wakeup is lost, though a key is dropped when it is not the
   controller's turn.  When nothing is queued and the cache is current, no controller is
   pending, and each has computed its result from what it would read now. *)
QuietIsDone ==
    queued = {} /\ cache = fed /\ (\A k \in Controllers : ~work[k].busy)
    => fed.pending = <<>> /\ seen = stimulus

(* The pipeline is left through: in the end the federated object has the template of
   the source and no controller is pending. *)
PipelineEnds == <>[](fed.template = source /\ fed.pending = <<>>)
=============================================================================
