------------------------------- MODULE Follower -------------------------------
(***************************************************************************)
(* The follower controller: a leader (a workload) names the followers (the *)
(* objects it depends on), and a follower is placed wherever its leaders   *)
(* are.  A reconcile of a leader and one of a follower run in different    *)
(* workers and know of each other only by two caches, cacheObservedFrom-   *)
(* Leaders and cacheObservedFromFollowers, which are lost in a restart.    *)
(*                                                                         *)
(* The controller works on the objects of the informer's store without     *)
(* copying them: what it assigns is in the store even if the update fails. *)
(***************************************************************************)
EXTENDS Integers, FiniteSets

CONSTANTS
    Leader, Follower, \* keys of federated objects
    Cluster,
    MaxEdits,         \* bound on changes by users and by the scheduler
    MaxFaults         \* bound on failing updates and restarts

ASSUME KeysAssumption == Leader \cap Follower = {}
ASSUME BoundsAssumption == MaxEdits \in Nat /\ MaxFaults \in Nat

Key == Leader \cup Follower

VARIABLES
    api,            \* the federated objects in the API server
    store,          \* those in the informer's store
    fresh,          \* keys for which the store has the latest resource version
    fromLeaders,    \* cacheObservedFromLeaders
    fromFollowers,  \* cacheObservedFromFollowers
    queue,          \* keys to reconcile
    run,            \* the reconcile of each key, or None
    lost,           \* history: followers changed in the store by an attempt that failed
    edits, faults

caches == <<fromLeaders, fromFollowers>>
vars == <<api, store, fresh, caches, queue, run, lost, edits, faults>>

None == [none |-> TRUE]

-----------------------------------------------------------------------------
(* bidirectionalCache. *)

EmptyCache(K, V) == [cache |-> [k \in K |-> {}], reverseCache |-> [v \in V |-> {}]]

(* Mutant: values that are gone keep their keys. *)
updateAddsOnly(c, key, newValues) ==
    [cache        |-> [c.cache EXCEPT ![key] = newValues],
     reverseCache |-> [v \in DOMAIN c.reverseCache |->
                         IF v \in newValues THEN c.reverseCache[v] \cup {key} ELSE c.reverseCache[v]]]

update(c, key, newValues) ==
    LET staleValues == c.cache[key] \ newValues
        addedValues == newValues \ c.cache[key]
    IN [cache        |-> [c.cache EXCEPT ![key] = newValues],
        reverseCache |-> [v \in DOMAIN c.reverseCache |->
                            IF v \in staleValues THEN c.reverseCache[v] \ {key}
                            ELSE IF v \in addedValues THEN c.reverseCache[v] \cup {key}
                            ELSE c.reverseCache[v]]]

reverseLookup(c, value) == c.reverseCache[value]

-----------------------------------------------------------------------------
(* Leaders.  An object that is gone has no followers. *)
inferFollowers(obj) == IF obj = None THEN {} ELSE obj.wants

ReconcileLeader(l) ==
    /\ l \in queue /\ run[l] = None
    /\ queue' = queue \ {l}
    /\ fromLeaders' = update(fromLeaders, l, inferFollowers(store[l]))
    /\ run' = [run EXCEPT ![l] = [desired |-> inferFollowers(store[l])]]
    /\ UNCHANGED <<api, store, fresh, fromFollowers, lost, edits, faults>>

(* The followers the leader has now and those that follow it still. *)
EnqueueFollowers(l) ==
    /\ run[l] # None
    /\ queue' = queue \cup run[l].desired \cup reverseLookup(fromFollowers, l)
    /\ run' = [run EXCEPT ![l] = None]
    /\ UNCHANGED <<api, store, fresh, caches, lost, edits, faults>>

-----------------------------------------------------------------------------
(* Followers. *)

ReconcileFollower(f) ==
    /\ f \in queue /\ run[f] = None
    /\ queue' = queue \ {f}
    /\ IF store[f] = None
       THEN fromFollowers' = update(fromFollowers, f, {}) /\ UNCHANGED run
       ELSE /\ fromFollowers' = update(fromFollowers, f, store[f].follows)
            /\ run' = [run EXCEPT ![f] = [step |-> "decide", obj |-> store[f],
                                          stored |-> TRUE, latest |-> f \in fresh]]
    /\ UNCHANGED <<api, store, fresh, fromLeaders, lost, edits, faults>>

(* As far as the leaders are in the store. *)
leaderPlacementUnion(leaders) == UNION {store[l].placement : l \in {k \in leaders : store[k] # None}}

Led(f, obj) ==
    LET leaders == IF obj.disabled THEN {} ELSE reverseLookup(fromLeaders, f)
    IN [obj EXCEPT !.follows = leaders, !.placement = leaderPlacementUnion(leaders)]

(* Mutant: what has not changed is written too. *)
UpdateFollowerAlways(f) ==
    /\ run[f] # None /\ run[f].step = "decide"
    /\ run' = [run EXCEPT ![f] = [@ EXCEPT !.step = "update", !.obj = Led(f, @)]]
    /\ store' = IF run[f].stored THEN [store EXCEPT ![f] = Led(f, run[f].obj)] ELSE store
    /\ UNCHANGED <<api, fresh, caches, queue, lost, edits, faults>>

(* updateFollower up to the update: it assigns to the object, which is the *)
(* one in the store unless the informer has replaced that meanwhile.       *)
UpdateFollower(f) ==
    /\ run[f] # None /\ run[f].step = "decide"
    /\ LET new == Led(f, run[f].obj)
       IN IF new = run[f].obj THEN run' = [run EXCEPT ![f] = None] /\ UNCHANGED store
          ELSE /\ run' = [run EXCEPT ![f] = [@ EXCEPT !.step = "update", !.obj = new]]
               /\ store' = IF run[f].stored THEN [store EXCEPT ![f] = new] ELSE store
    /\ UNCHANGED <<api, fresh, caches, queue, lost, edits, faults>>

(* A conflict, or that the follower is gone, brings the key back. *)
Persist(f) ==
    /\ run[f] # None /\ run[f].step = "update"
    /\ run' = [run EXCEPT ![f] = None]
    /\ IF run[f].latest
       THEN /\ api' = [api EXCEPT ![f] = run[f].obj] /\ fresh' = fresh \ {f}
            /\ UNCHANGED queue
       ELSE queue' = queue \cup {f} /\ UNCHANGED <<api, fresh>>
    /\ UNCHANGED <<store, caches, lost, edits, faults>>

(* So does any other error. *)
PersistFails(f) ==
    /\ run[f] # None /\ run[f].step = "update" /\ faults < MaxFaults
    /\ run' = [run EXCEPT ![f] = None] /\ queue' = queue \cup {f}
    /\ lost' = IF run[f].stored THEN lost \cup {f} ELSE lost
    /\ faults' = faults + 1
    /\ UNCHANGED <<api, store, fresh, caches, edits>>

(* An error of leaderPlacementUnion: the leaders have been assigned, if    *)
(* they changed, the placement has not.                                    *)
UnionFails(f) ==
    /\ run[f] # None /\ run[f].step = "decide" /\ faults < MaxFaults
    /\ LET leaders == Led(f, run[f].obj).follows
       IN /\ leaders # {}
          /\ IF run[f].stored /\ leaders # run[f].obj.follows
             THEN store' = [store EXCEPT ![f].follows = leaders] /\ lost' = lost \cup {f}
             ELSE UNCHANGED <<store, lost>>
    /\ run' = [run EXCEPT ![f] = None] /\ queue' = queue \cup {f}
    /\ faults' = faults + 1
    /\ UNCHANGED <<api, fresh, caches, edits>>

-----------------------------------------------------------------------------
(* The environment. *)

(* The informer replaces its copy and enqueues the key. *)
Deliver(k) ==
    /\ k \notin fresh
    /\ store' = [store EXCEPT ![k] = api[k]] /\ fresh' = fresh \cup {k}
    /\ queue' = queue \cup {k}
    /\ run' = IF k \in Follower /\ run[k] # None THEN [run EXCEPT ![k].stored = FALSE] ELSE run
    /\ lost' = lost \ {k}
    /\ UNCHANGED <<api, caches, edits, faults>>

(* The store is filled before the workers start, in no order. *)
Restart ==
    /\ faults < MaxFaults /\ faults' = faults + 1
    /\ store' = api /\ fresh' = Key
    /\ fromLeaders' = EmptyCache(Leader, Follower) /\ fromFollowers' = EmptyCache(Follower, Leader)
    /\ queue' = {k \in Key : api[k] # None}
    /\ run' = [k \in Key |-> None] /\ lost' = {}
    /\ UNCHANGED <<api, edits>>

Write(k, obj) ==
    /\ edits < MaxEdits /\ edits' = edits + 1
    /\ api' = [api EXCEPT ![k] = obj] /\ fresh' = fresh \ {k}
    /\ run' = IF k \in Follower /\ run[k] # None THEN [run EXCEPT ![k].latest = FALSE] ELSE run
    /\ UNCHANGED <<store, caches, queue, lost, faults>>

(* Users create, delete and change leaders, the scheduler places them. *)
ChangeLeader(l) ==
    IF api[l] = None THEN Write(l, [wants |-> Follower, placement |-> {}])
    ELSE \/ Write(l, None)
         \/ \E W \in (SUBSET Follower) \ {api[l].wants} : Write(l, [api[l] EXCEPT !.wants = W])
         \/ \E S \in (SUBSET Cluster) \ {api[l].placement} : Write(l, [api[l] EXCEPT !.placement = S])

NewFollower == [follows |-> {}, placement |-> {}, disabled |-> FALSE]

ChangeFollower(f) ==
    IF api[f] = None THEN Write(f, NewFollower)
    ELSE Write(f, None) \/ Write(f, [api[f] EXCEPT !.disabled = ~@])

-----------------------------------------------------------------------------
(* Some leaders are there and placed, and the controller starts. *)
Init ==
    /\ \E L \in SUBSET Leader : \E S \in SUBSET Cluster :
        api = [k \in Key |-> IF k \in Follower THEN NewFollower
                             ELSE IF k \in L THEN [wants |-> Follower, placement |-> S] ELSE None]
    /\ store = api /\ fresh = Key
    /\ fromLeaders = EmptyCache(Leader, Follower) /\ fromFollowers = EmptyCache(Follower, Leader)
    /\ queue = {k \in Key : api[k] # None}
    /\ run = [k \in Key |-> None] /\ lost = {}
    /\ edits = 0 /\ faults = 0

ReconcileSteps(k) ==
    IF k \in Leader THEN ReconcileLeader(k) \/ EnqueueFollowers(k)
    ELSE ReconcileFollower(k) \/ UpdateFollower(k) \/ Persist(k)

Next ==
    \/ \E k \in Key : ReconcileSteps(k) \/ Deliver(k)
    \/ \E f \in Follower : PersistFails(f) \/ UnionFails(f) \/ ChangeFollower(f)
    \/ \E l \in Leader : ChangeLeader(l)
    \/ Restart

Fairness == \A k \in Key : WF_vars(ReconcileSteps(k)) /\ WF_vars(Deliver(k))

Spec == Init /\ [][Next]_vars /\ Fairness

-----------------------------------------------------------------------------
(* Properties. *)

Quiet == queue = {} /\ fresh = Key /\ \A k \in Key : run[k] = None

LeadersOf(f) ==
    IF api[f].disabled THEN {} ELSE {l \in Leader : api[l] # None /\ f \in api[l].wants}

Follows(f) ==
    api[f] # None =>
        /\ api[f].follows = LeadersOf(f)
        /\ api[f].placement = UNION {api[l].placement : l \in LeadersOf(f)}

(* No change of a leader or of a follower gets lost between the two        *)
(* caches: whichever reconcile is later sees what the other has done, or   *)
(* is run again because of it, through stale copies, conflicts, restarts,  *)
(* deletion and creation.  Once the controller rests, every follower names *)
(* exactly the leaders that want it and is where they are - unless an      *)
(* attempt failed, with an error other than a conflict, after it had       *)
(* assigned to the object of the store (see lost).                         *)
QuietIsFollowed == Quiet => \A f \in Follower \ lost : Follows(f)

(* Leaders that enqueue followers, followers that write themselves and the *)
(* events of those writes come to an end.                                  *)
Settles == <>[]Quiet

(* What the API says of Follows: "the Kubernetes object should be          *)
(* propagated to all member clusters that its "leaders" are placed in".    *)
AlwaysFollowed == Quiet => \A f \in Follower : Follows(f)
=============================================================================
