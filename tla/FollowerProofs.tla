---------------------------- MODULE FollowerProofs ----------------------------
(***************************************************************************)
(* That a follower ends up where its leaders are, for every set of         *)
(* leaders, followers and clusters and any number of edits and faults.     *)
(* The two caches are written by different workers, so the argument is     *)
(* about who has yet to run: whenever a follower that is at rest disagrees *)
(* with a leader, that leader's reconcile is still to come and will        *)
(* enqueue the follower.                                                   *)
(***************************************************************************)
EXTENDS Follower, TLAPS

LeaderObject == [wants : SUBSET Follower, placement : SUBSET Cluster]
FollowerObject == [follows : SUBSET Leader, placement : SUBSET Cluster, disabled : BOOLEAN]
LeaderRun == [desired : SUBSET Follower]
FollowerRun == [step : {"decide", "update"}, obj : FollowerObject,
                stored : BOOLEAN, latest : BOOLEAN]
Cache(K, V) == [cache : [K -> SUBSET V], reverseCache : [V -> SUBSET K]]

Objects(o) ==
    /\ o \in [Key -> LeaderObject \cup FollowerObject \cup {None}]
    /\ \A l \in Leader : o[l] \in LeaderObject \cup {None}
    /\ \A f \in Follower : o[f] \in FollowerObject \cup {None}

TypeOK ==
    /\ Objects(api) /\ Objects(store)
    /\ fresh \subseteq Key /\ queue \subseteq Key /\ lost \subseteq Follower
    /\ fromLeaders \in Cache(Leader, Follower) /\ fromFollowers \in Cache(Follower, Leader)
    /\ run \in [Key -> LeaderRun \cup FollowerRun \cup {None}]
    /\ \A l \in Leader : run[l] \in LeaderRun \cup {None}
    /\ \A f \in Follower : run[f] \in FollowerRun \cup {None}
    /\ edits \in 0..MaxEdits /\ faults \in 0..MaxFaults

(* reverseCache is the converse of cache. *)
Converse(c, K, V) == \A k \in K, v \in V : k \in c.reverseCache[v] <=> v \in c.cache[k]

CachesMatch == Converse(fromLeaders, Leader, Follower) /\ Converse(fromFollowers, Follower, Leader)

(* A leader that is not queued is in the cache as it is in the store. *)
LeaderKnown(l) ==
    /\ l \notin queue => fromLeaders.cache[l] = inferFollowers(store[l])
    /\ l \in fresh => store[l] = api[l]

(* What a reconcile of a follower that is under way can rely on. *)
RunKnown(f) ==
    run[f] # None =>
        /\ ~run[f].stored => f \in queue
        /\ run[f].stored /\ ~run[f].latest => f \notin fresh
        /\ run[f].stored /\ run[f].step = "decide" =>
             store[f] = run[f].obj /\ fromFollowers.cache[f] = run[f].obj.follows

(* The store differs from the API only where the informer lags, an update is under way
   or an attempt failed. *)
StoreKnown(f) ==
    f \in fresh \ lost /\ (run[f] = None \/ run[f].step = "decide" \/ ~run[f].stored) =>
        store[f] = api[f]

AtRest(f) == f \notin queue /\ f \in fresh \ lost /\ run[f] = None /\ store[f] # None

(* The leader's reconcile is to come, or half done, and will enqueue the follower. *)
WillEnqueue(l, f) ==
    \/ l \in queue /\ (f \in inferFollowers(store[l]) \/ l \in fromFollowers.cache[f])
    \/ run[l] # None /\ (f \in run[l].desired \/ l \in fromFollowers.cache[f])

Placed(l) == IF store[l] = None THEN {} ELSE store[l].placement

Wanted(l, f) == ~store[f].disabled /\ f \in inferFollowers(store[l])

(* What the follower has of a leader, whose placement it saw as p, is still so. *)
Concurs(l, f, p) ==
    /\ l \in store[f].follows <=> Wanted(l, f)
    /\ l \in store[f].follows => p = Placed(l)

(* A follower at rest has what it saw of its leaders when it last decided, and a leader
   that has changed since will enqueue it. *)
Agrees(f) ==
    AtRest(f) =>
        /\ fromFollowers.cache[f] = store[f].follows
        /\ \E seen \in [Leader -> SUBSET Cluster] :
             /\ store[f].placement = UNION {seen[l] : l \in store[f].follows}
             /\ \A l \in Leader : WillEnqueue(l, f) \/ Concurs(l, f, seen[l])

FollowerKnown(f) == RunKnown(f) /\ StoreKnown(f) /\ Agrees(f)

IInv ==
    /\ TypeOK
    /\ CachesMatch
    /\ \A l \in Leader : LeaderKnown(l)
    /\ \A f \in Follower : FollowerKnown(f)

-----------------------------------------------------------------------------
(* bidirectionalCache.update replaces the values of one key and keeps the reverse cache
   the converse of the cache. *)
LEMMA UpdateIsExact ==
  ASSUME NEW K, NEW V, NEW c \in Cache(K, V), Converse(c, K, V),
         NEW key \in K, NEW newValues \in SUBSET V
  PROVE  /\ update(c, key, newValues) \in Cache(K, V)
         /\ Converse(update(c, key, newValues), K, V)
         /\ \A k \in K : update(c, key, newValues).cache[k] =
                           IF k = key THEN newValues ELSE c.cache[k]
  BY DEF update, Cache, Converse

LEMMA EmptyCacheIsExact ==
  ASSUME NEW K, NEW V
  PROVE  /\ EmptyCache(K, V) \in Cache(K, V) /\ Converse(EmptyCache(K, V), K, V)
         /\ \A k \in K : EmptyCache(K, V).cache[k] = {}
  BY DEF EmptyCache, Cache, Converse

(* A reconcile is not None. *)
LEMMA NotNone ==
  /\ None \notin LeaderRun /\ None \notin FollowerRun
  /\ None \notin LeaderObject /\ None \notin FollowerObject
  BY DEF None, LeaderRun, FollowerRun, LeaderObject, FollowerObject

LEMMA LedTyped ==
  ASSUME TypeOK, NEW f \in Follower, NEW obj \in FollowerObject
  PROVE  /\ Led(f, obj) \in FollowerObject
         /\ Led(f, obj).disabled = obj.disabled
         /\ Led(f, obj).follows = IF obj.disabled THEN {} ELSE fromLeaders.reverseCache[f]
         /\ Led(f, obj).placement = UNION {Placed(l) : l \in Led(f, obj).follows}
<1> DEFINE leaders == IF obj.disabled THEN {} ELSE reverseLookup(fromLeaders, f)
<1>1. leaders \in SUBSET Leader
  BY DEF TypeOK, Cache, reverseLookup
<1>2. leaderPlacementUnion(leaders) = UNION {Placed(l) : l \in leaders}
  BY DEF leaderPlacementUnion, Placed
<1>3. ASSUME NEW l \in Leader PROVE Placed(l) \in SUBSET Cluster
  BY DEF Placed, TypeOK, Objects, LeaderObject
<1>4. UNION {Placed(l) : l \in leaders} \in SUBSET Cluster
  BY <1>1, <1>3
<1> QED BY <1>1, <1>2, <1>4 DEF Led, FollowerObject, reverseLookup

LEMMA InferTyped ==
  ASSUME TypeOK, NEW l \in Leader
  PROVE  inferFollowers(store[l]) \in SUBSET Follower
  BY DEF TypeOK, Objects, inferFollowers, LeaderObject

(* A write by a user or the scheduler, of an object of the right kind. *)
LEMMA WriteTyped ==
  ASSUME TypeOK, NEW k \in Key, NEW obj, Write(k, obj),
         k \in Leader => obj \in LeaderObject \cup {None},
         k \in Follower => obj \in FollowerObject \cup {None}
  PROVE  TypeOK'
<1>1. Objects(api)'
  BY KeysAssumption DEF Write, TypeOK, Objects, Key
<1>2. run' \in [Key -> LeaderRun \cup FollowerRun \cup {None}]
      /\ (\A l \in Leader : run'[l] \in LeaderRun \cup {None})
      /\ (\A f \in Follower : run'[f] \in FollowerRun \cup {None})
  <2>1. CASE k \in Follower /\ run[k] # None
    <3>1. run[k] \in FollowerRun /\ run' = [run EXCEPT ![k].latest = FALSE]
      BY <2>1 DEF TypeOK, Write
    <3>2. [run[k] EXCEPT !.latest = FALSE] \in FollowerRun
      BY <3>1 DEF FollowerRun
    <3> QED BY <2>1, <3>1, <3>2, KeysAssumption DEF TypeOK, Key
  <2>2. CASE ~(k \in Follower /\ run[k] # None)
    BY <2>2 DEF TypeOK, Write
  <2> QED BY <2>1, <2>2
<1>3. edits' \in 0..MaxEdits
  BY BoundsAssumption DEF Write, TypeOK
<1> QED BY <1>1, <1>2, <1>3 DEF Write, TypeOK, Objects, caches

LEMMA NextTypeOK == IInv /\ [Next]_vars => TypeOK'
<1> SUFFICES ASSUME IInv, [Next]_vars PROVE TypeOK'
  OBVIOUS
<1>0. TypeOK /\ CachesMatch
  BY DEF IInv
<1>1. ASSUME NEW l \in Leader, ReconcileLeader(l) PROVE TypeOK'
  <2>1. inferFollowers(store[l]) \in SUBSET Follower
    BY <1>0, InferTyped
  <2>2. fromLeaders' \in Cache(Leader, Follower)
    BY <1>0, <1>1, <2>1, UpdateIsExact DEF TypeOK, CachesMatch, ReconcileLeader
  <2> QED BY <1>0, <1>1, <2>1, <2>2, KeysAssumption DEF ReconcileLeader, TypeOK, Objects, Key, LeaderRun
<1>2. ASSUME NEW l \in Leader, EnqueueFollowers(l) PROVE TypeOK'
  <2>1. run[l].desired \in SUBSET Follower
    BY <1>0, <1>2 DEF TypeOK, EnqueueFollowers, LeaderRun
  <2>2. reverseLookup(fromFollowers, l) \in SUBSET Follower
    BY <1>0 DEF TypeOK, Cache, reverseLookup
  <2> QED BY <1>0, <1>2, <2>1, <2>2 DEF EnqueueFollowers, TypeOK, Objects, Key, caches
<1>3. ASSUME NEW f \in Follower, ReconcileFollower(f) PROVE TypeOK'
  <2>1. CASE store[f] = None
    <3>1. fromFollowers' \in Cache(Follower, Leader)
      BY <1>0, <1>3, <2>1, UpdateIsExact DEF TypeOK, CachesMatch, ReconcileFollower
    <3> QED BY <1>0, <1>3, <2>1, <3>1 DEF ReconcileFollower, TypeOK, Objects
  <2>2. CASE store[f] # None
    <3>1. store[f] \in FollowerObject
      BY <1>0, <2>2 DEF TypeOK, Objects
    <3>2. fromFollowers' \in Cache(Follower, Leader)
      <4>1. store[f].follows \in SUBSET Leader
        BY <3>1 DEF FollowerObject
      <4> QED BY <1>0, <1>3, <2>2, <4>1, UpdateIsExact DEF TypeOK, CachesMatch, ReconcileFollower
    <3>3. [step |-> "decide", obj |-> store[f], stored |-> TRUE, latest |-> f \in fresh] \in FollowerRun
      BY <3>1 DEF FollowerRun
    <3> DEFINE begun == [step |-> "decide", obj |-> store[f], stored |-> TRUE, latest |-> f \in fresh]
    <3>4. begun \in FollowerRun
      BY <3>3
    <3>5. /\ run' = [run EXCEPT ![f] = begun] /\ queue' = queue \ {f}
          /\ UNCHANGED <<api, store, fresh, fromLeaders, lost, edits, faults>>
      BY <1>3, <2>2 DEF ReconcileFollower
    <3> HIDE DEF begun
    <3> QED BY <1>0, <3>2, <3>4, <3>5, KeysAssumption DEF TypeOK, Objects, Key
  <2> QED BY <2>1, <2>2
<1>4. ASSUME NEW f \in Follower, UpdateFollower(f) PROVE TypeOK'
  <2> DEFINE new == Led(f, run[f].obj)
  <2>1. run[f] \in FollowerRun /\ run[f].obj \in FollowerObject
    BY <1>0, <1>4 DEF UpdateFollower, TypeOK, FollowerRun
  <2>2. new \in FollowerObject
    BY <1>0, <2>1, LedTyped
  <2>3. CASE new = run[f].obj
    <3>1. /\ run' = [run EXCEPT ![f] = None]
          /\ UNCHANGED <<api, store, fresh, fromLeaders, fromFollowers, queue, lost, edits, faults>>
      BY <1>4, <2>3 DEF UpdateFollower, caches
    <3> HIDE DEF new
    <3> QED BY <1>0, <3>1 DEF TypeOK, Objects, Key
  <2>4. CASE new # run[f].obj
    <3>1. [run[f] EXCEPT !.step = "update", !.obj = new] \in FollowerRun
      BY <2>1, <2>2 DEF FollowerRun
    <3>2. Objects(store)'
      BY <1>0, <1>4, <2>2, <2>4, KeysAssumption DEF UpdateFollower, TypeOK, Objects, Key
    <3>3. run' = [run EXCEPT ![f] = [run[f] EXCEPT !.step = "update", !.obj = new]]
      BY <1>4, <2>4 DEF UpdateFollower
    <3>4. UNCHANGED <<api, fresh, fromLeaders, fromFollowers, queue, lost, edits, faults>>
      BY <1>4 DEF UpdateFollower, caches
    <3> HIDE DEF new
    <3> QED BY <1>0, <3>1, <3>2, <3>3, <3>4, KeysAssumption DEF TypeOK, Objects, Key
  <2> QED BY <2>3, <2>4
<1>5. ASSUME NEW f \in Follower, Persist(f) PROVE TypeOK'
  <2>1. run[f].obj \in FollowerObject
    BY <1>0, <1>5 DEF Persist, TypeOK, FollowerRun
  <2>2. Objects(api)'
    BY <1>0, <1>5, <2>1, KeysAssumption DEF Persist, TypeOK, Objects, Key
  <2> QED BY <1>0, <1>5, <2>2 DEF Persist, TypeOK, Objects, Key, caches
<1>6. ASSUME NEW f \in Follower, PersistFails(f) PROVE TypeOK'
  BY <1>0, <1>6, BoundsAssumption DEF PersistFails, TypeOK, Objects, Key, caches
<1>12. ASSUME NEW f \in Follower, UnionFails(f) PROVE TypeOK'
  <2>1. run[f] \in FollowerRun /\ faults' \in 0 .. MaxFaults
    BY <1>0, <1>12, BoundsAssumption DEF UnionFails, TypeOK
  <2>2. Led(f, run[f].obj).follows \in SUBSET Leader
    BY <1>0, <2>1, LedTyped DEF FollowerRun, FollowerObject
  <2>3. Objects(store)' /\ lost' \subseteq Follower
    <3>1. CASE UNCHANGED <<store, lost>>
      BY <1>0, <3>1 DEF TypeOK, Objects
    <3>2. CASE /\ run[f].stored /\ lost' = lost \cup {f}
               /\ store' = [store EXCEPT ![f].follows = Led(f, run[f].obj).follows]
      <4>1. store[f] = run[f].obj
        BY <1>12, <3>2 DEF UnionFails, IInv, FollowerKnown, RunKnown
      <4>2. [store[f] EXCEPT !.follows = Led(f, run[f].obj).follows] \in FollowerObject
        BY <2>1, <2>2, <4>1 DEF FollowerRun, FollowerObject
      <4> QED BY <1>0, <3>2, <4>2, KeysAssumption DEF TypeOK, Objects, Key
    <3> QED BY <1>12, <3>1, <3>2 DEF UnionFails
  <2> QED BY <1>0, <1>12, <2>1, <2>3 DEF UnionFails, TypeOK, Objects, Key, caches
<1>7. ASSUME NEW k \in Key, Deliver(k) PROVE TypeOK'
  <2>1. Objects(store)'
    BY <1>0, <1>7 DEF Deliver, TypeOK, Objects, Key
  <2>2. run' \in [Key -> LeaderRun \cup FollowerRun \cup {None}]
        /\ (\A l \in Leader : run'[l] \in LeaderRun \cup {None})
        /\ (\A f \in Follower : run'[f] \in FollowerRun \cup {None})
    <3>1. CASE k \in Follower /\ run[k] # None
      <4>1. run[k] \in FollowerRun /\ run' = [run EXCEPT ![k].stored = FALSE]
        BY <1>0, <1>7, <3>1 DEF TypeOK, Deliver
      <4>2. [run[k] EXCEPT !.stored = FALSE] \in FollowerRun
        BY <4>1 DEF FollowerRun
      <4> QED BY <1>0, <3>1, <4>1, <4>2, KeysAssumption DEF TypeOK, Key
    <3>2. CASE ~(k \in Follower /\ run[k] # None)
      BY <1>0, <1>7, <3>2 DEF TypeOK, Deliver
    <3> QED BY <3>1, <3>2
  <2> QED BY <1>0, <1>7, <2>1, <2>2 DEF Deliver, TypeOK, Objects, caches
<1>8. CASE Restart
  <2>1. fromLeaders' \in Cache(Leader, Follower) /\ fromFollowers' \in Cache(Follower, Leader)
    BY <1>8, EmptyCacheIsExact DEF Restart
  <2> QED BY <1>0, <1>8, <2>1, BoundsAssumption DEF Restart, TypeOK, Objects, Key
<1>9. ASSUME NEW l \in Leader, ChangeLeader(l) PROVE TypeOK'
  <2>1. PICK obj \in LeaderObject \cup {None} : Write(l, obj)
    BY <1>0, <1>9 DEF ChangeLeader, TypeOK, Objects, LeaderObject
  <2> QED BY <1>0, <2>1, WriteTyped, KeysAssumption DEF Key
<1>10. ASSUME NEW f \in Follower, ChangeFollower(f) PROVE TypeOK'
  <2>1. PICK obj \in FollowerObject \cup {None} : Write(f, obj)
    BY <1>0, <1>10 DEF ChangeFollower, NewFollower, TypeOK, Objects, FollowerObject
  <2> QED BY <1>0, <2>1, WriteTyped, KeysAssumption DEF Key
<1>11. CASE UNCHANGED vars
  BY <1>0, <1>11 DEF vars, caches, TypeOK, Objects
<1> QED
  BY <1>1, <1>2, <1>3, <1>4, <1>5, <1>6, <1>7, <1>8, <1>9, <1>10, <1>11, <1>12
  DEF Next, ReconcileSteps, Key

-----------------------------------------------------------------------------
LEMMA NextCachesMatch == IInv /\ [Next]_vars => CachesMatch'
<1> SUFFICES ASSUME IInv, [Next]_vars PROVE CachesMatch'
  OBVIOUS
<1>0. TypeOK /\ CachesMatch
  BY DEF IInv
<1>1. ASSUME NEW l \in Leader, ReconcileLeader(l) PROVE CachesMatch'
  <2>1. inferFollowers(store[l]) \in SUBSET Follower
    BY <1>0, InferTyped
  <2>2. Converse(fromLeaders', Leader, Follower)
    BY <1>0, <1>1, <2>1, UpdateIsExact DEF TypeOK, CachesMatch, ReconcileLeader
  <2> QED BY <1>0, <1>1, <2>2 DEF CachesMatch, ReconcileLeader, Converse
<1>2. ASSUME NEW f \in Follower, ReconcileFollower(f) PROVE CachesMatch'
  <2>1. PICK vals \in SUBSET Leader : fromFollowers' = update(fromFollowers, f, vals)
    BY <1>0, <1>2 DEF ReconcileFollower, TypeOK, Objects, FollowerObject
  <2>2. Converse(fromFollowers', Follower, Leader)
    BY <1>0, <2>1, UpdateIsExact DEF TypeOK, CachesMatch
  <2> QED BY <1>0, <1>2, <2>2 DEF CachesMatch, ReconcileFollower, Converse
<1>3. CASE Restart
  BY <1>3, EmptyCacheIsExact DEF Restart, CachesMatch
<1>4. CASE UNCHANGED caches
  BY <1>0, <1>4 DEF caches, CachesMatch, Converse
<1>5. ASSUME NEW k, \/ EnqueueFollowers(k) \/ UpdateFollower(k) \/ Persist(k) \/ PersistFails(k)
                    \/ UnionFails(k) \/ Deliver(k)
      PROVE  UNCHANGED caches
  BY <1>5 DEF EnqueueFollowers, UpdateFollower, Persist, PersistFails, UnionFails, Deliver
<1>6. ASSUME NEW k, ChangeLeader(k) \/ ChangeFollower(k) PROVE UNCHANGED caches
  BY <1>6 DEF ChangeLeader, ChangeFollower, Write
<1> QED BY <1>1, <1>2, <1>3, <1>4, <1>5, <1>6 DEF Next, ReconcileSteps, Key, vars

LEMMA NextLeaderKnown ==
  ASSUME IInv, [Next]_vars, NEW m \in Leader
  PROVE  LeaderKnown(m)'
<1>0. TypeOK /\ CachesMatch /\ LeaderKnown(m) /\ m \notin Follower /\ m \in Key
  BY KeysAssumption DEF IInv, Key
<1> USE <1>0 DEF LeaderKnown
<1>1. ASSUME NEW l \in Leader, ReconcileLeader(l) PROVE LeaderKnown(m)'
  <2>1. inferFollowers(store[l]) \in SUBSET Follower
    BY <1>0, InferTyped
  <2>2. fromLeaders'.cache[m] = IF m = l THEN inferFollowers(store[l]) ELSE fromLeaders.cache[m]
    BY <1>0, <1>1, <2>1, UpdateIsExact DEF TypeOK, CachesMatch, ReconcileLeader
  <2> QED BY <1>1, <2>2 DEF ReconcileLeader
<1>2. ASSUME NEW l \in Leader, EnqueueFollowers(l) PROVE LeaderKnown(m)'
  BY <1>2 DEF EnqueueFollowers, caches
<1>3. ASSUME NEW f \in Follower, ReconcileFollower(f) PROVE LeaderKnown(m)'
  BY <1>3 DEF ReconcileFollower
<1>4. ASSUME NEW f \in Follower, UpdateFollower(f) PROVE LeaderKnown(m)'
  <2>1. store'[m] = store[m]
    BY <1>4 DEF UpdateFollower, TypeOK, Objects
  <2> QED BY <1>4, <2>1 DEF UpdateFollower, caches
<1>5. ASSUME NEW f \in Follower, Persist(f) PROVE LeaderKnown(m)'
  BY <1>5 DEF Persist, caches, TypeOK, Objects
<1>6. ASSUME NEW f \in Follower, PersistFails(f) PROVE LeaderKnown(m)'
  BY <1>6 DEF PersistFails, caches
<1>12. ASSUME NEW f \in Follower, UnionFails(f) PROVE LeaderKnown(m)'
  <2>1. store'[m] = store[m] /\ (m \notin queue' => m \notin queue)
    BY <1>12 DEF UnionFails, TypeOK, Objects
  <2> QED BY <1>12, <2>1 DEF UnionFails, caches
<1>7. ASSUME NEW k \in Key, Deliver(k) PROVE LeaderKnown(m)'
  BY <1>7 DEF Deliver, caches, TypeOK, Objects
<1>8. CASE Restart
  <2>1. fromLeaders'.cache[m] = {}
    BY <1>8, EmptyCacheIsExact DEF Restart
  <2> QED BY <1>8, <2>1 DEF Restart, inferFollowers
<1>9. ASSUME NEW k \in Key, NEW obj, Write(k, obj) PROVE LeaderKnown(m)'
  BY <1>9 DEF Write, caches, TypeOK, Objects
<1>10. ASSUME NEW k \in Key, ChangeLeader(k) \/ ChangeFollower(k) PROVE \E obj : Write(k, obj)
  BY <1>10 DEF ChangeLeader, ChangeFollower
<1>11. CASE UNCHANGED vars
  BY <1>11 DEF vars, caches
<1> QED
  BY <1>1, <1>2, <1>3, <1>4, <1>5, <1>6, <1>7, <1>8, <1>9, <1>10, <1>11, <1>12
  DEF Next, ReconcileSteps, Key

-----------------------------------------------------------------------------
LEMMA NextRunKnown ==
  ASSUME IInv, [Next]_vars, NEW g \in Follower
  PROVE  RunKnown(g)' /\ StoreKnown(g)'
<1>0. TypeOK /\ CachesMatch /\ RunKnown(g) /\ StoreKnown(g) /\ g \notin Leader /\ g \in Key
  BY KeysAssumption DEF IInv, FollowerKnown, Key
<1>a. run[g] # None => run[g] \in FollowerRun
  BY <1>0 DEF TypeOK
<1> USE <1>0 DEF RunKnown, StoreKnown
<1>1. ASSUME NEW l \in Leader, ReconcileLeader(l) PROVE RunKnown(g)' /\ StoreKnown(g)'
  BY <1>1 DEF ReconcileLeader, TypeOK
<1>2. ASSUME NEW l \in Leader, EnqueueFollowers(l) PROVE RunKnown(g)' /\ StoreKnown(g)'
  BY <1>2 DEF EnqueueFollowers, caches, TypeOK
<1>3. ASSUME NEW f \in Follower, ReconcileFollower(f) PROVE RunKnown(g)' /\ StoreKnown(g)'
  <2>1. CASE store[f] = None
    <3>1. f # g => fromFollowers'.cache[g] = fromFollowers.cache[g]
      BY <1>3, <2>1, UpdateIsExact DEF ReconcileFollower, TypeOK, CachesMatch
    <3> QED BY <1>3, <2>1, <3>1 DEF ReconcileFollower
  <2>2. CASE store[f] # None
    <3>1. store[f].follows \in SUBSET Leader
      BY <2>2 DEF TypeOK, Objects, FollowerObject
    <3>2. fromFollowers'.cache[g] = IF f = g THEN store[f].follows ELSE fromFollowers.cache[g]
      BY <1>3, <2>2, <3>1, UpdateIsExact DEF ReconcileFollower, TypeOK, CachesMatch
    <3>3. CASE f = g
      <4>1. run'[g] = [step |-> "decide", obj |-> store[g], stored |-> TRUE, latest |-> g \in fresh]
        BY <1>3, <2>2, <3>3 DEF ReconcileFollower, TypeOK
      <4>2. run'[g].latest <=> g \in fresh
        <5>1. ASSUME NEW b, run'[g] = [step |-> "decide", obj |-> store[g], stored |-> TRUE, latest |-> b]
              PROVE  run'[g].latest = b
          BY <5>1
        <5> QED BY <4>1, <5>1, Zenon
      <4>3. run'[g].stored /\ run'[g].obj = store[g] /\ run'[g].step = "decide"
        BY <4>1
      <4> QED BY <1>3, <3>2, <3>3, <4>2, <4>3 DEF ReconcileFollower
    <3>4. CASE f # g
      BY <1>3, <2>2, <3>2, <3>4 DEF ReconcileFollower, TypeOK
    <3> QED BY <3>3, <3>4
  <2> QED BY <2>1, <2>2
<1>4. ASSUME NEW f \in Follower, UpdateFollower(f) PROVE RunKnown(g)' /\ StoreKnown(g)'
  <2> DEFINE new == Led(f, run[f].obj)
  <2>1. CASE new = run[f].obj
    <3>1. /\ run' = [run EXCEPT ![f] = None]
          /\ UNCHANGED <<api, store, fresh, fromFollowers, queue, lost>>
      BY <1>4, <2>1 DEF UpdateFollower, caches
    <3>2. run[f].step = "decide"
      BY <1>4 DEF UpdateFollower
    <3> HIDE DEF new
    <3> QED BY <3>1, <3>2 DEF TypeOK
  <2>2. CASE new # run[f].obj
    <3>1. /\ run' = [run EXCEPT ![f] = [run[f] EXCEPT !.step = "update", !.obj = new]]
          /\ store' = IF run[f].stored THEN [store EXCEPT ![f] = new] ELSE store
          /\ UNCHANGED <<api, fresh, fromFollowers, queue, lost>>
          /\ run[f] # None
      BY <1>4, <2>2 DEF UpdateFollower, caches
    <3>2. run[f] \in FollowerRun /\ new \in FollowerObject
      BY <3>1, LedTyped DEF TypeOK, FollowerRun
    <3> HIDE DEF new
    <3>3. CASE f = g
      <4>1. run'[g] = [run[g] EXCEPT !.step = "update", !.obj = new]
        BY <3>1, <3>3 DEF TypeOK
      <4>2. /\ run'[g].step = "update" /\ run'[g].stored = run[g].stored
            /\ run'[g].latest = run[g].latest /\ run'[g] \in FollowerRun
        BY <3>2, <3>3, <4>1 DEF FollowerRun
      <4> QED BY <3>1, <3>2, <3>3, <4>2, NotNone DEF TypeOK, Objects
    <3>4. CASE f # g
      BY <3>1, <3>4 DEF TypeOK, Objects
    <3> QED BY <3>3, <3>4
  <2> QED BY <2>1, <2>2
<1>5. ASSUME NEW f \in Follower, Persist(f) PROVE RunKnown(g)' /\ StoreKnown(g)'
  <2>1. run[f] \in FollowerRun
    BY <1>5 DEF Persist, TypeOK
  <2>2. CASE f = g
    BY <1>5, <2>1, <2>2 DEF Persist, caches, TypeOK, Objects, FollowerRun
  <2>3. CASE f # g
    BY <1>5, <2>3 DEF Persist, caches, TypeOK, Objects
  <2> QED BY <2>2, <2>3
<1>6. ASSUME NEW f \in Follower, PersistFails(f) PROVE RunKnown(g)' /\ StoreKnown(g)'
  <2>1. run[f] \in FollowerRun
    BY <1>6 DEF PersistFails, TypeOK
  <2> QED BY <1>6, <2>1 DEF PersistFails, caches, TypeOK, FollowerRun
<1>12. ASSUME NEW f \in Follower, UnionFails(f) PROVE RunKnown(g)' /\ StoreKnown(g)'
  <2>1. /\ run' = [run EXCEPT ![f] = None] /\ queue \subseteq queue' /\ run[f].step = "decide"
        /\ UNCHANGED <<api, fresh, fromFollowers>> /\ lost \subseteq lost'
        /\ \/ store' = store
           \/ f \in lost' /\ \A k \in Key \ {f} : store'[k] = store[k]
    BY <1>12 DEF UnionFails, caches, TypeOK, Objects
  <2>2. CASE f = g
    BY <2>1, <2>2 DEF TypeOK
  <2>3. CASE f # g
    <3>1. run'[g] = run[g] /\ store'[g] = store[g]
      BY <2>1, <2>3 DEF TypeOK
    <3> QED BY <2>1, <3>1
  <2> QED BY <2>2, <2>3
<1>7. ASSUME NEW k \in Key, Deliver(k) PROVE RunKnown(g)' /\ StoreKnown(g)'
  <2>1. CASE k = g /\ run[g] # None
    <3>1. /\ run'[g] = [run[g] EXCEPT !.stored = FALSE] /\ g \in queue'
          /\ store'[g] = api[g] /\ api' = api
      BY <1>7, <2>1 DEF Deliver, TypeOK, Objects
    <3>2. run'[g].stored = FALSE
      BY <1>a, <2>1, <3>1 DEF FollowerRun
    <3> QED BY <3>1, <3>2
  <2>2. CASE k = g /\ run[g] = None
    BY <1>7, <2>2 DEF Deliver, TypeOK, Objects
  <2>3. CASE k # g
    <3>1. run'[g] = run[g] /\ store'[g] = store[g] /\ (g \in queue => g \in queue')
      BY <1>7, <2>3 DEF Deliver, TypeOK, Objects
    <3> QED BY <1>7, <2>3, <3>1 DEF Deliver, caches
  <2> QED BY <2>1, <2>2, <2>3
<1>8. CASE Restart
  BY <1>8 DEF Restart
<1>9. ASSUME NEW k \in Key, NEW obj, Write(k, obj) PROVE RunKnown(g)' /\ StoreKnown(g)'
  <2>1. CASE k = g /\ run[g] # None
    <3>1. /\ run'[g] = [run[g] EXCEPT !.latest = FALSE] /\ g \notin fresh'
          /\ UNCHANGED <<store, fromFollowers, queue>>
      BY <1>9, <2>1 DEF Write, TypeOK, caches
    <3>2. run'[g].stored = run[g].stored /\ run'[g].step = run[g].step /\ run'[g].obj = run[g].obj
      BY <1>a, <2>1, <3>1 DEF FollowerRun
    <3> QED BY <2>1, <3>1, <3>2
  <2>2. CASE k = g /\ run[g] = None
    BY <1>9, <2>2 DEF Write
  <2>3. CASE k # g
    <3>1. run'[g] = run[g] /\ api'[g] = api[g] /\ (g \in fresh' => g \in fresh)
      BY <1>9, <2>3 DEF Write, TypeOK, Objects
    <3> QED BY <1>9, <2>3, <3>1 DEF Write, caches
  <2> QED BY <2>1, <2>2, <2>3
<1>10. ASSUME NEW k \in Key, ChangeLeader(k) \/ ChangeFollower(k) PROVE \E obj : Write(k, obj)
  BY <1>10 DEF ChangeLeader, ChangeFollower
<1>11. CASE UNCHANGED vars
  BY <1>11 DEF vars, caches
<1> QED
  BY <1>1, <1>2, <1>3, <1>4, <1>5, <1>6, <1>7, <1>8, <1>9, <1>10, <1>11, <1>12
  DEF Next, ReconcileSteps, Key

-----------------------------------------------------------------------------
(* A step after which the follower is still at rest, with the object it had, and which
   leaves it concurring with each leader or the leader's reconcile to come. *)
LEMMA AgreesKept ==
  ASSUME NEW g \in Follower, Agrees(g),
         AtRest(g)' => /\ AtRest(g)
                       /\ store'[g] = store[g]
                       /\ fromFollowers'.cache[g] = fromFollowers.cache[g],
         \A l \in Leader : AtRest(g)' /\ WillEnqueue(l, g) =>
                             WillEnqueue(l, g)' \/ \A p : Concurs(l, g, p)',
         \A l \in Leader : \A p : AtRest(g)' /\ Concurs(l, g, p) =>
                                    WillEnqueue(l, g)' \/ Concurs(l, g, p)'
  PROVE  Agrees(g)'
<1> SUFFICES ASSUME AtRest(g)' PROVE Agrees(g)'
  BY DEF Agrees
<1>1. PICK seen \in [Leader -> SUBSET Cluster] :
        /\ store[g].placement = UNION {seen[l] : l \in store[g].follows}
        /\ \A l \in Leader : WillEnqueue(l, g) \/ Concurs(l, g, seen[l])
  BY DEF Agrees
<1>2. \A l \in Leader : WillEnqueue(l, g)' \/ Concurs(l, g, seen[l])'
  BY <1>1
<1>3. fromFollowers'.cache[g] = store'[g].follows
  BY DEF Agrees
<1>4. store'[g].placement = UNION {seen[l] : l \in store'[g].follows}
  BY <1>1
<1> QED BY <1>2, <1>3, <1>4 DEF Agrees

(* A reconcile that finds nothing to change has seen every leader as it is, but for those
   in the queue, which will enqueue the follower if it is any of their business. *)
LEMMA DecidedAgrees ==
  ASSUME IInv, NEW g \in Follower, run[g] # None, run[g].step = "decide", run[g].stored,
         Led(g, run[g].obj) = run[g].obj
  PROVE  /\ fromFollowers.cache[g] = store[g].follows
         /\ \E seen \in [Leader -> SUBSET Cluster] :
              /\ store[g].placement = UNION {seen[l] : l \in store[g].follows}
              /\ \A l \in Leader : WillEnqueue(l, g) \/ Concurs(l, g, seen[l])
<1>0. TypeOK /\ CachesMatch /\ RunKnown(g)
  BY DEF IInv, FollowerKnown
<1>1. run[g].obj \in FollowerObject /\ store[g] = run[g].obj /\ fromFollowers.cache[g] = store[g].follows
  BY <1>0 DEF TypeOK, RunKnown, FollowerRun
<1>2. /\ store[g].follows = IF store[g].disabled THEN {} ELSE fromLeaders.reverseCache[g]
      /\ store[g].placement = UNION {Placed(l) : l \in store[g].follows}
  BY <1>0, <1>1, LedTyped
<1> DEFINE seen == [l \in Leader |-> Placed(l)]
<1>3. seen \in [Leader -> SUBSET Cluster]
  BY <1>0 DEF Placed, TypeOK, Objects, LeaderObject
<1>4. store[g].follows \in SUBSET Leader
  BY <1>1 DEF FollowerObject
<1>5. store[g].placement = UNION {seen[l] : l \in store[g].follows}
  <2>1. {seen[l] : l \in store[g].follows} = {Placed(l) : l \in store[g].follows}
    BY <1>4
  <2> QED BY <1>2, <2>1
<1>6. ASSUME NEW l \in Leader PROVE WillEnqueue(l, g) \/ Concurs(l, g, seen[l])
  <2>1. l \in store[g].follows <=> ~store[g].disabled /\ g \in fromLeaders.cache[l]
    BY <1>0, <1>2 DEF CachesMatch, Converse
  <2>2. CASE l \in queue
    BY <1>1, <2>1, <2>2 DEF WillEnqueue, Concurs, Wanted
  <2>3. CASE l \notin queue
    <3>1. fromLeaders.cache[l] = inferFollowers(store[l])
      BY <2>3 DEF IInv, LeaderKnown
    <3> QED BY <2>1, <3>1 DEF Concurs, Wanted
  <2> QED BY <2>2, <2>3
<1> HIDE DEF seen
<1> QED BY <1>1, <1>3, <1>5, <1>6

LEMMA NextAgrees ==
  ASSUME IInv, [Next]_vars, NEW g \in Follower
  PROVE  Agrees(g)'
<1>0. TypeOK /\ CachesMatch /\ RunKnown(g) /\ Agrees(g) /\ g \notin Leader /\ g \in Key
  BY KeysAssumption DEF IInv, FollowerKnown, Key
<1> USE <1>0
<1>1. ASSUME NEW l \in Leader, ReconcileLeader(l) PROVE Agrees(g)'
  <2>1. run'[l] # None /\ run'[l].desired = inferFollowers(store[l])
    <3>1. run'[l] = [desired |-> inferFollowers(store[l])]
      BY <1>1 DEF ReconcileLeader, TypeOK, Key
    <3>2. run'[l] \in LeaderRun
      BY <3>1, InferTyped DEF LeaderRun
    <3> QED BY <3>1, <3>2, NotNone
  <2>2. \A m \in Leader \ {l} : run'[m] = run[m] /\ (m \in queue' <=> m \in queue)
    BY <1>1 DEF ReconcileLeader, TypeOK
  <2>3. AtRest(g)' => AtRest(g)
    BY <1>1 DEF ReconcileLeader, AtRest, TypeOK
  <2>4. UNCHANGED <<store, fromFollowers>> /\ run[l] = None
    BY <1>1 DEF ReconcileLeader
  <2> QED BY <2>1, <2>2, <2>3, <2>4, AgreesKept DEF WillEnqueue, Concurs, Wanted, Placed
<1>2. ASSUME NEW l \in Leader, EnqueueFollowers(l) PROVE Agrees(g)'
  <2>1. \A m \in Leader \ {l} : run'[m] = run[m]
    BY <1>2 DEF EnqueueFollowers, TypeOK
  <2>2. UNCHANGED <<store, fromFollowers>> /\ queue \subseteq queue' /\ run[l] # None
    BY <1>2 DEF EnqueueFollowers, caches
  <2>3. AtRest(g)' => AtRest(g)
    BY <1>2 DEF EnqueueFollowers, AtRest, TypeOK
  <2>4. g \in run[l].desired \/ l \in fromFollowers.cache[g] => g \in queue'
    BY <1>2 DEF EnqueueFollowers, reverseLookup, CachesMatch, Converse
  <2>5. \A m \in Leader : AtRest(g)' /\ WillEnqueue(m, g) => WillEnqueue(m, g)'
    BY <2>1, <2>2, <2>4 DEF WillEnqueue, AtRest
  <2> QED BY <2>2, <2>3, <2>5, AgreesKept DEF Concurs, Wanted, Placed
<1>3. ASSUME NEW f \in Follower, ReconcileFollower(f) PROVE Agrees(g)'
  <2>1. CASE f = g
    <3>1. CASE store[g] = None
      BY <1>3, <2>1, <3>1 DEF ReconcileFollower, Agrees, AtRest
    <3>2. CASE store[g] # None
      <4>1. run'[g] \in FollowerRun
        <5>1. store[g] \in FollowerObject
          BY <3>2 DEF TypeOK, Objects
        <5>2. [step |-> "decide", obj |-> store[g], stored |-> TRUE, latest |-> g \in fresh] \in FollowerRun
          BY <5>1 DEF FollowerRun
        <5> QED BY <1>3, <2>1, <3>2, <5>2 DEF ReconcileFollower, TypeOK
      <4> QED BY <4>1, NotNone DEF Agrees, AtRest
    <3> QED BY <3>1, <3>2
  <2>2. CASE f # g
    <3>1. PICK vals \in SUBSET Leader : fromFollowers' = update(fromFollowers, f, vals)
      BY <1>3 DEF ReconcileFollower, TypeOK, Objects, FollowerObject
    <3>2. fromFollowers'.cache[g] = fromFollowers.cache[g]
      BY <2>2, <3>1, UpdateIsExact DEF TypeOK, CachesMatch
    <3>3. /\ store' = store /\ (AtRest(g)' => AtRest(g))
          /\ \A l \in Leader : run'[l] = run[l] /\ (l \in queue' <=> l \in queue)
      <4>1. queue' = queue \ {f} /\ UNCHANGED <<store, fresh, lost>>
        BY <1>3 DEF ReconcileFollower
      <4>2. \A k \in Key \ {f} : run'[k] = run[k]
        BY <1>3 DEF ReconcileFollower, TypeOK
      <4> QED BY <2>2, <4>1, <4>2, KeysAssumption DEF AtRest, Key
    <3> QED BY <3>2, <3>3, AgreesKept DEF WillEnqueue, Concurs, Wanted, Placed
  <2> QED BY <2>1, <2>2
<1>4. ASSUME NEW f \in Follower, UpdateFollower(f) PROVE Agrees(g)'
  <2>0. UNCHANGED <<api, fresh, fromLeaders, fromFollowers, queue, lost>>
    BY <1>4 DEF UpdateFollower, caches
  <2>1. CASE f = g /\ Led(g, run[g].obj) = run[g].obj
    <3>1. store' = store /\ \A l \in Leader : run'[l] = run[l]
      <4>1. run' = [run EXCEPT ![g] = None] /\ store' = store
        BY <1>4, <2>1 DEF UpdateFollower
      <4> QED BY <4>1 DEF TypeOK, Key
    <3>2. ~run[g].stored => ~AtRest(g)'
      BY <1>4, <2>0, <2>1 DEF UpdateFollower, RunKnown, AtRest
    <3>3. ASSUME run[g].stored PROVE Agrees(g)'
      <4>1. PICK seen \in [Leader -> SUBSET Cluster] :
              /\ store[g].placement = UNION {seen[l] : l \in store[g].follows}
              /\ \A l \in Leader : WillEnqueue(l, g) \/ Concurs(l, g, seen[l])
        BY <1>4, <2>1, <3>3, DecidedAgrees DEF UpdateFollower
      <4>2. \A l \in Leader : WillEnqueue(l, g)' \/ Concurs(l, g, seen[l])'
        BY <2>0, <3>1, <4>1 DEF WillEnqueue, Concurs, Wanted, Placed
      <4>3. fromFollowers.cache[g] = store[g].follows
        BY <1>4, <2>1, <3>3, DecidedAgrees DEF UpdateFollower
      <4> QED BY <2>0, <3>1, <4>1, <4>2, <4>3 DEF Agrees
    <3> QED BY <3>2, <3>3 DEF Agrees
  <2>2. CASE f = g /\ Led(g, run[g].obj) # run[g].obj
    <3>1. run[g] \in FollowerRun
      BY <1>4, <2>2 DEF UpdateFollower, TypeOK
    <3>2. Led(g, run[g].obj) \in FollowerObject
      BY <3>1, LedTyped DEF FollowerRun
    <3>3. run'[g] = [run[g] EXCEPT !.step = "update", !.obj = Led(g, run[g].obj)]
      BY <1>4, <2>2 DEF UpdateFollower, TypeOK
    <3>4. run'[g] \in FollowerRun
      BY <3>1, <3>2, <3>3 DEF FollowerRun
    <3> QED BY <3>4, NotNone DEF Agrees, AtRest
  <2>3. CASE f # g
    <3>1. /\ store'[g] = store[g] /\ run'[g] = run[g]
          /\ \A l \in Leader : store'[l] = store[l] /\ run'[l] = run[l]
      <4>1. \A k \in Key \ {f} : run'[k] = run[k] /\ store'[k] = store[k]
        BY <1>4 DEF UpdateFollower, TypeOK, Objects
      <4> QED BY <2>3, <4>1, KeysAssumption DEF Key
    <3> QED BY <2>0, <3>1, AgreesKept DEF AtRest, WillEnqueue, Concurs, Wanted, Placed
  <2> QED BY <2>1, <2>2, <2>3
<1>5. ASSUME NEW f \in Follower, Persist(f) \/ PersistFails(f) PROVE Agrees(g)'
  <2>1. CASE f = g
    BY <1>5, <2>1 DEF Persist, PersistFails, Agrees, AtRest
  <2>2. CASE f # g
    <3>1. /\ UNCHANGED <<store, fromFollowers>> /\ run'[g] = run[g] /\ (AtRest(g)' => AtRest(g))
          /\ \A l \in Leader : run'[l] = run[l] /\ (l \in queue' <=> l \in queue)
      <4>1. run' = [run EXCEPT ![f] = None] /\ UNCHANGED <<store, fromFollowers>>
        BY <1>5 DEF Persist, PersistFails, caches
      <4>2. queue' \in {queue, queue \cup {f}} /\ fresh' \subseteq fresh /\ lost \subseteq lost'
        BY <1>5 DEF Persist, PersistFails
      <4> QED BY <2>2, <4>1, <4>2, KeysAssumption DEF AtRest, TypeOK
    <3> QED BY <3>1, AgreesKept DEF WillEnqueue, Concurs, Wanted, Placed
  <2> QED BY <2>1, <2>2
<1>11. ASSUME NEW f \in Follower, UnionFails(f) PROVE Agrees(g)'
  <2>1. /\ run' = [run EXCEPT ![f] = None] /\ queue' = queue \cup {f} /\ UNCHANGED <<fresh, fromFollowers>>
        /\ lost \subseteq lost' /\ \A k \in Key \ {f} : store'[k] = store[k]
    BY <1>11 DEF UnionFails, caches, TypeOK, Objects
  <2>2. CASE f = g
    BY <2>1, <2>2 DEF Agrees, AtRest
  <2>3. CASE f # g
    <3>1. /\ store'[g] = store[g] /\ run'[g] = run[g] /\ (AtRest(g)' => AtRest(g))
          /\ \A l \in Leader : store'[l] = store[l] /\ run'[l] = run[l] /\ (l \in queue' <=> l \in queue)
      BY <2>1, <2>3, KeysAssumption DEF AtRest, TypeOK, Key
    <3> QED BY <2>1, <3>1, AgreesKept DEF WillEnqueue, Concurs, Wanted, Placed
  <2> QED BY <2>2, <2>3
<1>6. ASSUME NEW k \in Key, Deliver(k) PROVE Agrees(g)'
  <2>1. CASE k = g
    BY <1>6, <2>1 DEF Deliver, Agrees, AtRest
  <2>2. CASE k # g
    <3>1. /\ store'[g] = store[g] /\ fromFollowers' = fromFollowers /\ (AtRest(g)' => AtRest(g))
          /\ k \in queue' /\ queue \subseteq queue'
      BY <1>6, <2>2 DEF Deliver, caches, AtRest, TypeOK, Objects
    <3>2. \A l \in Leader : run'[l] = run[l] /\ (l # k => store'[l] = store[l])
      BY <1>6, KeysAssumption DEF Deliver, TypeOK, Objects
    <3>3. AtRest(g) => fromFollowers.cache[g] = store[g].follows
      BY DEF Agrees
    <3>4. ASSUME NEW l \in Leader, NEW p, AtRest(g)', Concurs(l, g, p)
          PROVE  WillEnqueue(l, g)' \/ Concurs(l, g, p)'
      <4>1. CASE l = k
        \* if the new version neither wants the follower nor is followed, they concur
        BY <3>1, <3>3, <3>4, <4>1 DEF WillEnqueue, Concurs, Wanted
      <4>2. CASE l # k
        BY <3>1, <3>2, <3>4, <4>2 DEF Concurs, Wanted, Placed
      <4> QED BY <4>1, <4>2
    <3>5. ASSUME NEW l \in Leader, AtRest(g)', WillEnqueue(l, g)
          PROVE  WillEnqueue(l, g)' \/ \A p : Concurs(l, g, p)'
      <4>1. CASE l = k
        BY <3>1, <3>3, <3>5, <4>1 DEF WillEnqueue, Concurs, Wanted
      <4>2. CASE l # k
        BY <3>1, <3>2, <3>5, <4>2 DEF WillEnqueue
      <4> QED BY <4>1, <4>2
    <3> QED BY <3>1, <3>4, <3>5, AgreesKept
  <2> QED BY <2>1, <2>2
<1>7. CASE Restart
  BY <1>7 DEF Restart, Agrees, AtRest
<1>8. ASSUME NEW k \in Key, NEW obj, Write(k, obj) PROVE Agrees(g)'
  <2>1. CASE k = g
    BY <1>8, <2>1 DEF Write, Agrees, AtRest
  <2>2. CASE k # g
    <3>1. /\ UNCHANGED <<store, fromFollowers, queue>> /\ (AtRest(g)' => AtRest(g))
          /\ \A l \in Leader : run'[l] = run[l]
      BY <1>8, <2>2, KeysAssumption DEF Write, caches, AtRest, TypeOK
    <3> QED BY <3>1, AgreesKept DEF WillEnqueue, Concurs, Wanted, Placed
  <2> QED BY <2>1, <2>2
<1>9. ASSUME NEW k \in Key, ChangeLeader(k) \/ ChangeFollower(k) PROVE \E obj : Write(k, obj)
  BY <1>9 DEF ChangeLeader, ChangeFollower
<1>10. CASE UNCHANGED vars
  BY <1>10, AgreesKept DEF vars, caches, AtRest, WillEnqueue, Concurs, Wanted, Placed
<1> QED
  BY <1>1, <1>2, <1>3, <1>4, <1>5, <1>6, <1>7, <1>8, <1>9, <1>10, <1>11
  DEF Next, ReconcileSteps, Key

-----------------------------------------------------------------------------
LEMMA InitIInv == Init => IInv
<1> SUFFICES ASSUME Init PROVE IInv
  OBVIOUS
<1>1. NewFollower \in FollowerObject
  BY DEF NewFollower, FollowerObject
<1>2. Objects(api)
  <2>1. PICK L \in SUBSET Leader : \E S \in SUBSET Cluster :
          api = [k \in Key |-> IF k \in Follower THEN NewFollower
                               ELSE IF k \in L THEN [wants |-> Follower, placement |-> S] ELSE None]
    BY DEF Init
  <2>2. PICK S \in SUBSET Cluster :
          api = [k \in Key |-> IF k \in Follower THEN NewFollower
                               ELSE IF k \in L THEN [wants |-> Follower, placement |-> S] ELSE None]
    BY <2>1
  <2>3. [wants |-> Follower, placement |-> S] \in LeaderObject
    BY DEF LeaderObject
  <2> QED BY <1>1, <2>2, <2>3, KeysAssumption DEF Objects, Key
<1>3. /\ fromLeaders \in Cache(Leader, Follower) /\ fromFollowers \in Cache(Follower, Leader)
      /\ CachesMatch /\ \A l \in Leader : fromLeaders.cache[l] = {}
  BY EmptyCacheIsExact DEF Init, CachesMatch
<1>4. TypeOK
  BY <1>2, <1>3, BoundsAssumption DEF Init, TypeOK, Objects, Key
<1>5. \A l \in Leader : LeaderKnown(l)
  BY <1>3 DEF Init, LeaderKnown, inferFollowers, Key
<1>6. \A f \in Follower : FollowerKnown(f)
  BY DEF Init, FollowerKnown, RunKnown, StoreKnown, Agrees, AtRest, Key
<1> QED BY <1>3, <1>4, <1>5, <1>6 DEF IInv

(* The inductive invariant: types, converse caches, and for each key who has yet to run. *)
THEOREM Invariance == Spec => []IInv
<1>1. IInv /\ [Next]_vars => IInv'
  BY NextTypeOK, NextCachesMatch, NextLeaderKnown, NextRunKnown, NextAgrees
  DEF IInv, FollowerKnown
<1> QED BY <1>1, InitIInv, PTL DEF Spec

(* The reverse cache, by which EnqueueFollowers and updateFollower find the other side,
   never misses a pair of the cache and never keeps one that is gone. *)
THEOREM ReverseLookupIsExact == Spec => []CachesMatch
<1>1. IInv => CachesMatch
  BY DEF IInv
<1> QED BY <1>1, Invariance, PTL

(* Whenever the controller is at rest every follower names the leaders that want it and is
   placed where they are, unless an attempt to update it failed and its modified copy is
   still in the store. *)
THEOREM RestMeansFollowed == Spec => []QuietIsFollowed
<1>1. ASSUME IInv, Quiet, NEW f \in Follower \ lost, api[f] # None
      PROVE  Follows(f)
  <2>0. TypeOK /\ FollowerKnown(f) /\ f \in Key
    BY <1>1 DEF IInv, Key
  <2>1. store[f] = api[f] /\ AtRest(f)
    BY <1>1, <2>0 DEF FollowerKnown, StoreKnown, Quiet, AtRest
  <2>2. ASSUME NEW l \in Leader PROVE store[l] = api[l] /\ ~WillEnqueue(l, f)
    BY <1>1 DEF IInv, LeaderKnown, Quiet, WillEnqueue, Key
  <2>3. PICK seen \in [Leader -> SUBSET Cluster] :
          /\ api[f].placement = UNION {seen[l] : l \in api[f].follows}
          /\ \A l \in Leader : Concurs(l, f, seen[l])
    BY <2>0, <2>1, <2>2 DEF FollowerKnown, Agrees
  <2>4. api[f].follows \in SUBSET Leader
    BY <1>1, <2>0 DEF TypeOK, Objects, FollowerObject
  <2>5. ASSUME NEW l \in Leader
        PROVE  l \in api[f].follows <=> ~api[f].disabled /\ api[l] # None /\ f \in api[l].wants
    BY <2>1, <2>2, <2>3 DEF Concurs, Wanted, inferFollowers
  <2>6. api[f].follows = LeadersOf(f)
    BY <2>4, <2>5 DEF LeadersOf
  <2>7. \A l \in api[f].follows : seen[l] = api[l].placement
    BY <2>1, <2>2, <2>3, <2>4, <2>5 DEF Concurs, Placed
  <2>8. {seen[l] : l \in api[f].follows} = {api[l].placement : l \in api[f].follows}
    BY <2>7
  <2> QED BY <2>3, <2>6, <2>8 DEF Follows
<1>2. IInv => QuietIsFollowed
  BY <1>1 DEF QuietIsFollowed, Follows
<1> QED BY <1>2, Invariance, PTL
=============================================================================
