# A verification project for KubeAdmiral

KubeAdmiral propagates Kubernetes objects from a host cluster to member
clusters. This directory holds TLA+ modules that model its core, TLC
configurations that check them on small instances, and TLAPS proofs of what
matters most for instances of every size. `PROJECT.json` lists the runs, the
source lines every definition stands for, the mutants that show that each
property can fail, and the hazards the properties are for.

    tlc -workers 2 -config SyncStorm.cfg MCSync      # model-check a run
    tlapm FollowerProofs.tla                         # check the proofs of a module

Paths below are relative to `src/pkg`.

## 1. The system

A *source object* in the host cluster becomes a *FederatedObject* (federate
controller), goes through the controllers its FederatedTypeConfig lists, step
by step (scheduler, override, namespace auto-propagation), and is then
propagated to member clusters (sync controller). Controllers do not call each
other: they share objects in the host's API server, read them from informer
caches that lag behind, and write them with a resourceVersion, so that a write
made from an old copy is refused. Each runs a queue of keys (`util/worker`) in
which a key is handled by one worker at a time, and which loses the key unless
the reconcile's result asks for it again or an event brings it back.

| component | state it keeps | operations | talks to |
|---|---|---|---|
| federate (`controllers/federate`) | finalizer on the source, template/owner/labels of the FederatedObject | ensure/remove finalizer, create, update, delete the FederatedObject | source and FederatedObject through the API server; starts the pipeline |
| pending controllers (`util/pendingcontrollers`) | the annotation: a list of steps of controller names | normalize, set, update, "is it my turn" | called by every controller of the pipeline |
| scheduler (`controllers/scheduler`) | placements, replica overrides, trigger hashes in annotations | decide whether to schedule, run plugins, persist | pipeline; cluster and policy listers; webhooks |
| override (`controllers/override`) | overrides of the FederatedObject | match policies, write patches | pipeline; policy lister |
| namespace auto-propagation (`controllers/nsautoprop`) | placements of namespaces | place everywhere, adopt | pipeline |
| sync (`controllers/sync`) | finalizer, `status.clusters`, `syncedGeneration`; member objects | finalizer, record PendingCreate, dispatch, status; removal, check, unfinalize; cluster cascading deletion | FederatedObject, FederatedCluster, member clusters |
| dispatchers (`controllers/sync/dispatch`) | counter, channel, status and version maps of one round | create, update, delete, unlabel, wait | member clusters; called by sync |
| version manager (`controllers/sync/version`) | propagated versions per object and cluster | get, update, delete | sync; its own API objects |
| federated cluster (`controllers/federatedcluster`) | conditions, finalizer, service-account secrets | join with a timeout, status, removal | member clusters; everyone through the cluster lister |
| informer managers (`util/informermanager`) | informers per type and cluster | start, stop, sync, shut down | everyone's caches |
| follower (`controllers/follower`) | leader/follower relations, placements copied from leaders | observe, copy | FederatedObjects, outside the pipeline |
| policy reference counter (`controllers/policyrc`) | counts per policy and type | count from cache transitions, flush | policies' status |
| automigration (`controllers/automigration`) | estimated-capacity annotation | count unschedulable pods | closes a loop with the scheduler |
| status, statusaggregator | collected statuses; the source's status | collect, aggregate | member caches, source |
| federated HPA, multi-cluster services | labels, exported endpoint slices | label, export, import | FederatedObjects, member clusters |
| reconcile worker (`util/worker`) | queue, backoff | enqueue, retry | all controllers |

What is hard here: every read is stale; a status is computed from one version
of an object and written to another; a crash may fall between a write in a
member cluster and the record of it in the host; an operation that timed out is
not cancelled and takes effect later; a key that is dropped because it is not
the controller's turn must be brought back by somebody; two finalizers (source,
FederatedObject) have to be given up in the right order, and each when the
objects they protect are really gone; whether to schedule at all is decided
from a record that outlives restarts; the scheduler and automigration feed each
other; a cluster is deleted, and created again under its name, while others
still hold the copy that says it is joined.

What makes each part correct, in one sentence: *dispatch*: after a wait without
a timeout nothing is outstanding and the maps tell the truth; *sync*: every
managed member object is recorded, none is left behind, and the status that
stays is true; *pipeline*: what is propagated was computed from the template and
from the results of all earlier steps, and the pipeline never stops half-way;
*federate*: a source has its FederatedObject, which goes before it does;
*scheduler*: no change of object, policy or cluster is lost between the event
handlers and the recorded triggers, and it comes to rest; *planners and
automigration*: replicas end up where there is room, none is moved needlessly,
and the loop ends; *clusters*: a joined cluster is one whose system namespace is
ours, nothing of ours stays in a cluster that goes; *follower*: a follower is
where its leaders are.

## 2. Modules

| module | what it is |
|---|---|
| `ForkJoin` | abstract: operations are forked while a join is open, which closes when none is outstanding or is abandoned |
| `ManagedDispatcher` | one dispatch round: the caller's loop, a goroutine per operation, the counter, the channel, `Wait` and its timeout, the two maps |
| `SyncController` | the sync controller for one FederatedObject and its clusters |
| `Pipeline` | abstract: what the pending-controllers annotation promises |
| `PendingControllers` | the annotation and the controllers that read, compute and write; implements `Pipeline` |
| `FederateController` | the federate controller for one source object and its successor of the same name |
| `SchedulingFramework` | filter plugins, cluster selection and sticky clusters, as operators |
| `Scheduler` | the scheduler for one object: what wakes it, the triggers in the annotation, the write; uses `SchedulingFramework` |
| `Planner`, `BinPack` | the two replica planners, as operators |
| `AutoMigration` | planners, sync, pods and the automigration controller in their loop, for one workload; uses `BinPack` |
| `FederatedCluster` | one cluster name: join, status, informer manager, sync, cascading deletion, removal |
| `Follower` | leaders, followers, the two caches between them |
| `...Proofs` | the theorems about the module of that name: `ManagedDispatcher`, `SyncController`, `PendingControllers` (and the `Pipeline` it implements), `FederateController`, `Scheduler`, `AutoMigration` (and the planners), `FederatedCluster`, `Follower` |
| `MC*` | values for TLC: names, kinds of objects, policies, scenarios |

`PendingControllers` composes the controllers of the pipeline, `AutoMigration`
the scheduler's planners with the automigration, cluster status and sync
controllers and member clusters, `FederatedCluster` the cluster controller with
the informer manager and the sync controller.

Conventions. An object in an API server and its copies (cache, reconcile's own)
are records; a write is accepted when the copy it was made from is the stored
object (in the later modules `fresh` says so). `queued` and `pc` are the worker: one reconcile at a time, split
at each call to an API server, so that anything may happen between two calls.
`Faults` names what the environment may do in a run, and every bound is a
constant (`MaxGen`, `MaxEvents`, ...). Definitions that come before another and
are used by nothing are the mutated forms `PROJECT.json` names; the comment
says what bug they stand for.

### ManagedDispatcher

`phase` is the life of each goroutine: running until the member cluster
answers, then blocked on `resultChan` ("sending", the channel has no buffer)
until `Wait` receives. `initiated` is `operationsInitiated`, `received` the loop
variable of `Wait`. `CreateAdopts` is the Create goroutine that finds the object
there and calls `Update`, which counts and starts a goroutine of its own before
the Create sends. `WaitTimesOut` is the `time.After` case; nobody receives
afterwards, and `Settle` is what `managedDispatcherImpl.Wait` does to the
statuses. What a request does to a member cluster is left to `SyncController`.

### SyncController

| actions | code (`controllers/sync/controller.go`) |
|---|---|
| `Ignore`, `Begin`, `DryRun` | `reconcile` up to `ensureFinalizer`, and its early returns |
| `EnsureFinalizer`, `RemoveFinalizer` | `ensureFinalizer`, `removeFinalizer` |
| `PrepareToSync`, `RecordPendingCreate` | `prepareToSync`: the placement, the clusters to visit, the PendingCreate write with its retry on conflict |
| `SyncToClusters`, `WaitReturns`, `WaitTimesOut` | `syncToClusters`: `Decide` is the body of its loop |
| `SetFederatedStatus` | `setFederatedStatus` and `status/status.go` |
| `HandleDeletionInClusters`, `RemovalReturns`, `CheckObjectRemovedFromAllClusters` | `ensureDeletion`, `ensureRemovalFromClusters` and what they call |
| `CreateSucceeds`, `CreateAdopts`, `UpdateAnswered`, `DeleteAnswered`, ... | the goroutines of `dispatch/managed.go`, `unmanaged.go` |
| `ObserveFed`, `ObserveMember`, `Crash` | informers and their handlers, a restart |

The environment edits and deletes the FederatedObject, runs the other
controllers, makes clusters unready, deletes them, and acts in member clusters.
The template is the generation it was read at; overrides, the version manager
and field retention are abstracted; all clusters stay joined. `listed` is what
`prepareToSync` listed of the clusters: a round decides from it, though a cluster
may have become unready or been deleted since. The error path of that list
(ClusterRetrievalFailed) is not there, for a lister that selects everything from
memory has no error to return. That a Create finds the object and gets it is one
step: an object that goes between the two makes the operation fail, which is
`OperationFails`, and so is an object that says it is explicitly unmanaged
(`dispatch/managed.go:306`). A member informer shows managed objects only;
`ObserveMember` enqueues for every change, which wakes the controller more often
than the code does only when nothing changed in the cache.

### Pipeline and PendingControllers

`Pipeline` has a template (of which versions may be left out, when the source
changes faster than it is federated), a result per controller, the set of pending
controllers, and, as history, what each result was computed from (`basis`). A
controller runs in its turn, or at any time once nothing is pending (its
policies may have changed); a changed result makes everything later pending.
`PendingControllers` is the code: the annotation as a sequence of sets with
`NormalizeControllers`, `GetDownstreamControllers`, `UpdatePendingControllers`
and `ControllerDependenciesFulfilled`, and controllers that read a cached copy,
find it is not their turn and drop the key, write, meet conflicts, fail or are
restarted. The refinement mapping reads `pending` off the annotation.

### FederateController

`Route` is `reconcile` up to the first write; `EnsureFinalizer`,
`HandleCreateFederatedObject`, `HandleExistingFederatedObject` and
`RemoveFinalizer` follow the functions of those names, `DeleteFederatedObject`
is the rest of `handleTerminatingSourceObject`. Everything a FederatedObject takes from its source is one version
number; a uid tells a source from its successor of the same name; an owner may
also be nobody (an orphan that is taken over) or a stranger. The sync
controller is the action `SyncReleases`, whose fairness is what
`DeletionCompletes` of `SyncController` says; the garbage collector is external.

### Scheduler and SchedulingFramework

| actions | code (`controllers/scheduler`) |
|---|---|
| `LeaveAlone`, `SkipScheduling`, `ScheduleObject` | `reconcile` and `prepareToSchedule`: the three ways a reconcile goes on |
| `computeSchedulingTriggers`, `computeSchedulingAnnotations`, `isClusterTriggerChanged` | `schedulingtriggers.go`; a hash is the value hashed |
| `ScheduleResults` | `core/generic_scheduler.go` with the default filter plugins, `ClusterEvicted` excepted; any clusters may have the best scores |
| `Persist`, `PersistFails` | `persistSchedulingResult` |
| `ChangePolicy`, `SetCluster`, `Notices` | the informers' handlers, with the filter of the cluster handler |

`turn` is the place of the scheduler in the pipeline (`Pipeline` has the rest): a
write in its turn leaves the later controllers pending, one out of turn that
changes the result makes them pending again. The object has no custom migration
and no scheduling profile (section 6).
The clusters of the triggers are a sequence in the order of the lister's map,
which Go randomises: `Decisions` ranges over all orders. `skipped` marks triggers
recorded under the no-scheduling annotation, `unfit` the clusters that were
unready or terminating at some time, which are no triggers.

### Planner, BinPack and AutoMigration

The operators are the functions of `planner/planner.go` and
`plugins/preferencebinpack/planner.go`, with `clusterPreferences` and
`ReplicaScheduling` for `plugins/rsp/rsp.go`. A map is a function on all clusters,
with the value `Absent`, which is no integer, where the map has no entry. A loop
over the clusters is a recursive function of the number of clusters done; `open`
is the list of clusters the next pass of `getDesiredPlan` goes over. `AutoMigration` closes the loop:
`Schedule` runs when the triggers differ, `Sync` brings a count to a cluster,
`AdjustPods`, `RunPods` and `Ripen` are the member cluster (pods are created,
get a node, stay pending beyond the threshold), `Migrate` writes what
`estimateCapacity` makes of that, and `MigratePartly` what it makes of it when the
pods of a cluster cannot be listed, until the retry. When automigration looks
again is left open: it does whenever the annotation is not what it would write,
which idealises the handlers and delays of `automigration/controller.go:128-218`.
A scheduled pod counts as a ready one. Each
controller step is atomic, which is what a refused write and its retry come to.
In a `prompt` scenario automigration looks when the last plan has reached the
pods, which its delay is meant to ensure; the other scenarios look at any time.

### FederatedCluster

| actions | code |
|---|---|
| `Reconcile`, `JoinTimeout`, `JoinLook`, `JoinCreate`, `JoinGrant`, `JoinUpdate` | `federatedcluster/controller.go`, `clusterjoin.go`: the join, split at each request |
| `Cleanup`, `Finalize` | `handleTerminatingCluster` |
| `CollectBegin`, `CollectProbe`, `CollectWrite` | `clusterstatus.go`, with the thresholds of `cluster_status_cache.go` |
| `processCluster` | the federated informer manager's client for the cluster |
| `SyncObject`, `Cascade`, `CascadeFails` | `sync/controller.go`: the conditions for an object to go to a cluster; cascading deletion |
| `ChangeMember`, `Watch`, `Show` | outages, other control planes, the watch cache and the informer of the member cluster |

A uid tells a cluster from a later one of its name. `ns` is whose system
namespace the member cluster has, `nsSeen` whose its watch cache shows: the Get of
a join has resource version "0" and is answered from there, the Create is not.
Another control plane may have the member cluster from the start (`Other`), take
it when nobody has it (`Newcomer`), at any moment of our join, and leave it; it
deletes no namespace but its own. Deleting a namespace is immediate. `objs` is an
object of the federation in the member cluster, `shown` whether the list of the
cascading deletion contains it: `Cascade` deletes what is shown, and an object that
is not is `"missed"` from then on. One that came after the deletion of the cluster,
or was orphaned by it, is `"left"`. `Cascade` is one step although it lists, deletes
and then removes the finalizer: `CascadeFails` is the attempt that ends before the
last of these. A dispatch that was accepted counts as a deletion. An object whose
FederatedObject is not found makes the code check again for ever; the model has
the object's FederatedObject. `clobbered` marks that a write replaced what it had
not seen (see section 4); nothing is claimed afterwards, and the environment stops
there.

### Follower

`ReconcileLeader`/`EnqueueFollowers` and `ReconcileFollower`/`UpdateFollower`/
`Persist` are `reconcileLeader` and `reconcileFollower`, split where another worker
may come between; `update` and `reverseLookup` are those of the bidirectional
cache. Both caches are empty after a restart. `stored` says whether the object a
reconcile holds is still the one in the informer's store, to which
`updateFollower` assigns; `UnionFails` is the error that leaves it after the
leaders and before the placement are assigned. Which followers a leader's template
names is an input; a follower whose type has no FederatedTypeConfig, which
`reconcileLeader` passes over, is left out.

## 3. Runs

| run | module, cfg | checks |
|---|---|---|
| `dispatcher` | MCManagedDispatcher | `AllReported`, `StatusTruthful`, `ResultsFrozen`, `WaitEnds`, refinement of `ForkJoin` |
| `sync_storm` | MCSync, SyncStorm | `FinalizerHeld`, `QuietIsTruthful`, `NoCapture` with both caches lagging, timeouts, a crash, a member user |
| `sync_record` | MCSync, SyncRecord | `Tracked`, `NoLeftovers` for every kind of object with a crash, failures, lost replies, a deleted cluster |
| `sync_live` | MCSync, SyncLive | `DeletionCompletes`, `Converges` with a lagging member cache and an unready cluster |
| `pending_controllers` | MCPendingControllers | `QuietIsDone`, `PipelineEnds`, refinement of `Pipeline`, and `Pipeline`'s `Settled` and `InOrder` for the object in the API server |
| `federate` | MCFederate | `QuietIsFederated`, `CreatedUnderFinalizer`, `GetsFederated`, `SourceDeletionCompletes`, `NoneLeftBehind` |
| `migration` | MCAutoMigration | `RoomIsUsed`, `NoMove`, `TaintedShrinks`, `Settles` for nine policies and several capacities |
| `scheduler` | MCScheduler | `QuietIsConsidered`, `PlacedRight`, `NothingUndone`, `Drains` with two clusters and two policies of one name |
| `clusters` | MCFederatedCluster | `NamespaceOwned`, `NoneStranded`, `Settles` for a cluster, its successor and other control planes that come and leave |
| `followers` | MCFollower | `QuietIsFollowed`, `Settles` for two leaders of one follower |
| `other_plane_loses_namespace` | MCFederatedCluster, OtherPlaneLoses | violates `OthersKept` |
| `follower_update_lost` | MCFollower, FollowerUpdateLost | violates `AlwaysFollowed` |

The properties of `migration` say what holds and not more. `RoomIsUsed` asks that
the policy lets stuck replicas move and has fixed weights, and of the packing
planner that one more run would change nothing. `NoMove` asks for avoidDisruption
and speaks of the replicas within the estimate, the limit and the maximum.
`TaintedShrinks` leaves out clusters with a minimum. Of a packing policy the last
two are asked only of a run whose annotation describes the present plan
(`Current`). `Settles` asks for room for all replicas unless those that are stuck
stay where they are (`Enough`). Section 4 says what happens otherwise.

Bounds, and why they are enough. Two clusters in a dispatch round: the counter
and the channel are shared by all operations, and two show every order of a
nested Update against another operation; the proofs cover the rest. One cluster
for the sync controller: clusters meet only in the FederatedObject, in `pc` and
in the status list, which is per cluster; what a second one adds is a round of
which half is done, and a round with a crash or a timeout has that with one.
Two generations (`MaxGen`): one edit while the previous one is under way; one
event (`MaxEvents`) of those nobody controls, at any moment; one late operation
(`MaxLate`), which may outlive several rounds. Three versions of the source, one
changed result per controller and one outside change in the pipeline: enough
for a version to be left out, for a result to change after a later step has
run, and for a write to be refused. In `federate` three versions of the source with one that the API server rejects, two
uids: an edit, a deletion and a successor may overlap. Two changes and one fault
(`MaxEdits`, `MaxFaults`) for the scheduler and the followers: a second change
while the first is under way, of an object, a policy, a cluster or a leader;
two clusters show a bound on clusters, a cluster that is gone and one that
joins. Three replicas over two clusters with capacities from 0 to 3: rounding,
a full cluster and an overflow happen, and two changes of scale, capacity or
taint follow each other. For clusters the first registration and any two further
events (`MaxEvents`), at any moment: a deletion and a successor, which is created
while the join, the clean-up or the status of the former is under way; an outage
and a deletion; another control plane that comes during the join and a deletion
after it. A third event is out of TLC's reach with liveness (a deletion, a
successor and a fault have over eight million states, in which the safety
properties hold as well); the proofs cover any number. `CHECK_DEADLOCK FALSE`
everywhere: a controller with an empty queue stops, as it should.

Fairness. A worker takes a key that is queued and goes on with a reconcile it
began; an informer delivers what happened; `Wait` has a deadline; so these
actions are weakly fair, and this is all `dispatcher` assumes: a member cluster
may never answer there. In `sync_live` a member cluster answers in the end,
finishes its deletions and becomes ready again (with a cluster that never does,
a deletion rightly waits), upstream controllers finish, and the finalizer for
cascading deletion is added to a cluster. In `federate` the sync controller
finishes a deletion and the garbage collector collects. In `migration` member
clusters create, run and give up on pods. In `clusters` the periodic status
collection goes on, and watch caches and informers of the member cluster follow; a
join timeout need not pass and a member cluster need not come back. In `scheduler` the other controllers of the pipeline finish, and
`LeaveAlone` is strongly fair: the lister yields its clusters in a random order,
so a key that is looked at again and again is some time looked at in the
recorded order. No fairness is assumed
of failures, users, crashes or edits.

### What the violations show

*Another control plane may lose its namespace* (`other_plane_loses_namespace`).
"Only perform clean-up if we made any effectual changes to the cluster during
join", says the comment in `handleTerminatingCluster`
(`federatedcluster/controller.go:412`). The join looks for the system namespace in
the watch cache of the member cluster, finds none and creates it
(`clusterjoin.go:201`). If another control plane has created it meanwhile, the
answer is AlreadyExists and the attempt ends with `JoinPerformed`, though it made
nothing. The next attempt sees the other uid and takes this back, unless the
cluster is deleted first: the clean-up then deletes the namespace by name,
whosever it is. `NamespaceOwned` shows that a control plane that was there before the
cluster was registered is safe, and that the cluster never counts as joined.

*A follower may stay behind* (`follower_update_lost`). `updateFollower` assigns the
leaders and the placement to the object the informer's lister returned. If the
update then fails with an error other than a conflict, the key is tried again,
but the store has the new values already, nothing differs, and the reconcile
succeeds: the API server keeps the old ones until something changes the object.
Every other controller copies the object first. An error of `leaderPlacementUnion`,
which comes between the two assignments, loses new leaders in the same way.
`QuietIsFollowed` shows that a change gets lost in no other way.

## 4. Observed while modelling

These are consequences of the code that the models show or that they had to
make room for; the properties of the runs except them, at the place named.

Sync and pipeline:

- *A member object may be left behind.* `checkObjectRemovedFromAllClusters`
  (`sync/controller.go:891`) goes without the informer "to cover the possibility
  that the resources have not yet been cached", but skips the clusters where the
  informer showed nothing. `NoLeftovers` fails with `Faults = {"memberLag"}`.
- *A cluster may lose its entry in the status.* For a cluster that is not ready
  and not selected any more `syncToClusters` (`:573`) records nothing, so its entry
  goes, and nothing looks there again: `Tracked` fails with `"unready"`. The same
  loss happens with `"fedLag"` and `MaxGen = 3`: after a conflict `prepareToSync`
  writes the list it computed from the old copy over the new one.
- *`syncedGeneration` may be ahead*: after a conflict the generation stamped
  (`sync/status/status.go:60`) is that of the object just fetched.
- *A failed override write is forgotten* (`override/overridepolicy_controller.go:377`
  returns StatusAllOK): `QuietIsDone` fails when `Failing` includes the override
  controller.
- *A source may go before its FederatedObject* when the cache does not show the
  latter yet (`federate/controller.go:473`); `NoneLeftBehind` shows that it is
  still collected, through its owner reference.
- A cluster whose cache cannot be read is recorded as CachedRetrievalFailed
  (`sync/controller.go:594`) and not tried again: the round counts as a success.
- A follower's placement bypasses the pipeline: it may be propagated before its
  overrides are computed.

Scheduling:

- The cluster names in the triggers are not sorted (`schedulingtriggers.go:277`),
  so a reconcile may see triggers that differ in their order only: an object
  without a policy is scheduled and written again, and with a policy that is
  sticky or never reschedules the deferred reason comes and goes.
- With the no-scheduling annotation the triggers are recorded though nothing is
  scheduled, and nothing makes up for it later (`skipped`).
- A cluster that becomes unready or terminating is no trigger (`unfit`).
- With dynamic weights or with less room than replicas, the planner and
  automigration may go on moving the same replicas (`Enough`). Resources are no
  trigger, so `RoomIsUsed` needs weights that do not depend on them.
- *Overflow is counted twice.* What a cluster's estimated capacity turns away of
  its minimum and of its share adds up (`planner/planner.go:234` and `:280`), though
  the share starts from the cut minimum. With a minimum a cluster may be placed above its
  maximum, and since what runs now is cut at the capacities only it may stay there;
  a tainted cluster may grow. Without minima neither happens
  (`AllRoomIsUsed`, `TaintedClustersShrink`); with one TLC finds both.
- The packing planner scales up without the estimated capacity. It may fill a
  cluster beyond it while another has room; the annotation stays as it was and
  nothing triggers another run, so `RoomIsUsed` asks of it that another run would
  change nothing. It takes `currentTotalOkReplicas - totalReplicas` as the number to
  scale down by (`preferencebinpack/planner.go:154`), which is negative when maxima
  let it want less than the total: a cluster above its desired count then grows.
  `fillUp` may also exceed the limited capacity, since it gives the limit to what
  is added. No scenario of `MCAutoMigration` has a limit or a maximum with it.
- *A tainted cluster may grow.* "No new replicas will be scheduled to this cluster",
  says the comment where both replica plugins set the maximum of a cluster with an
  untolerated NoSchedule taint (`plugins/preferencebinpack/preference_bin_pack.go:75`).
  The packing planner returns the scheduled replicas of the annotation as they are
  when they add up to the wanted total (`planner.go:117`), and the annotation may be
  from before the workload was scaled down: scaled up again, the tainted cluster gets
  them back. `TaintedShrinks` without `Current` fails, for a packing policy with two
  places in each cluster, three changes and pods that lag behind (`prompt` false).
- A zero weight is obeyed: `RoomIsUsed` and `NoMove` are about positive ones.
- When the limited weights of all clusters round to zero, `AvailableToPercentage`
  divides by zero. And the rounding error, up to one half per cluster, goes to
  the heaviest cluster: with 64 equal clusters each gets 16 of 1000, the sum is
  1024 and one of them ends at -8. With 46 clusters or fewer no weight is
  negative (`AvailableToPercentageIs`).

Clusters and followers:

- *An object may be missed by the cascading deletion* (`objs = "missed"`). "If all
  cluster objects are successfully deleted, the federatedCluster will be deleted"
  (`sync/controller.go:1187`). What is deleted is what the informer of the member
  cluster has in its store (`:1283`), which may lack an object created just before;
  then nothing fails, the finalizer goes, and when the informer shows the object
  nobody looks. The list request that is made while the informer has not synced
  asks for resource version "0" and may be as old. `NoneStranded` with
  `objs \in {"ours", "missed"}` fails after a registration and a deletion; as it
  stands it shows that this is the only way for an object that was there when the
  cluster was deleted and should have been deleted with it.
- *A deletion may stay stuck* (`DeadEnd`): `handleTerminatingCluster` takes the token
  out of the secret and then deletes the namespace; when that fails, the next
  attempt finds no token to make a client with.
- A collected status, `joined` and `JoinPerformed` included, is written over
  whatever the cluster's status has become (`clusterstatus.go:317`), and the
  removal of the finalizers takes the latest cluster of the name after a conflict
  (`controller.go:468`), which may be a new one (`clobbered`).
- A join whose status update conflicts with a deletion leaves its namespace in
  the member cluster, and a later cluster of the name is unjoinable.
- An object that a lagging lister lets into a cluster after its deletion may stay
  there (`objs = "left"`). `clusterStatusStore` is never cleaned.
- After a restart a follower that is reconciled before its leaders is written
  without them, and again with them.

## 5. Proofs

Every theorem holds for every value of the constants: for all sets of clusters,
controllers, leaders and policies, however many edits, faults and versions. The
assumptions are the `ASSUME`s of the modules, which TLC evaluates in the runs;
they give the constants their types, and the ones that say more are named below.
Two theorems have a hypothesis about which faults there are, and those of
`AutoMigration` have hypotheses about the policies.

A pattern recurs. That a controller at rest has done its work (`QuietIs...`,
`PlacedRight`) is far from inductive: it has to be said, for every stale copy
there is, who will yet be woken because of it. So the invariants say that a copy
equals the stored object or is an older version of it with an event to come or
the key in the queue; that what a reconcile in progress has computed is right
about the object unless the key is queued again; and that what is neither queued
nor at work is right already. Where a copy is compared with the object itself, it
also takes that no version comes back (`AgeInv`, and the orders by generation and
uid in the other invariants), so that no write makes a stale copy current.

`PendingControllersProofs` (the steps are a sequence of non-empty disjoint sets):

- about the abstract `Pipeline`, as it is instantiated: `PipelineSettled`, a
  controller that is not pending has computed its result from the current
  template and the current results of all earlier steps. `Settled`
  is inductive together with the types. The argument: a controller that runs is
  among the first pending ones (or nothing is pending), so all earlier ones are
  settled and stay so; if its result changes, every later one becomes pending,
  whatever was pending of them before; if not, nobody's inputs change. The new
  template of `Federate` makes all of them pending. `PipelineInOrder`: a
  controller computes only when everything before it is up to date; from
  `Settled` and the guard;

- lemmas about the operators: `NormalizeFront` says what the loop of
  `NormalizeControllers` returns when only the first step may be empty (its
  recursion has one solution, by a least index where two would differ, and one
  solution is given); `UpdateFacts` that `UpdatePendingControllers`, in the
  controller's turn, returns what is left of one step and all later ones, and
  exactly the names the abstract pipeline says;
- `ControllersArePipeline` (`PipelineRefined`): a write and a reconcile with
  nothing to write on a current copy are `Process`, an update by the federate
  controller is `Federate`, everything else stutters. It needs `TurnInv`: a
  controller at work is one whose turn it was in the copy it holds, which is the
  object when the write is accepted. Trying to prove it showed the abstract
  `Federate` to be too narrow: it allowed one version at a time, and TLC had
  been run with too few versions to see one left out; both are mended;
- `ResultsFit` (`Settled`) and `StepsComplete` (`InOrder`): what the pipeline
  promises holds of the object in the API server; from the refinement and the
  lemmas about `Pipeline`;
- `RestMeansDone` (`QuietIsDone`), if `Failing \cap NoRetry = {}`: with a
  controller that drops a failed write it is false (section 4). `CopyInv` and
  `WakeInv` are the pattern above.

`ManagedDispatcherProofs` (no assumption: any set of clusters, which need not be
finite, for only finitely many operations are begun in a finite prefix):

- `Invariance`: the inductive invariant `IInv`. `AllReported` is not inductive:
  it has to be known what the two counters count. `Counted` says that
  `received` is the number of operations that are done, `initiated` the number
  of those ever started; `StartedOnce` that the operations of a cluster not yet
  visited are idle, and that a Create still running has started no Update, so
  that none is counted twice; `InPhase` that all clusters are visited when `Wait`
  begins, and that it returned without a timeout only with as many results as
  operations. Then the operations begun and those done have the same finite
  cardinality and one set contains the other, so they are equal;
- `TypeCorrect`, `WaitIsComplete` (`AllReported`), `MapsFrozen` (`ResultsFrozen`);
- `DispatcherIsForkJoin`: every step is a step of `ForkJoin` or stutters;
- `StatusesAreTrue` (`StatusTruthful`): of the operations of a cluster one decides
  its status, the Update when a Create started one (`OneEach`), and until `Wait`
  settles the map its entry is that operation's timeout or failure (`Told`).

`SyncControllerProofs`, for every set of clusters and of faults:

- `TypeCorrect`;
- `FinalizerIsHeld`: `FinalizerInv` says that a copy may be old but that the
  finalizer it shows is still there, for only a reconcile of an object being
  deleted gives it up, and no copy is from before that;
- `NothingIsCaptured` (`NoCapture`): by `AdoptionInv` the member caches hold
  managed objects only, and an Update of an object that is not managed is one a
  Create has started, which asks whether to adopt;
- `RestIsTruthful` (`QuietIsTruthful`), with all faults at once: `TruthInv` is the
  pattern above for caches of the object and of each cluster, for operations
  that are late, and for the round in progress;
- `EverythingIsTracked` (`Tracked`) and `NothingIsLeftOver` (`NoLeftovers`), if
  `Faults` has none of `Obscured`: lagging caches, timeouts, unready clusters.
  With any one of these four TLC finds them false (section 4 describes some of
  the ways); crashes, failures, lost replies, deleted clusters and member users
  do not matter. `RecordInv`
  says that the list a reconcile holds, or has written, leaves out no cluster
  with an object to answer for, and that the clusters it listed were ready and one
  that was being deleted then still is.

`FederateControllerProofs`: `CreationIsCovered` (`CreatedUnderFinalizer`), from
`SourceInv`, which orders the copies of a source by uid and deletion as
`FinalizerInv` does, and says what reconcile knows of its copy at each place;
`RestIsFederated` (`QuietIsFederated`), from that and the pattern (`CopiesInv`).

`FollowerProofs`: `ReverseLookupIsExact`: after any number of updates each
bidirectional cache is a relation and its converse; `RestMeansFollowed`
(`QuietIsFollowed`). The two caches are written by workers that do not wait for
each other, so `Agrees` says that a follower at rest has what it saw of each
leader when it last decided, and that the leader is still so or is yet to run and
will find the follower, in its template or by the reverse lookup.

`SchedulerProofs` (`Cluster` is finite, a policy exists, policies have the fields
of the type): `TypeCorrect`; `RestIsConsidered` (`QuietIsConsidered`): `RestInv`
says that when the key is not queued, what the scheduler would decide on is what
it recorded; `RestIsPlacedRight` (`PlacedRight`): `RecordInv` says that recorded
triggers and placements belong together (`LeadsTo`), `FitInv` that a cluster not
marked `unfit` is ready and stays; `NothingIsUndone` (`NothingUndone`): by
`WriteInv` a result that the API server would accept was computed from the object
that is there. How the plugins choose among the
clusters that pass the filters is arbitrary, so the results do not rest on it.

`FederatedClusterProofs`: `TypeCorrect`; `NamespaceIsOwned`: `JoinInv` says that
the namespace is that of the cluster being joined from the moment it is made,
`RunInv` what a join or a clean-up in progress knows of the cluster it was
started for, `ForeignInv` that nothing was performed while a control plane that was
there before has the member cluster; since the look at the namespace may be old,
`SeenInv` says that a namespace which the watch cache still shows, although it is
gone, is that of a cluster being deleted, so that no join takes it for its own, and
`AgeInv` that the worker never goes back to a former cluster of the name.
`NoneIsStranded`: `StrandInv`, an object in the member cluster that no list has
missed holds the finalizer for cascading deletion, which holds the clean-up.

`AutoMigrationProofs`: what the planners compute takes induction over the passes of
a loop and over sets of clusters. `LoopInduction` and `SetInduction` state these
once, over a set of indices or of sets in the place of a predicate, and
`LoopExists` that a recursive function of the number of turns is what its equation
says. On them rest the lemmas about sums (`SumPick`, `SumOrder`, `SumExcess`, ...)
and about each function of the planner, from the inside out: a turn (`ShareTurn`),
a pass (`PassRun`), all passes (`Distributed`), the plan (`Desired`), scaling up and
down (`ScaleUpIs`, `ScaleDownIs`), and the whole (`Promised`, `Arranged`). The facts
that carry it: nothing is lost (`Filled`: what is planned and what remains add up),
a cluster without a further turn is full, a pass that does not place everything
fills a cluster, so that there are enough passes (`PassProgress`), and scaling by no
more than the excess takes from no cluster more than its own excess
(`PassByExcess`, where rounding up is harmless because it is one pass).

- `MigrationTypes` (`TypeOK`), for both planners: no count and no estimate is
  negative. `Inv` adds to the types that the policy is that of a scenario and that
  what the collected status says is available is not negative, which is because
  no more pods run than fit. Hypothesis: with weights that follow the resources
  there are at most 46 clusters (`FewWhenDynamic`); with more a weight may be
  negative (section 4);
- `TaintedClustersShrink` (`TaintedShrinks`) and `NothingMoves` (`NoMove`), if every
  policy spreads (`SpreadOnly`) and, for the second, weights are positive: what
  `Promised` says of one run, for any annotation and any present plan;
- `AllRoomIsUsed` (`RoomIsUsed`), if also no policy has minima (`NoMinima`).
  `RoomInv` says that no cluster is placed above its maximum and that the placement is
  `Placed` for the *recorded* triggers: either everything is placed within the
  estimates, or every cluster is full and what it has beyond that is where the
  estimate is the bound. At rest the recorded triggers are the present ones, an estimate is
  the capacity of a cluster that cannot run all it should (`QuietPods`), and in
  both cases what runs adds up to what fits. The first part is needed because what
  runs now is not cut at the maximum.

Only model-checked:

- liveness (`WaitEnds`, `DeletionCompletes`, `Converges`, `PipelineEnds`,
  `GetsFederated`, `SourceDeletionCompletes`, `NoneLeftBehind`, `Drains`, every
  `Settles`): out of the prover's reach, like `ENABLED`;
- `RoomIsUsed`, `NoMove` and `TaintedShrinks` of the packing planner, and
  `RoomIsUsed` of policies with minima. They do not hold of every policy: with
  maxima below what the clusters have, the packing planner's negative count makes
  one grow; with a limit it may be exceeded; and section 4 has the case of minima.
  TLC checks them on the policies of `MCAutoMigration`.

## 6. Not modelled

Field retention and override patches (pure data), score plugins and webhooks,
metrics, events and logs, serving layers and start-up, generated clients: nothing
there has a property a state machine would show. Left out of what is modelled, and
not without consequences:

- scheduling profiles. A policy may name one that is not there: the reconcile then
  reports success (`scheduler.go:465`), and since the informer of profiles has no
  handler (`:186`), nothing brings the object back when the profile is created.
  `QuietIsConsidered` is about policies without a profile, or with one that exists;
- the annotation of an applied custom migration, which the scheduler writes and
  removes before it computes the triggers (`scheduler.go:369-398`), and the default
  filter `ClusterEvicted`, which reads it. `PlacedRight` is about objects without one;
- the removal of the automigration annotation when the policy disables it
  (`automigration/controller.go:294-301`).
Status collection and aggregation, the policy reference counter, the version
manager, federated HPA and multi-cluster services have such properties and are
left for later. About two fifths of the repository's lines are generated.
`PROJECT.json` says for every component why it is left out or what is left out of
it.

## 7. Plan

1. Theorems: every invariant and action property that a run checks is proved, the
   packing planner's excepted. Left are results between the models: that the sync
   controller's `SyncReleases` of `FederateController` and `Cascade` of
   `FederatedCluster` are steps that `SyncController` takes; and which policies
   the packing planner keeps its promises for.
2. Around the pipeline: the policy reference counter, the version manager
   (a lost or stale version never hides a change), status collection and
   aggregation, multi-cluster services.
3. Informer managers per FederatedTypeConfig, with the unreadable cache above.
4. Composition: `FederateController`, `PendingControllers` and `SyncController`
   over one FederatedObject, with the abstract `Pipeline` for the middle.
