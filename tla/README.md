# Verification of kubeoperator-journey

TLA+ models of the two controllers in this repository and of the manual procedure
they replace, TLC configurations that check them on small instances, and TLAPS
proofs that hold for every instance.

* The **operator** (`internal/controller`, `internal/backup`, `api/v1alpha1`)
  reconciles `DatabaseCluster` resources: a ConfigMap, a headless Service, a
  StatefulSet, a status with conditions, and a backup bucket behind a finalizer.
* The **control loop** (`internal/watcher`, `internal/reconciler`,
  `cmd/control-loop`) is a controller built from goroutines and channels over an
  in-memory store with watches.
* The **manual operator** (`internal/problem`, `cmd/why-operators`) is an inventory
  kept by hand, with steps that fail at random.

## 1. Inventory

| Part | State it keeps | Operations | Hard behaviour |
|---|---|---|---|
| Reconciler (`databasecluster_controller.go`) | none of its own: what it knows is in the API server, the caches and the local copy of a reconcile | `Reconcile`, `reconcileDeletion`, `provisionBackupBucket`, `updateStatus`, `SetupWithManager` | stale caches, a failure or a crash between any two calls, patches without a resource version, a local copy that every response replaces |
| Builders (`resources.go`) | none | `buildConfigMap`, `buildHeadlessService`, `buildStatefulSet` | the random iteration order of a Go map |
| Bucket registry (`bucket.go`) | the set of buckets, under a mutex | `Provision`, `Delete`, `Exists`, `Info` | idempotence after crashes; one name for two namespaces |
| API types (`databasecluster_types.go`) | spec, status, finalizers of a resource | merge patch and decoding, by the client library | the meaning of an absent field |
| Watch store (`store.go`) | map, revision, subscribers | `Set`, `Delete`, `Get`, `Watch` | sends after the unlock, events dropped when a channel is full |
| Control-loop controller (`reconciler.go`) | actual states, a bounded work queue | `watchLoop`, `enqueue`, `reconcileLoop`, `Reconcile`, requeue goroutines, `Stop` | keys dropped when the queue is full, a desired state that changes during an upgrade |
| Control-loop demonstration (`cmd/control-loop`) | none | a fixed scenario | a sleep in place of synchronisation |
| Manual operator (`manual_operator.go`), its demonstration (`cmd/why-operators`) | an inventory of clusters | `Provision`, `CheckHealth`, `ScaleUp`, `ScheduleBackup`, `UpgradeVersion` | one thread; random failures, and sequences in which a later call overwrites what an earlier one recorded |
| Diagnostics (`checker.go`), Kubebuilder scaffold, example manifests | none | printing; declarations | none |

Interaction. The reconciler reads the informer caches (`r.Get`, `CreateOrUpdate`)
and writes to the API server; each write comes back later as a cache update that
enqueues a key. Users, other controllers, the StatefulSet controller and the
garbage collector write to the same objects. In the control loop the writer of
the store, `watchLoop`, `reconcileLoop` and the sleeping requeue goroutines share
the store's map, one channel per subscriber and the work queue.

What makes each part correct:

* *backup lifecycle*: a bucket never outlives the finalizer that cleans it up; a
  status that reports a bucket is true; only a deletion removes a bucket, and only
  after that does the finalizer go; a deletion ends; backups that are wanted get
  provisioned;
* *children and status*: children converge to the spec, are owned by the living
  object, and the status reports them; settings precede the pods that mount them;
  and then the operator is quiet; where it is quiet, nothing is left to do;
* *builders*: equal specs give equal objects; the ConfigMap has every setting once;
* *control loop*: no change is forgotten, actual converges to desired, retries do
  not multiply, the loop comes to rest, `Stop` stops it;
* *manual operator*: a failed upgrade is not covered up, and the inventory names
  no version that was not reached.

`PROJECT.json` lists the components, the hazards at their lines and, for every
definition that models code, the lines it stands for.

## 2. Modules

Operator:

| Module | Models |
|---|---|
| `DatabaseClusterAPI` | the fields of spec and status that the reconciler reads back; `setCondition`; `PatchStatus` (what `client.MergeFrom` sends: the fields that differ from the copy, lists whole, no resource version); `Decode` (what a response does to the caller's object: everything is replaced, except that fields absent from the response keep the caller's value) |
| `BucketStore` | the registry as a set of names |
| `Resources` | the builders and the mutate function of the StatefulSet; `Renderings` has every order a map iteration may give |
| `DatabaseClusterController` | the reconciler, its caches, its queue and its one worker |
| `DatabaseClusterSystem` | users, other finalizers, pods, garbage collection; `Next`, `Fairness`, the properties |
| `BackupLifecycle` | abstract specification: what finalizer and bucket may do, without caches, calls or processes |
| `BackupInvariant` | the inductive invariants of the backup lifecycle |
| `ControllerTypes`, `BackupProofs`, `LifecycleProofs`, `OrderProofs`, `RestProofs` | the proofs about the operator |
| `ResourcesProofs` | the proofs about the builders |
| `MCDatabaseCluster` | specs, settings and event budgets for TLC |

Control loop:

| Module | Models |
|---|---|
| `WatchStore` | the store; a change under the lock, then one send at a time to the subscribers copied under it |
| `LevelTriggered` | abstract specification: a set of keys to look at and one worker, without channels or goroutines |
| `ControlLoop` | both loops, `Reconcile`, the requeue goroutines, `Stop`; the properties |
| `ControlLoopProofs` | the proofs |
| `MCControlLoop` | values for TLC |

Manual operator:

| Module | Models |
|---|---|
| `ManualOperator` | the inventory, one action per operation and outcome; `broken` is a history variable, the names whose last upgrade failed |
| `ManualProofs` | the proofs |
| `MCManualOperator` | symmetry for TLC |

### The operator model

*API server and caches.* `versions[c]` is the sequence of versions of a
`DatabaseCluster` from the one in the cache (`Cached(c)`, its head) to the one
stored (`Api(c)`, its last); `Sync` drops the head and enqueues the key. So a
reconcile may read any version not yet dropped, up to `MaxLag` of them. An absent
object is a version too, and keeps the uid of the object that was there. Children
are two values, `live` (stored) and `seen` (cached), with `news` recording that
an event is due; an event is due even if a later write has undone the change. So a cached
child has at most one earlier state, and the cache goes to the latest one at once.
`CreateOrUpdate` is refused whenever an event of the child is still due, as a write
with the cache's old resource version would be.

*A reconcile* is a sequence of steps (`pc`), one for each call that reads or
writes shared state:

| `pc` / action | Code |
|---|---|
| `Reconcile(c)` | `r.Get` from the cache, steps 1 to 3; `upgrading` of step 6, which is read from the same copy |
| `InitialPhase` | step 3, the status patch; the reconcile returns and the watch brings it back |
| `ReconcileConfigMap`, `ReconcileService`, `ReconcileStatefulSet` | the three `CreateOrUpdate` calls |
| `MarkUpgrading` | step 6 |
| `Observe` | step 7, and the guard of step 8 |
| `AddFinalizer`, `ProvisionBucket`, `RecordBucket` | `provisionBackupBucket` |
| `UpdateStatus` | `updateStatus`; `RequeueAfter` if pods are missing |
| `DeleteBucket`, `RemoveFinalizer` | `reconcileDeletion` |

Every call may be refused (no such object, already exists, conflict, forbidden
finalizer), lost, or applied with its answer lost (`Patch`, `CreateOrUpdate`);
each of these ends the reconcile and puts the key on a timer. `Restart` may come
between any two steps. A patch is by name: after a deletion and a new creation it
reaches the new object. The registry's `Exists` and `Provision` are one step,
since there is one worker.

*Composition and refinement.* `DatabaseClusterSystem` composes the reconciler with
users, Kubernetes and other controllers. `FollowsLifecycle` states that it
implements `BackupLifecycle`: the stage of a cluster is read off its stored object
(finalizer or not, marked for deletion or not: `Stage` and `stages` are a refinement
mapping and translate no code), the buckets are the buckets. The
abstract specification says what no invariant does: in which order the two may
change, and that nothing but a deletion in progress removes a bucket.

*Left out*: `storageSize`, `lastBackupTime`, labels, ports, probes and the wording
of messages, except the number of replicas a condition message quotes (it decides
whether the list of conditions differs, hence whether it is sent).

### The control-loop model

A step is what happens between two points where another goroutine may act: a
channel operation, a locked section, a sleep. A send to a full channel and an
enqueue on a full queue drop what they carry. `Fetch` reads the store once; the
upgrade sleeps between `Fetch` and `UpgradeSucceeds`, so the store may change or
lose the key meanwhile, as it may before `Forget` and `Scale`. Writers always name a
version, as `main` does (`VersionsAssumption`; the type would permit the empty one).
`sleepers[k]` counts the goroutines of `reconcileLoop` that will enqueue `k` after their
sleep. Left out: the reconcile counter, event types and values (only printed), the two
read-only accessors.

`IsLevelTriggered` states that the loop implements `LevelTriggered`: the keys to
look at (`toFetch`) are those with a send, an event, a queue entry or a sleeper of
their own, or in a reconcile about to read; the worker's job (`job`) is what `Reconcile`
has read. Both are a refinement mapping. The abstract worker may keep a key in the set
when it takes it (there may be several entries), and must put it back when it gives up.

### The manual-operator model

One thread, so an operation is a step. What `rand` decides is a choice between two
outcomes; `UpgradeVersion` has an action for each. `cmd/why-operators` calls some
of the operations once and in one order; `Next` has all of them in any order.

## 3. Runs

An operator run gives each kind of event a budget (`Events(create, edit, delete,
foreign, child, pod, fault, restart)`: how often it may happen; everything else is
unbounded). `Budgets` is a set: a behaviour starts with one of its members, so one
run covers several scenarios without multiplying all faults with each other.

| Run | Question | Bounds | Result |
|---|---|---|---|
| `backup_safety` | are buckets tracked, the status true, the lifecycle followed, and nothing left undone? | a name used by two objects in turn; or one object whose schedule is edited, and a lost call; or the same with a restart; one deletion in each, lag 2 | holds |
| `rollout` | does the cluster converge, is it left alone only when all is done, and does the operator come to rest, through an edit that scales, upgrades and reconfigures? | two versions, 1 or 2 replicas, settings files of two lines, written in either order, an edit in either direction; the stored order is drawn now and then (`RandomSpec`) | it does |
| `repair` | with backups: is damage made good, with nothing left undone, do deletions end, and wanted backups get provisioned? | a deleted child and a lost call or a restart, a failing pod and a lost call, or a lost call and a restart, in either order; or a deletion, with a foreign finalizer, a lost call or a restart; or two objects in turn, children of the first cached, stored or being collected | it is, and they do |
| `loop_single` | do dropped events matter with one key? | capacities 1, two writers, three changes, a subscriber that never reads, a value of the wrong type | they do not |
| `loop_room` | without a drop, can a key be lost, work multiply, or a step not be level-triggered? | two keys, three changes, capacities 3 | no |
| `manual` | is a failed upgrade covered up, or a version recorded that was not reached? | two clusters, two versions, 2 replicas, any number of operations | no |
| `forgotten_key` | can a key be lost with drops? | two keys, capacities 1 | **yes** |
| `upgrade_condition` | does `Upgrading` clear? | one upgrade, two replicas | **no** |
| `silent_upgrade` | is every upgrade announced? | one upgrade, lag 3 | **no** |
| `early_version` | does the StatefulSet have the version that the status reports as current? | one upgrade, a backup schedule, lag 3 | **no** |
| `config_map_order` | is the ConfigMap stable? | two settings | **no** |
| `shared_name` | is the status true of two namespaces? | two clusters of one name | **no** |

*Why these bounds are enough.* A stale reconcile needs two versions of an object,
the one it has read and the one that is stored; longer lags repeat the same
relation (and the proofs cover every lag). One lost call is enough because every
retry starts from the same kinds of state as the first attempt, and a second
object of the same name is what it takes for a late write to hit the wrong one.
Two replicas are the fewest with a partial rollout. Two lines of settings have both
orders of a pair; more would only make the stored order rarer. The other runs have files
of one line (`OneSetting`), where there is no order, so that they need not follow every
reconcile with an event. What no run reaches is a StatefulSet that a late reconcile
takes back from what the stored spec asks for: that needs two edits, the second undoing
the first, and only `NothingIsLeftUndone` covers it, which is proved for any number. In
the control loop capacity 1 makes the second event of a burst the dropped one, and three
changes allow for one being received, one waiting and one dropped.

*Deadlock checking is off*: the system comes to rest when users and failures have
spent their budgets and everything has converged, or when `Stop` has ended both
loops. (The manual operator never stops; its configuration follows the others.)

*Fairness.* Operator: the worker, the informers and the timers go on (goroutines
of controller-runtime); the work queue is first in first out, so a key in it is
taken in the end (strong fairness of `Reconcile(c)`); Kubernetes starts and stops
pods and collects garbage. Nothing is assumed of users, other finalizers or
failures: liveness holds whether or not they act. Control loop: runnable
goroutines run; a Go `select` with several ready cases picks at random, so each
of them is taken eventually (strong fairness of the two `Returns`);
`simulateUpgrade` fails at random with probability 0.15, so it succeeds eventually.
The manual operator has no fairness: nothing makes an engineer act.

*Rest.* `Settles` says that a loop whose own writes are events for it dies out. In
the operator it does so only by chance: with more than one line each reconcile may
render the file in another order and rewrite the ConfigMap it owns, which wakes it
again. Under the fairness above this may go on for ever: with `FairSpec` in its place
`rollout` fails on `Settles`. `RandomSpec` adds strong fairness of `RendersAsCached`,
the step whose draw is the cached order, so that among infinitely many draws some repeat
it. A range over a Go map starts at a random place each time, so this has probability 1;
but the code has eleven lines and not two, and a repeat is rare. So the run shows that
the rewriting is all that keeps the operator awake, and that the cluster converges in
spite of it; it does not show that rest comes soon. In the control loop `Settles`
excludes values of the wrong type, which are retried for ever (`reconciler.go:131`).

*Mutants.* Each property of a passing run has an operator in the modules, marked
`Mutant:`, that replaces the definition after it by a plausible bug (a cleanup
skipped, a finalizer added too late, a version recorded before it is reached, a
blocking send) under which the run fails.

### What the violations show

1. `upgrade_condition`: `Upgrading` becomes False only in the reconcile that found
   the version change, and only if all replicas are ready then. By the next
   reconcile `currentVersion` is already the new version, so the condition stays
   True. The test at `databasecluster_controller_test.go:423` asks for False.
2. `silent_upgrade`: the version is compared in the copy fetched (`:119`), and an
   empty `currentVersion` counts as no change. Reconcile A, which holds 15.4, reports
   15.4 as current after the user has edited the spec to 15.5. Reconcile B fetches the
   cached version in between, with 15.5 in its spec and no `currentVersion` yet, sees
   nothing to upgrade and changes the image. The stored status says 15.4 and is never
   `Upgrading`.
3. `early_version`: the response of a patch replaces the local copy. Here the edit
   arrives with the response of the finalizer's patch, after the StatefulSet was
   built: `updateStatus` (`:269`) reports the edited version as current, while the
   StatefulSet has the earlier one. The next reconcile applies it, and compares it with
   a `currentVersion` that is the same already: this upgrade goes unannounced as well.
   (`silent_upgrade` cannot see that: its property looks at images that had been
   reported correctly.)
4. `config_map_order`: `buildConfigMap` ranges over a map, so the file's lines come
   in any order although `resources.go:250` promises the same ConfigMap, always.
   The cluster converges all the same (`rollout`), but each rewriting enqueues it
   again, and a cluster that nobody touches is reconciled until a draw repeats the
   stored order; `checker.go:136` expects a rate near zero.
5. `shared_name`: the bucket's name lacks the namespace.
6. `forgotten_key`: a drop loses a key of which no other event waits; nothing lists
   the store again. With the capacities of the code it takes 33 events before
   `watchLoop` runs, or 65 keys before `reconcileLoop` does.

Differences seen while reading, for which there is no run: `currentVersion` is the
new version before any pod runs it, even where the StatefulSet has it
(`databasecluster_controller.go:269`, `databasecluster_types.go:68`; `early_version`
shows the worse case); `observedGeneration` is set with the initial phase,
before anything is reconciled (`:82`, `types.go:83`); deletion looks at the
finalizer and not, as `types.go:78` says, at `backupBucketProvisioned` (rightly: a
crash may leave a bucket the flag does not know of); the registry of `bucket.go:51`
is gone with the process (`StoreDurable = FALSE`, where `ProvisionedHasBucket`
fails); the queue of the control loop has no deduplication, which
`cmd/control-loop/main.go:92` claims.

## 4. Proofs

For every value of the constants: any set of clusters, names, versions, settings,
cache lag and event budgets; any keys, writers, watchers and capacities. From the
constants the proofs use only the assumptions the modules name (budgets and
capacities are numbers, there is a version and a settings value, users write
well-typed specs, `None` is none of the values) and, where a theorem says so, the
ones below.

| Theorem | States | Assumes besides |
|---|---|---|
| `ControllerTypes!TypeCorrect` | `Spec => []TypeOK` (operator) | |
| `BackupProofs!TrackingHolds` | `Spec => []TrackingInvariant` | |
| `BackupProofs!NoBucketIsOrphaned` | `Spec => []NoOrphanBucket` | |
| `LifecycleProofs!LifecycleWithoutLoss` | `Spec /\ [][RestartLosesNothing]_vars => FollowsLifecycle` | `OwnBuckets` |
| `LifecycleProofs!ImplementsLifecycle` | `Spec => FollowsLifecycle` | `OwnBuckets`, `StoreDurable = TRUE` |
| `LifecycleProofs!PromisesWithoutLoss` | `Spec /\ [][RestartLosesNothing]_vars => []ProvisionedHasBucket` | `OwnBuckets` |
| `LifecycleProofs!PromisesAreKept` | `Spec => []ProvisionedHasBucket` | `OwnBuckets`, `StoreDurable = TRUE` |
| `OrderProofs!SettingsPrecedePods` | `Spec => ConfigMapFirst` | `NoDeletions` |
| `RestProofs!NothingIsLeftUndone` | `Spec => []NothingLeftUndone` | |
| `ResourcesProofs!ConfigMapIsComplete` | every rendering has each setting once, with the right value | |
| `ResourcesProofs!SameSpecSameLines` | two renderings of a spec differ in order at most | |
| `ControlLoopProofs!LoopTypeCorrect` | `Spec => []TypeOK` (control loop) | |
| `ControlLoopProofs!WithoutLossLevelTriggered` | `Spec /\ [][NothingLost]_vars => IsLevelTriggered` | |
| `ControlLoopProofs!WithoutLossNothingForgotten` | `Spec /\ [][NothingLost]_vars => []NoKeyForgotten` | |
| `ControlLoopProofs!WorkIsBounded` | `Spec => []WorkBounded` | |
| `ControlLoopProofs!FewChangesAreNotForgotten` | `Spec => [](FewChanges => NoKeyForgotten)` | |
| `ControlLoopProofs!RoomForAllIsLevelTriggered` | `Spec => IsLevelTriggered` | `MaxRevision` is at most `EventCap` and `QueueCap` |
| `ControlLoopProofs!OneKeyIsLevelTriggered` | `Spec => IsLevelTriggered` | `Keys = {k}` |
| `ControlLoopProofs!OneKeyIsNotForgotten` | `Spec => []NoKeyForgotten` | `Keys = {k}` |
| `ManualProofs!FailuresShow` | `Spec => []FailedUpgradeShows` | |
| `ManualProofs!VersionsAreTrue` | `Spec => VersionsAreReached` | |

`OwnBuckets` says that no two clusters have the same name; `shared_name` is the
counterexample without it. `StoreDurable` says that the registry outlives the
process, as the external service it stands for would (`bucket.go:49`); without it a
restart takes the buckets away from under the status. That is the only way in which
the condition is needed: `RestartLosesNothing` says no more than that no restart
finds buckets in a registry that goes with the process. `NoDeletions` says that no
cluster or child is deleted: otherwise the ConfigMap may be deleted, or collected
with the owner it came from, while a reconcile is between it and the StatefulSet
(TLC finds that in a dozen steps). `Keys = {k}` says that the
loop has one key; `forgotten_key` is the counterexample with two. `NothingLost` is
a condition on steps: what a step sends to `watchLoop` or enqueues is in the channel
or the queue afterwards, be it another entry of the same key. `MaxRevision` is the
model's bound on changes; the demonstration makes 15, with room for 32 and 64.
`FewChanges` is a state's form of the same: so far there were no more changes than
either holds.

**Tracking.** `NoOrphanBucket` is not inductive. A reconcile that adds the finalizer
to an old copy and creates a bucket relies on the name not being untracked in
between; one that has deleted the bucket and removes the finalizer relies on nobody
having provisioned anew. `TrackingInvariant` says which histories can lie between
the cache and the API server:

* `TrackedStays`: while the cache may still show a live object with the finalizer,
  the finalizer is still there;
* `DoomedBefore`, `NotTrackedAnew`: objects being deleted are either the latest
  version or the oldest ones in the history, and a name is not tracked again while
  the cache may still show its predecessor being deleted;
* `WorkerOK`: the same of the reconcile in progress, whose copy is never ahead of
  the API server on the finalizer.

A write that leaves tracking and deletion alone (`Harmless`) keeps all of this at
any history, by `AppendHarmless`; the cache's progress by `TailKeeps`. That leaves
`AddFinalizer`, `RemoveFinalizer` and the user's deletion, which are the proof's
substance (`AddFinalizerKeeps`, `RemoveFinalizerKeeps`, `UserKeeps`). A fetched
version gives the reconcile what it relies on by `FetchedOK`. Several keys share
the worker: a step for one leaves the histories of the others alone.

**Lifecycle.** Under `TypeOK` and `TrackingInvariant` every step is a step of
`BackupLifecycle` or a stutter. Most leave stages and buckets alone; the finalizer's
patches, the two bucket operations and the user's deletion are one abstract action
each. `TrackingInvariant` gives what the abstract guards ask for: that whoever
provisions is tracked by then, and whoever cleans up is being deleted.

**Promises.** `ProvisionedHasBucket` needs more: a flag that is about to be written
must find its bucket in place. `PromiseInvariant` says that a stored object whose
flag is set is tracked and has its bucket, and that the worker, when it is about to
record the flag, holds the finalizer and the bucket is there. `TrackingInvariant`
then gives that what the worker holds is still true of the object it writes to.

**Order of children.** Without deletions an object, once created, stays the same
one (`Steady`), so a ConfigMap is nobody's garbage, the cache shows none that is not
stored, with the owner it is stored with (`Owned`), and a reconcile past `configMap`
leaves one behind (`WorkerReady`). The step that creates the StatefulSet comes only after that.

**Rest.** `NothingLeftUndone` says that a cluster which nothing makes due (no key in
the queue, no timer, no cache behind the API server) and which no reconcile is at has
the children its spec asks for, the status that reports them and its bucket, or is
cleaned up: whatever was lost, refused, read too late or cut off by a restart, it was
left to somebody. `RestInvariant` gives why. Its parts: a child that differs from its
cached form, or an object that does, has an event under way that will enqueue the
cluster (as regards the children, `CacheTold`); while the cluster whose reconcile is
in progress is not due, the reconcile works on the object as it is stored, and what
each of its steps so far was for is in place (`Current`); and a cluster that is neither
due nor being reconciled has everything a finished reconcile leaves (`Finished`). The
proof is one lemma for each action; a write of any kind makes its cluster due, a call
without a change leaves all of it alone.

**Builders.** A rendering takes its order from a bijection of the line numbers onto the
settings, so each setting has one line whatever order the iteration of the map took,
and the value of a line is the user's where there is one. `SettingsAssumption` says
that settings are finite maps, as Go's are.

**Control loop.** `Typed` strengthens `TypeOK` by what each program counter holds
in its local variables; `Subscribed` says that `watchLoop` is among the subscribers
by the time anything changes, so every change is sent to it. Under `NothingLost`,
`toFetch` changes as the abstract set does: a receive, an enqueue and a wake-up hand
a key on, a reconcile takes one occurrence of it. That is the refinement, for any
keys; `NothingForgotten` is proved of the abstract controller, step by step, and
`NoKeyForgotten` follows from it through the refinement mapping.

That a step loses nothing is proved from two sides. With one key, an event is
dropped only where the channel is full of events of that key, and a key only where
the queue is. With any keys, `WorkBounded` helps: sends, events, queued keys, the
reconcile in progress and the sleepers are together no more than the changes made,
since nobody subscribes twice (`SentOnce`), every step takes away what it stands in
for, and a reconcile leaves one sleeper at most. Whoever sends or enqueues is one
of them, so while there were no more changes than a buffer holds it has room. So
the first 32 changes lose nothing, however often upgrades fail in between, and the
33rd may be lost: the bound of `forgotten_key`'s scenario is tight.

**Manual operator.** `FailedUpgradeShows` is inductive with the types of the entries.

**Only model-checked:** liveness (`Converges`, `Settles`, `DeletionCompletes`,
`BackupProvisioned`, `StopEnds`: TLAPS does not do fairness). Every invariant and
every safety property over steps that a passing run checks is also proved, under
the conditions the table names. For several keys under drops there is nothing to
prove: `forgotten_key` shows that keys are lost.

## 5. Plan

Done: the reconciler with its environment, the control loop, the manual operator;
the two abstract specifications and their refinements; the proofs of every safety
property, with several keys in the control loop and with the builders. What would
be worth adding:

1. *`SettingsPrecedePods`* from a weaker condition than `NoDeletions`: that the
   ConfigMap is not removed while a reconcile is between it and the StatefulSet.
2. *`LifecycleWithoutLoss`* for clusters that share a name one after the other in
   different namespaces, where `shared_name` leaves room for it.

## 6. Not modelled

* *Diagnostics* (`checker.go`): looks a symptom up in a table and prints; it has no
  state, and its text is cited where it says something of the operator.
* *Kubebuilder scaffold types*: an earlier form of the API types, imported by nothing.
* *Example manifests*: static YAML.
* Of the two demonstrations, the printing and the one order they call things in.
