--------------------- MODULE DatabaseClusterController ---------------------
(***************************************************************************)
(* The reconciler of internal/controller/databasecluster_controller.go and *)
(* what it runs in: an API server, the informer caches it reads from, a    *)
(* work queue, users, the StatefulSet controller and the garbage collector.*)
(*                                                                         *)
(* One reconcile is a sequence of steps, one for each call that reads or   *)
(* writes shared state; everything else may happen between two of them.    *)
(* controller-runtime runs one worker (MaxConcurrentReconciles is 1).      *)
(***************************************************************************)
EXTENDS Resources, BucketStore

CONSTANTS
  Clusters,      \* the namespaced names users give their DatabaseClusters
  NameOf,        \* the name part of each, [Clusters -> names]
  StoreDurable,  \* FALSE: the bucket registry lives in this process
  MaxLag,        \* versions of one object not yet dropped by the cache
  Budgets        \* bounds on how often each event of BudgetKinds happens; one holds

BudgetKinds == {"create", "edit", "delete", "foreign", "child", "pod", "fault", "restart"}

ASSUME BudgetsAssumption == Budgets \subseteq [BudgetKinds -> Nat]
ASSUME StoreAssumption == StoreDurable \in BOOLEAN

VARIABLES
  versions,  \* per cluster, the versions from the cached to the stored one
  live,      \* the child objects at the API server
  seen,      \* the child objects in the informer caches
  news,      \* per cluster, the kinds of children with events still to come
  buckets,   \* the backup bucket registry
  queue,     \* keys ready to be reconciled
  timers,    \* keys to be put on the queue after a delay or a backoff
  pc,        \* the worker: next step of the reconcile in progress
  key,       \* ... the cluster it is for
  cluster,   \* ... its local copy of the DatabaseCluster
  obs,       \* ... what it has found out
  budget     \* events of the environment still to come

children == <<live, seen, news>>
worker == <<pc, key, cluster, obs>>
vars == <<versions, children, buckets, queue, timers, worker, budget>>

Kinds == {"configMap", "service", "statefulSet"}

Steps == {"idle", "initialPhase", "configMap", "service", "markUpgrading", "statefulSet",
          "observe", "addFinalizer", "provision", "recordBucket", "updateStatus",
          "deleteBucket", "removeFinalizer"}

NoChildren ==
  [configMap |-> NoConfigMap, service |-> NoService, statefulSet |-> NoStatefulSet]

Api(c) == versions[c][Len(versions[c])]   \* what the API server holds
Cached(c) == Head(versions[c])            \* what r.Get returns

NotObserved == [upgrading |-> FALSE, ready |-> 0, waiting |-> FALSE]

Init ==
  /\ versions = [c \in Clusters |-> <<NoObject(0)>>]
  /\ live = [c \in Clusters |-> NoChildren]
  /\ seen = live
  /\ news = [c \in Clusters |-> {}]
  /\ buckets = NewBucketStore
  /\ queue = {}
  /\ timers = {}
  /\ pc = "idle"
  /\ key \in Clusters
  /\ cluster = NoObject(0)
  /\ obs = NotObserved
  /\ budget \in Budgets

-----------------------------------------------------------------------------
(* Building blocks.                                                        *)

Spend(kind) == budget[kind] > 0 /\ budget' = [budget EXCEPT ![kind] = @ - 1]

\* A write at the API server. One that changes nothing makes no new version.
Write(c, object) ==
  \/ object = Api(c) /\ UNCHANGED versions
  \/ /\ object # Api(c)
     /\ Len(versions[c]) < MaxLag
     /\ versions' = [versions EXCEPT ![c] = Append(@, object)]

\* A write of a child. The watch reports it even if the next one undoes it.
Store(c, kind, object) ==
  /\ live' = [live EXCEPT ![c][kind] = object]
  /\ news' = [news EXCEPT ![c] = @ \cup {kind}]

\* An object marked for deletion goes with its last finalizer.
Settled(object) ==
  IF object.deleting /\ object.finalizers = {} THEN NoObject(object.uid) ELSE object

\* The reconcile goes on with step next and the local copy object.
Goto(next, object) == pc' = next /\ cluster' = object /\ UNCHANGED <<timers, obs>>

\* The reconcile returns: an error or RequeueAfter puts the key on a timer.
Return(again) ==
  /\ pc' = "idle"
  /\ cluster' = NoObject(0)
  /\ obs' = NotObserved
  /\ timers' = IF again THEN timers \cup {key} ELSE timers

\* Mutant: every reconcile asks for another one, to poll.
ContinuePolling(next, object) == IF next = "idle" THEN Return(TRUE) ELSE Goto(next, object)

\* Mutant: a finished reconcile is a success, whether or not pods are missing.
ContinueSatisfied(next, object) == IF next = "idle" THEN Return(FALSE) ELSE Goto(next, object)

\* The last write of a reconcile ends it.
Continue(next, object) == IF next = "idle" THEN Return(obs.waiting) ELSE Goto(next, object)

\* The API server refuses a call: NotFound, AlreadyExists, Conflict, Forbidden.
Refused == Return(TRUE) /\ UNCHANGED budget

\* A request or its answer is lost: the reconciler sees an error either way.
Lost == Spend("fault") /\ Return(TRUE)

\* A call the API server has applied.
Answered(next, object) == (Continue(next, object) /\ UNCHANGED budget) \/ Lost

\* r.Patch and r.Status().Patch: by name, whatever object has it by now.
\* sent: the local copy as modified.
Patch(allowed, patched, sent, next) ==
  /\ \/ /\ Api(key).exists /\ allowed
        /\ Write(key, patched)
        /\ Answered(next, Decode(patched, sent))
     \/ /\ ~ (Api(key).exists /\ allowed)
        /\ Refused
        /\ UNCHANGED versions
     \/ Lost /\ UNCHANGED versions
  /\ UNCHANGED <<children, buckets, queue, key>>

StatusPatch(status, next) ==
  Patch(TRUE, [Api(key) EXCEPT !.status = PatchStatus(@, cluster.status, status)],
        [cluster EXCEPT !.status = status], next)

\* The API server admits no new finalizer on an object marked for deletion.
FinalizerPatch(finalizers, next) ==
  LET api == Api(key)
      patched == PatchField(api.finalizers, cluster.finalizers, finalizers)
  IN Patch(api.deleting => patched \subseteq api.finalizers,
           Settled([api EXCEPT !.finalizers = patched]),
           [cluster EXCEPT !.finalizers = finalizers], next)

\* controllerutil.CreateOrUpdate: read the cache, then create, update with the
\* cached resource version, or do nothing. That version is the stored one where
\* no event is due, and only there. The owner reference is set on the object to
\* create only: reading an existing one overwrites it.
CreateOrUpdate(kind, built, mutated, next) ==
  LET cached == seen[key][kind]
      wanted == IF cached.exists THEN mutated ELSE built
      current == IF cached.exists THEN kind \notin news[key] ELSE ~ live[key][kind].exists
  IN /\ \/ wanted = cached /\ Goto(next, cluster) /\ UNCHANGED <<live, news, budget>>
        \/ /\ wanted # cached /\ current
           /\ Store(key, kind, wanted)
           /\ Answered(next, cluster)
        \/ wanted # cached /\ ~ current /\ Refused /\ UNCHANGED <<live, news>>
        \/ wanted # cached /\ Lost /\ UNCHANGED <<live, news>>
     /\ UNCHANGED <<versions, seen, buckets, queue, key>>

-----------------------------------------------------------------------------
(* Reconcile.                                                              *)

\* Mutant: the finalizer of a deleted object goes without the bucket's cleanup.
FirstStepNoCleanup(object) ==
  CASE ~ object.exists -> "idle"
    [] object.exists /\ object.deleting ->
         IF FinalizerName \in object.finalizers THEN "removeFinalizer" ELSE "idle"
    [] object.exists /\ ~ object.deleting ->
         IF object.status.phase = "" THEN "initialPhase" ELSE "configMap"

\* Mutant: clearing the backup schedule cleans the bucket up.
FirstStepUnscheduled(object) ==
  CASE ~ object.exists -> "idle"
    [] object.exists /\ (object.deleting \/ ~ object.spec.backup) /\ Tracked(object) ->
         "deleteBucket"
    [] object.exists /\ object.deleting /\ ~ Tracked(object) -> "idle"
    [] object.exists /\ ~ object.deleting /\ ~ (~ object.spec.backup /\ Tracked(object)) ->
         IF object.status.phase = "" THEN "initialPhase" ELSE "configMap"

\* Mutant: what the status says was observed is not reconciled again.
FirstStepObserved(object) ==
  CASE ~ object.exists -> "idle"
    [] object.exists /\ object.deleting ->
         IF FinalizerName \in object.finalizers THEN "deleteBucket" ELSE "idle"
    [] object.exists /\ ~ object.deleting ->
         CASE object.status.phase = "" -> "initialPhase"
           [] object.status.phase = "Running"
              /\ object.status.observedGeneration = object.generation -> "idle"
           [] OTHER -> "configMap"

\* Mutant: no ConfigMap for a resource without settings of its own.
FirstStepNoSettings(object) ==
  CASE ~ object.exists -> "idle"
    [] object.exists /\ object.deleting ->
         IF FinalizerName \in object.finalizers THEN "deleteBucket" ELSE "idle"
    [] object.exists /\ ~ object.deleting ->
         IF object.status.phase = "" THEN "initialPhase"
         ELSE IF object.spec.config = <<>> THEN "service" ELSE "configMap"

\* Steps 1 to 3: where a reconcile of the fetched object starts.
FirstStep(object) ==
  CASE ~ object.exists -> "idle"
    [] object.exists /\ object.deleting ->
         IF FinalizerName \in object.finalizers THEN "deleteBucket" ELSE "idle"
    [] object.exists /\ ~ object.deleting ->
         IF object.status.phase = "" THEN "initialPhase" ELSE "configMap"

\* Step 6 of the code: a version change, looked for in the fetched object.
Upgrading(object) ==
  object.status.currentVersion # NoVersion /\ object.status.currentVersion # object.spec.version

\* upgrading is a local variable of Reconcile. Nothing changes the local copy
\* between the fetch and the check, so the value is taken here.
Reconcile(c) ==
  LET fetched == Cached(c)
      first == FirstStep(fetched)
  IN /\ pc = "idle"
     /\ c \in queue
     /\ queue' = queue \ {c}
     /\ key' = c
     /\ pc' = first
     /\ cluster' = IF first = "idle" THEN NoObject(0) ELSE fetched
     /\ obs' = [NotObserved EXCEPT !.upgrading = first = "configMap" /\ Upgrading(fetched)]
     /\ UNCHANGED <<versions, children, buckets, timers, budget>>

InitialPhase ==
  /\ pc = "initialPhase"
  /\ StatusPatch([cluster.status EXCEPT !.phase = "Provisioning",
                                        !.observedGeneration = cluster.generation], "idle")

\* Mutant: the mutate function forgets the data.
ReconcileConfigMapOnce ==
  /\ pc = "configMap"
  /\ \E data \in buildConfigMap(cluster.spec) :
       CreateOrUpdate("configMap", ConfigMap(cluster.uid, data), seen[key].configMap, "service")

ReconcileConfigMap ==
  /\ pc = "configMap"
  /\ \E data \in buildConfigMap(cluster.spec) :
       CreateOrUpdate("configMap", ConfigMap(cluster.uid, data),
                      [seen[key].configMap EXCEPT !.data = data], "service")

ReconcileService ==
  /\ pc = "service"
  /\ CreateOrUpdate("service", buildHeadlessService(cluster.uid), seen[key].service,
                    IF obs.upgrading THEN "markUpgrading" ELSE "statefulSet")

MarkUpgrading ==
  /\ pc = "markUpgrading"
  /\ StatusPatch([cluster.status EXCEPT
                    !.phase = "Upgrading",
                    !.conditions = setCondition(@, "Upgrading", "True", cluster.generation, 0)],
                 "statefulSet")

ReconcileStatefulSet ==
  /\ pc = "statefulSet"
  /\ CreateOrUpdate("statefulSet", buildStatefulSet(cluster.uid, cluster.spec),
                    Mutated(seen[key].statefulSet, cluster.spec), "observe")

\* Mutant: the bucket is created before the finalizer.
BackupStepEager(object) ==
  IF object.spec.backup /\ ~ object.status.backupBucketProvisioned
  THEN "provision" ELSE "updateStatus"

\* Mutant: the finalizer is taken for a sign that the bucket is there.
BackupStepTrusting(object) ==
  IF object.spec.backup /\ ~ object.status.backupBucketProvisioned
  THEN IF FinalizerName \in object.finalizers THEN "recordBucket" ELSE "addFinalizer"
  ELSE "updateStatus"

\* Where the backup step starts: it is skipped without a schedule, and once
\* the status has the bucket.
BackupStep(object) ==
  IF object.spec.backup /\ ~ object.status.backupBucketProvisioned
  THEN IF FinalizerName \in object.finalizers THEN "provision" ELSE "addFinalizer"
  ELSE "updateStatus"

\* The StatefulSet is read back from the cache, which may not have it yet.
Observe ==
  LET sts == seen[key].statefulSet
      ready == ReadyReplicas(sts)
  IN /\ pc = "observe"
     /\ \/ /\ sts.exists
           /\ pc' = BackupStep(cluster)
           /\ obs' = [obs EXCEPT !.ready = ready, !.waiting = ready < cluster.spec.replicas]
           /\ UNCHANGED <<cluster, timers, budget>>
        \/ ~ sts.exists /\ Refused
     /\ UNCHANGED <<versions, children, buckets, queue, key>>

\* provisionBackupBucket: the finalizer first, so that a crash leaves a trace.
AddFinalizer ==
  /\ pc = "addFinalizer"
  /\ FinalizerPatch(cluster.finalizers \cup {FinalizerName}, "provision")

ProvisionBucket ==
  /\ pc = "provision"
  /\ buckets' = IF Exists(buckets, NameOf[key]) THEN buckets ELSE Provision(buckets, NameOf[key])
  /\ Goto("recordBucket", cluster)
  /\ UNCHANGED <<versions, children, queue, key, budget>>

RecordBucket ==
  /\ pc = "recordBucket"
  /\ StatusPatch([cluster.status EXCEPT
                    !.backupBucketProvisioned = TRUE,
                    !.conditions = setCondition(@, "BackupHealthy", "True", cluster.generation, 0)],
                 "updateStatus")

\* Mutant: a phase that PhaseFor never yields.
PhaseForFailed(upgrading, ready, desired) ==
  IF ready = 0 THEN "Failed" ELSE IF ready < desired THEN "Degraded" ELSE "Running"

PhaseFor(upgrading, ready, desired) ==
  IF upgrading /\ ready < desired THEN "Upgrading"
  ELSE IF ready = 0 THEN "Provisioning"
  ELSE IF ready < desired THEN "Degraded"
  ELSE "Running"

ConditionsFor(object, upgrading, ready, desired) ==
  LET g == object.generation
      Set(conditions, type, status, quoted) == setCondition(conditions, type, status, g, quoted)
      old == object.status.conditions
      healthy == Set(Set(old, "Ready", "True", desired), "Degraded", "False", 0)
  IN IF ready >= desired
     THEN IF upgrading THEN Set(healthy, "Upgrading", "False", 0) ELSE healthy
     ELSE Set(Set(old, "Ready", "False", ready), "Degraded", "True", ready)

\* desired is read again here: a patch on the way may have brought a new spec.
UpdateStatus ==
  LET desired == cluster.spec.replicas
  IN /\ pc = "updateStatus"
     /\ StatusPatch([cluster.status EXCEPT
                       !.readyReplicas = obs.ready,
                       !.currentVersion = cluster.spec.version,
                       !.observedGeneration = cluster.generation,
                       !.phase = PhaseFor(obs.upgrading, obs.ready, desired),
                       !.conditions =
                         ConditionsFor(cluster, obs.upgrading, obs.ready, desired)],
                    "idle")

-----------------------------------------------------------------------------
(* reconcileDeletion.                                                      *)

DeleteBucket ==
  /\ pc = "deleteBucket"
  /\ IF CanDelete(buckets, NameOf[key])
     THEN /\ buckets' = Delete(buckets, NameOf[key])
          /\ Goto("removeFinalizer", cluster)
     ELSE Return(TRUE) /\ UNCHANGED buckets
  /\ UNCHANGED <<versions, children, queue, key, budget>>

RemoveFinalizer ==
  /\ pc = "removeFinalizer"
  /\ FinalizerPatch(cluster.finalizers \ {FinalizerName}, "idle")

Step ==
  \/ InitialPhase \/ ReconcileConfigMap \/ ReconcileService \/ MarkUpgrading
  \/ ReconcileStatefulSet \/ Observe
  \/ AddFinalizer \/ ProvisionBucket \/ RecordBucket \/ UpdateStatus
  \/ DeleteBucket \/ RemoveFinalizer

-----------------------------------------------------------------------------
(* controller-runtime: caches, event handlers, timers, the process.        *)

\* Mutant: events that leave the generation alone are filtered out.
SyncGeneration(c) ==
  /\ Len(versions[c]) > 1
  /\ versions' = [versions EXCEPT ![c] = Tail(@)]
  /\ queue' = IF versions[c][2].generation # Cached(c).generation THEN queue \cup {c} ELSE queue
  /\ UNCHANGED <<children, buckets, timers, worker, budget>>

\* The next version reaches the cache, and For() enqueues its key.
Sync(c) ==
  /\ Len(versions[c]) > 1
  /\ versions' = [versions EXCEPT ![c] = Tail(@)]
  /\ queue' = queue \cup {c}
  /\ UNCHANGED <<children, buckets, timers, worker, budget>>

\* Mutant: the StatefulSet is not among the owned kinds.
SyncChildUnowned(c, kind) ==
  /\ kind \in news[c]
  /\ news' = [news EXCEPT ![c] = @ \ {kind}]
  /\ seen' = [seen EXCEPT ![c][kind] = live[c][kind]]
  /\ queue' = IF kind = "statefulSet" THEN queue ELSE queue \cup {c}
  /\ UNCHANGED <<versions, live, buckets, timers, worker, budget>>

\* A child's state reaches the cache, and Owns() enqueues its owner's name.
SyncChild(c, kind) ==
  /\ kind \in news[c]
  /\ news' = [news EXCEPT ![c] = @ \ {kind}]
  /\ seen' = [seen EXCEPT ![c][kind] = live[c][kind]]
  /\ queue' = queue \cup {c}
  /\ UNCHANGED <<versions, live, buckets, timers, worker, budget>>

TimerFires(c) ==
  /\ c \in timers
  /\ timers' = timers \ {c}
  /\ queue' = queue \cup {c}
  /\ UNCHANGED <<versions, children, buckets, worker, budget>>

\* The process dies at any point and comes back: the informers list what is
\* there and enqueue it all. What only the process held is gone.
Restart ==
  /\ Spend("restart")
  /\ versions' = [c \in Clusters |-> <<Api(c)>>]
  /\ seen' = live
  /\ news' = [c \in Clusters |-> {}]
  /\ queue' = {c \in Clusters : Api(c).exists \/ \E kind \in Kinds : live[c][kind].exists}
  /\ timers' = {}
  /\ pc' = "idle"
  /\ cluster' = NoObject(0)
  /\ obs' = NotObserved
  /\ buckets' = IF StoreDurable THEN buckets ELSE NewBucketStore
  /\ UNCHANGED <<live, key>>
=============================================================================
