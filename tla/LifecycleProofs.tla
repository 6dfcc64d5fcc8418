--------------------------- MODULE LifecycleProofs ---------------------------
(***************************************************************************)
(* If no two clusters share a name and the registry survives the process,  *)
(* the reconciler implements BackupLifecycle, and a status that promises a *)
(* bucket keeps its promise.                                               *)
(***************************************************************************)
EXTENDS BackupProofs

\* Buckets are named after the cluster's name, without its namespace.
OwnBuckets == \A c, d \in Clusters : NameOf[c] = NameOf[d] => c = d

LEMMA BucketsDiffer ==
  ASSUME OwnBuckets, NEW c \in Clusters, NEW d \in Clusters, Bucket(c) = Bucket(d)
  PROVE  c = d
BY DEF OwnBuckets, Bucket, bucketNameFor

-----------------------------------------------------------------------------
(* What the writes of a reconcile do to the object at the API server.      *)

LEMMA StatusPatchWrites ==
  ASSUME TypeOK, NEW status \in DatabaseClusterStatus, NEW next, StatusPatch(status, next)
  PROVE  /\ UNCHANGED <<buckets, key>>
         /\ \/ UNCHANGED versions
            \/ \E o \in DatabaseCluster :
                 /\ Write(key, o) /\ Harmless(Api(key), o)
                 /\ status.backupBucketProvisioned = cluster.status.backupBucketProvisioned
                      => (Promised(o) => Promised(Api(key)))
<1> DEFINE api == Api(key)
           new == PatchStatus(api.status, cluster.status, status)
           patched == [api EXCEPT !.status = PatchStatus(@, cluster.status, status)]
           sent == [cluster EXCEPT !.status = status]
<1>1. VersionsType /\ key \in Clusters /\ api \in DatabaseCluster /\ cluster \in DatabaseCluster
  BY ApiType DEF TypeOK, VersionsType
<1>2. new \in DatabaseClusterStatus
  BY <1>1, PatchStatusType DEF DatabaseCluster
<1>3. status.backupBucketProvisioned = cluster.status.backupBucketProvisioned
        => new.backupBucketProvisioned = api.status.backupBucketProvisioned
  BY DEF PatchStatus, PatchField
<1>4. /\ patched \in DatabaseCluster /\ patched.status = new
      /\ patched.exists = api.exists /\ patched.deleting = api.deleting
      /\ patched.finalizers = api.finalizers
  <2> HIDE DEF new
  <2> QED
    BY <1>1, <1>2 DEF DatabaseCluster, new
<1>5. Harmless(api, patched)
  BY <1>4 DEF Harmless, Tracked, Doomed
<1>6. Patch(TRUE, patched, sent, next)
  BY DEF StatusPatch
<1> QED
  BY <1>3, <1>4, <1>5, <1>6, PatchOutcome DEF Promised

LEMMA AddFinalizerWrites ==
  ASSUME TypeOK, TrackingInvariant, AddFinalizer
  PROVE  /\ UNCHANGED <<buckets, key>>
         /\ \/ UNCHANGED versions
            \/ \E o \in DatabaseCluster :
                 /\ Write(key, o)
                 /\ \/ Harmless(Api(key), o)
                    \/ ~ Tracked(Api(key)) /\ LiveTracked(o)
                 /\ Promised(o) => Promised(Api(key))
<1> DEFINE api == Api(key)
           finalizers == cluster.finalizers \cup {FinalizerName}
           patched == PatchField(api.finalizers, cluster.finalizers, finalizers)
           o == Settled([api EXCEPT !.finalizers = patched])
           sent == [cluster EXCEPT !.finalizers = finalizers]
<1>1. /\ VersionsType /\ key \in Clusters /\ api \in DatabaseCluster
      /\ cluster \in DatabaseCluster /\ Provisioning
  BY ApiType DEF TypeOK, VersionsType, AddFinalizer, Provisioning, Steps
<1>2. Patch(api.deleting => patched \subseteq api.finalizers, o, sent, "provision")
  BY DEF AddFinalizer, FinalizerPatch
<1>3. UNCHANGED <<buckets, key>>
  BY <1>2, PatchOutcome
<1>4. CASE /\ api.exists /\ (api.deleting => patched \subseteq api.finalizers)
           /\ Write(key, o)
  <2>1. FinalizerName \in patched
    BY <1>1, <1>4 DEF PatchField, TrackingInvariant, WorkerOK, Tracked
  <2>2. o = [api EXCEPT !.finalizers = patched]
    BY <1>1, <2>1 DEF Settled, DatabaseCluster
  <2>3. patched \in SUBSET Finalizers
    BY <1>1 DEF PatchField, DatabaseCluster, Finalizers
  <2>4. /\ o \in DatabaseCluster /\ Tracked(o)
        /\ o.exists = api.exists /\ o.deleting = api.deleting /\ o.status = api.status
    BY <1>1, <1>4, <2>1, <2>2, <2>3 DEF DatabaseCluster, Tracked
  <2>5. Tracked(api) \/ ~ api.deleting
    BY <1>4, <2>1 DEF Tracked
  <2> HIDE DEF o, patched
  <2>6. Harmless(api, o) \/ (~ Tracked(api) /\ LiveTracked(o))
    BY <2>4, <2>5 DEF Harmless, Doomed, LiveTracked
  <2> QED
    BY <1>3, <1>4, <2>4, <2>6 DEF Promised
<1> QED
  BY <1>2, <1>3, <1>4, PatchOutcome

LEMMA RemoveFinalizerWrites ==
  ASSUME TypeOK, TrackingInvariant, RemoveFinalizer
  PROVE  /\ UNCHANGED <<buckets, key>>
         /\ Bucket(key) \notin buckets /\ NoneLiveTracked(versions[key])
         /\ \/ UNCHANGED versions
            \/ \E o \in DatabaseCluster :
                 /\ Write(key, o) /\ ~ Tracked(o)
                 /\ Promised(o) => Promised(Api(key))
<1> DEFINE api == Api(key)
           finalizers == cluster.finalizers \ {FinalizerName}
           patched == PatchField(api.finalizers, cluster.finalizers, finalizers)
           full == [api EXCEPT !.finalizers = patched]
           o == Settled(full)
           sent == [cluster EXCEPT !.finalizers = finalizers]
<1>1. /\ VersionsType /\ key \in Clusters /\ api \in DatabaseCluster
      /\ cluster \in DatabaseCluster
  BY ApiType DEF TypeOK, VersionsType
<1>2. Patch(api.deleting => patched \subseteq api.finalizers, o, sent, "idle")
  BY DEF RemoveFinalizer, FinalizerPatch
<1>3. UNCHANGED <<buckets, key>>
  BY <1>2, PatchOutcome
<1>4. Bucket(key) \notin buckets /\ NoneLiveTracked(versions[key])
  BY DEF RemoveFinalizer, TrackingInvariant, WorkerOK, Cleaning, CleanupOK
<1>5. CASE Write(key, o)
  <2>1. patched \in SUBSET Finalizers
    BY <1>1 DEF PatchField, DatabaseCluster
  <2>2. full \in DatabaseCluster
    BY <1>1, <2>1 DEF DatabaseCluster
  <2>3. o \in DatabaseCluster
    <3> HIDE DEF full
    <3> QED
      BY <2>2, SettledType
  <2>4. Promised(o) => Promised(api)
    BY <1>1 DEF Promised, Settled, NoObject, DatabaseCluster
  <2>5. CASE Tracked(o)
    <3>1. patched = api.finalizers
      BY <1>1, <2>5 DEF PatchField, Settled, Tracked, NoObject, DatabaseCluster
    <3>2. o = api
      BY <1>1, <2>5, <3>1 DEF Settled, Tracked, NoObject, DatabaseCluster
    <3> QED
      BY <1>3, <1>4, <1>5, <3>2 DEF Write
  <2>6. CASE ~ Tracked(o)
    BY <1>3, <1>4, <1>5, <2>3, <2>4, <2>6
  <2> QED
    BY <2>5, <2>6
<1> QED
  BY <1>2, <1>3, <1>4, <1>5, PatchOutcome

-----------------------------------------------------------------------------
(* Each step is one of BackupLifecycle's, or none.                         *)

LifecycleStep == [Lifecycle!Next]_(Lifecycle!vars)

LEMMA SameObjects ==
  ASSUME \A c \in Clusters : Api(c)' = Api(c), UNCHANGED buckets
  PROVE  LifecycleStep
<1>1. stages' = stages
  BY DEF stages, Stage
<1> QED
  BY <1>1 DEF LifecycleStep, Lifecycle!vars

LEMMA WriteStages ==
  ASSUME VersionsType, NEW c \in Clusters, NEW o \in DatabaseCluster, Write(c, o)
  PROVE  /\ stages' = [stages EXCEPT ![c] = Stage(o)]
         /\ stages[c] = Stage(Api(c))
<1>1. stages[c] = Stage(Api(c))
  BY DEF stages
<1>2. Api(c)' = o /\ \A d \in Clusters \ {c} : Api(d)' = Api(d)
  <2>1. CASE o = Api(c) /\ UNCHANGED versions
    BY <2>1 DEF Api
  <2>2. CASE o # Api(c)
    BY <2>2, WriteAppends
  <2> QED
    BY <2>1, <2>2 DEF Write
<1>3. \A d \in Clusters : Stage(Api(d))' = IF d = c THEN Stage(o) ELSE Stage(Api(d))
  BY <1>2 DEF Stage
<1> QED
  BY <1>1, <1>3 DEF stages

LEMMA HarmlessStep ==
  ASSUME VersionsType, NEW c \in Clusters, NEW o \in DatabaseCluster, Write(c, o),
         Harmless(Api(c), o), UNCHANGED buckets
  PROVE  LifecycleStep
<1>1. stages' = [stages EXCEPT ![c] = Stage(o)] /\ stages[c] = Stage(Api(c))
  BY WriteStages
<1>2. CASE Stage(o) = Stage(Api(c))
  <2>1. stages' = stages
    BY <1>1, <1>2 DEF stages
  <2> QED
    BY <2>1 DEF LifecycleStep, Lifecycle!vars
<1>3. CASE Stage(o) # Stage(Api(c))
  <2>1. Stage(Api(c)) = "tracked" /\ Stage(o) = "doomed"
    BY <1>3 DEF Stage, Harmless, Doomed
  <2>2. Lifecycle!Doom(c)
    BY <1>1, <2>1 DEF Lifecycle!Doom, Lifecycle!Move
  <2> QED
    BY <2>2 DEF LifecycleStep, Lifecycle!Next
<1> QED
  BY <1>2, <1>3

LEMMA AddFinalizerStep ==
  ASSUME TypeOK, TrackingInvariant, AddFinalizer
  PROVE  LifecycleStep
<1>1. VersionsType /\ key \in Clusters
  BY DEF TypeOK, VersionsType
<1>2. CASE UNCHANGED versions
  BY <1>2, AddFinalizerWrites, SameObjects DEF Api
<1>3. ASSUME NEW o \in DatabaseCluster, Write(key, o), Harmless(Api(key), o)
      PROVE  LifecycleStep
  BY <1>1, <1>3, AddFinalizerWrites, HarmlessStep
<1>4. ASSUME NEW o \in DatabaseCluster, Write(key, o), ~ Tracked(Api(key)), LiveTracked(o)
      PROVE  LifecycleStep
  <2>1. stages' = [stages EXCEPT ![key] = Stage(o)] /\ stages[key] = Stage(Api(key))
    BY <1>1, <1>4, WriteStages
  <2>2. Stage(o) = "tracked" /\ Stage(Api(key)) = "untracked"
    BY <1>4 DEF Stage, LiveTracked
  <2>3. Lifecycle!Track(key)
    BY <2>1, <2>2, AddFinalizerWrites DEF Lifecycle!Track, Lifecycle!Move
  <2> QED
    BY <1>1, <2>3 DEF LifecycleStep, Lifecycle!Next
<1> QED
  BY <1>2, <1>3, <1>4, AddFinalizerWrites

LEMMA RemoveFinalizerStep ==
  ASSUME TypeOK, TrackingInvariant, RemoveFinalizer
  PROVE  LifecycleStep
<1>1. VersionsType /\ key \in Clusters
  BY DEF TypeOK, VersionsType
<1>2. UNCHANGED <<buckets, key>> /\ Bucket(key) \notin buckets /\ ~ LiveTracked(Api(key))
  <2>1. Len(versions[key]) \in 1..Len(versions[key])
    BY <1>1 DEF VersionsType
  <2> QED
    BY <2>1, RemoveFinalizerWrites DEF NoneLiveTracked, Api
<1>3. CASE UNCHANGED versions
  BY <1>2, <1>3, SameObjects DEF Api
<1>4. ASSUME NEW o \in DatabaseCluster, Write(key, o), ~ Tracked(o)
      PROVE  LifecycleStep
  <2>1. stages' = [stages EXCEPT ![key] = "untracked"] /\ stages[key] = Stage(Api(key))
    BY <1>1, <1>4, WriteStages DEF Stage
  <2>2. CASE Tracked(Api(key))
    <3>1. stages[key] = "doomed"
      BY <1>2, <2>1, <2>2 DEF Stage, LiveTracked
    <3>2. Lifecycle!Release(key)
      BY <1>2, <2>1, <3>1 DEF Lifecycle!Release, Lifecycle!Move
    <3> QED
      BY <1>1, <3>2 DEF LifecycleStep, Lifecycle!Next
  <2>3. CASE ~ Tracked(Api(key))
    <3>1. stages' = stages
      BY <2>1, <2>3 DEF Stage, stages
    <3> QED
      BY <1>2, <3>1 DEF LifecycleStep, Lifecycle!vars
  <2> QED
    BY <2>2, <2>3
<1> QED
  BY <1>3, <1>4, RemoveFinalizerWrites

LEMMA ProvisionBucketStep ==
  ASSUME TypeOK, TrackingInvariant, ProvisionBucket
  PROVE  LifecycleStep
<1>1. /\ UNCHANGED versions /\ key \in Clusters
      /\ buckets' = buckets \cup {Bucket(key)}
  BY DEF ProvisionBucket, TypeOK, Exists, Provision, Bucket
<1>2. stages' = stages
  BY <1>1 DEF stages, Stage, Api
<1>3. Tracked(Api(key))
  BY DEF ProvisionBucket, TrackingInvariant, WorkerOK, Provisioning, Steps
<1>4. stages[key] # "untracked"
  BY <1>1, <1>3 DEF stages, Stage
<1>5. Lifecycle!Provision(key)
  BY <1>1, <1>2, <1>4 DEF Lifecycle!Provision
<1> QED
  BY <1>1, <1>5 DEF LifecycleStep, Lifecycle!Next

\* The cluster whose bucket is there is tracked, and nobody but the one being
\* cleaned up has a bucket of that name.
LEMMA DeleteBucketStep ==
  ASSUME OwnBuckets, TypeOK, TrackingInvariant, DeleteBucket
  PROVE  LifecycleStep
<1>1. /\ UNCHANGED versions /\ key \in Clusters
      /\ buckets' = buckets \ {Bucket(key)}
  BY DEF DeleteBucket, TypeOK, Delete, CanDelete, Bucket
<1>2. stages' = stages
  BY <1>1 DEF stages, Stage, Api
<1>3. CASE Bucket(key) \notin buckets
  BY <1>1, <1>2, <1>3 DEF LifecycleStep, Lifecycle!vars
<1>4. CASE Bucket(key) \in buckets
  <2>1. Tracked(Api(key))
    BY <1>1, <1>4, BucketsDiffer DEF TrackingInvariant, NoOrphanBucket
  <2>2. ~ LiveTracked(Api(key))
    <3>1. Len(versions[key]) \in 1..Len(versions[key])
      BY <1>1 DEF TypeOK
    <3> QED
      BY <3>1 DEF DeleteBucket, TrackingInvariant, WorkerOK, Cleaning, CleanupOK, NoneLiveTracked,
                  Api
  <2>3. stages[key] = "doomed"
    BY <1>1, <2>1, <2>2 DEF stages, Stage, LiveTracked
  <2>4. Lifecycle!CleanUp(key)
    BY <1>1, <1>2, <2>3 DEF Lifecycle!CleanUp
  <2> QED
    BY <1>1, <2>4 DEF LifecycleStep, Lifecycle!Next
<1> QED
  BY <1>3, <1>4

\* The other steps of a reconcile write the status, or no DatabaseCluster.
LEMMA OtherStepStep ==
  ASSUME TypeOK, Step, ~ AddFinalizer, ~ RemoveFinalizer, ~ ProvisionBucket, ~ DeleteBucket
  PROVE  LifecycleStep
<1>1. ASSUME NEW status, NEW next, StatusPatch(status, next), status \in DatabaseClusterStatus
      PROVE  LifecycleStep
  <2>1. VersionsType /\ key \in Clusters /\ UNCHANGED buckets
    BY <1>1, StatusPatchWrites DEF TypeOK, VersionsType
  <2>2. CASE UNCHANGED versions
    BY <2>1, <2>2, SameObjects DEF Api
  <2>3. CASE \E o \in DatabaseCluster : Write(key, o) /\ Harmless(Api(key), o)
    BY <2>1, <2>3, HarmlessStep
  <2> QED
    BY <1>1, <2>2, <2>3, StatusPatchWrites
<1>2. CASE ReconcileConfigMap \/ ReconcileService \/ ReconcileStatefulSet \/ Observe
  <2>1. UNCHANGED <<versions, buckets>>
    BY <1>2, CreateOrUpdateMoves
       DEF ReconcileConfigMap, ReconcileService, ReconcileStatefulSet, Observe
  <2> QED
    BY <2>1, SameObjects DEF Api
<1> QED
  BY <1>1, <1>2, StatusSteps DEF Step

\* No restart finds buckets in a registry that goes with the process.
\* (bucket.go:51)
RestartLosesNothing == Restart => UNCHANGED buckets

LEMMA DurableLosesNothing == StoreDurable = TRUE => [RestartLosesNothing]_vars
BY DEF RestartLosesNothing, Restart

LEMMA LifecycleNext ==
  ASSUME OwnBuckets
  PROVE  TypeOK /\ TrackingInvariant /\ [Next]_vars /\ [RestartLosesNothing]_vars => LifecycleStep
<1> SUFFICES ASSUME TypeOK, TrackingInvariant, [Next]_vars, [RestartLosesNothing]_vars
             PROVE  LifecycleStep
  OBVIOUS
<1>1. CASE UNCHANGED <<versions, buckets>>
  BY <1>1, SameObjects DEF Api
<1>2. CASE UNCHANGED vars
  BY <1>1, <1>2 DEF vars
<1>3. CASE Step
  BY <1>3, AddFinalizerStep, RemoveFinalizerStep, ProvisionBucketStep, DeleteBucketStep,
     OtherStepStep
<1>4. CASE Restart
  <2>1. \A c \in Clusters : Api(c)' = Api(c)
    BY <1>4 DEF Restart, Api
  <2>2. UNCHANGED buckets
    BY <1>4 DEF RestartLosesNothing, vars
  <2> QED
    BY <2>1, <2>2, SameObjects
<1>5. ASSUME NEW c \in Clusters, Sync(c)
      PROVE  LifecycleStep
  <2>1. versions \in [Clusters -> Seq(DatabaseCluster)] /\ Len(versions[c]) > 1
    BY <1>5 DEF TypeOK, Sync
  <2>2. versions'[c] = Tail(versions[c]) /\ \A d \in Clusters \ {c} : versions'[d] = versions[d]
    BY <1>5, <2>1 DEF Sync
  <2>3. Api(c)' = Api(c)
    BY <2>1, <2>2, TailKeeps DEF Api, Latest
  <2>4. \A d \in Clusters : Api(d)' = Api(d)
    BY <2>2, <2>3 DEF Api
  <2> QED
    BY <1>5, <2>4, SameObjects DEF Sync
<1>6. ASSUME NEW c \in Clusters,
             \/ UserCreates(c) \/ UserEdits(c) \/ UserDeletes(c)
             \/ ForeignFinalizerAdded(c) \/ ForeignFinalizerRemoved(c)
      PROVE  LifecycleStep
  <2>1. PICK o \in DatabaseCluster : Write(c, o) /\ Harmless(Api(c), o)
    BY <1>6, UserWrites
  <2>2. UNCHANGED buckets /\ VersionsType
    BY <1>6, UserWrites DEF TypeOK, VersionsType
  <2> QED
    BY <2>1, <2>2, HarmlessStep
<1>7. ASSUME NEW c \in Clusters, NEW kind \in Kinds,
             \/ Reconcile(c) \/ TimerFires(c) \/ SyncChild(c, kind)
             \/ ChildDeleted(c, kind) \/ CollectGarbage(c, kind)
             \/ PodBecomesReady(c) \/ PodStopped(c) \/ PodFails(c)
      PROVE  LifecycleStep
  <2>1. UNCHANGED <<versions, buckets>>
    BY <1>7 DEF Reconcile, TimerFires, SyncChild, ChildDeleted, CollectGarbage, PodBecomesReady,
                PodStopped, PodFails, SetPods, unaffected
  <2> QED
    BY <1>1, <2>1
<1> QED
  BY <1>2, <1>3, <1>4, <1>5, <1>6, <1>7 DEF Next, Kinds

\* Finalizer and bucket take the steps of BackupLifecycle only, whatever
\* crashes, is lost, refused or read too late, if no two clusters share a name
\* and no restart loses a bucket. Both conditions are needed: the run
\* shared_name shows one cluster's cleanup taking another's bucket.
\* (types.go:126-131)
THEOREM LifecycleWithoutLoss ==
  ASSUME OwnBuckets
  PROVE  Spec /\ [][RestartLosesNothing]_vars => FollowsLifecycle
<1>1. Init => TypeOK /\ TrackingInvariant /\ Lifecycle!Init
  <2> SUFFICES ASSUME Init PROVE Lifecycle!Init /\ TypeOK /\ TrackingInvariant
    OBVIOUS
  <2>1. \A c \in Clusters : Api(c) = NoObject(0)
    BY DEF Init, Api
  <2>2. \A c \in Clusters : Stage(Api(c)) = "untracked"
    BY <2>1 DEF Stage, Tracked, NoObject
  <2> QED
    BY <2>2, InitType, InitKeeps DEF Lifecycle!Init, stages, Init, NewBucketStore
<1>2. TypeOK /\ TrackingInvariant /\ [Next]_vars /\ [RestartLosesNothing]_vars
        => TypeOK' /\ TrackingInvariant' /\ LifecycleStep
  BY NextType, NextKeeps, LifecycleNext
<1> QED
  BY <1>1, <1>2, PTL DEF Spec, LifecycleStep, FollowsLifecycle, Lifecycle!Spec

\* The same for buckets that outlive the process, as those of a service do.
\* (bucket.go:35)
THEOREM ImplementsLifecycle ==
  ASSUME OwnBuckets, StoreDurable = TRUE
  PROVE  Spec => FollowsLifecycle
BY DurableLosesNothing, LifecycleWithoutLoss, PTL

-----------------------------------------------------------------------------
(* A promised bucket is there.                                             *)

LEMMA PromiseWrite ==
  ASSUME VersionsType, PromiseInvariant, UNCHANGED buckets,
         pc' # "recordBucket" \/ UNCHANGED worker,
         NEW c \in Clusters, NEW o \in DatabaseCluster, Write(c, o),
         Promised(o) => Tracked(o) /\ Bucket(c) \in buckets
  PROVE  PromiseInvariant'
<1>1. Api(c)' = o /\ \A d \in Clusters \ {c} : Api(d)' = Api(d)
  <2>1. CASE o = Api(c) /\ UNCHANGED versions
    BY <2>1 DEF Api
  <2>2. CASE o # Api(c)
    BY <2>2, WriteAppends
  <2> QED
    BY <2>1, <2>2 DEF Write
<1> QED
  BY <1>1 DEF PromiseInvariant, Bucket, worker

LEMMA PromiseSame ==
  ASSUME PromiseInvariant, \A c \in Clusters : Api(c)' = Api(c), UNCHANGED buckets,
         pc' # "recordBucket" \/ UNCHANGED worker
  PROVE  PromiseInvariant'
BY DEF PromiseInvariant, Bucket, worker

LEMMA PromiseStatus ==
  ASSUME TypeOK, TrackingInvariant, PromiseInvariant,
         InitialPhase \/ MarkUpgrading \/ RecordBucket \/ UpdateStatus
  PROVE  PromiseInvariant'
<1>1. PICK status \in DatabaseClusterStatus, next \in {"idle", "statefulSet", "updateStatus"} :
        /\ StatusPatch(status, next)
        /\ RecordBucket \/ status.backupBucketProvisioned = cluster.status.backupBucketProvisioned
  BY StatusSteps
<1>2. VersionsType /\ key \in Clusters /\ UNCHANGED buckets /\ pc' # "recordBucket"
  BY <1>1, PatchOutcome DEF StatusPatch, TypeOK, VersionsType
<1>3. CASE UNCHANGED versions
  BY <1>2, <1>3, PromiseSame DEF Api
<1>4. ASSUME NEW o \in DatabaseCluster, Write(key, o), Harmless(Api(key), o),
             status.backupBucketProvisioned = cluster.status.backupBucketProvisioned
               => (Promised(o) => Promised(Api(key)))
      PROVE  PromiseInvariant'
  <2>1. CASE RecordBucket
    <3>1. Tracked(Api(key)) /\ Bucket(key) \in buckets
      BY <2>1 DEF RecordBucket, TrackingInvariant, WorkerOK, Provisioning, Steps, PromiseInvariant
    <3>2. Tracked(o)
      BY <1>4, <3>1 DEF Harmless
    <3> QED
      BY <1>2, <1>4, <3>1, <3>2, PromiseWrite
  <2>2. CASE status.backupBucketProvisioned = cluster.status.backupBucketProvisioned
    <3>1. Promised(o) => Tracked(o) /\ Bucket(key) \in buckets
      BY <1>2, <1>4, <2>2 DEF PromiseInvariant, Harmless
    <3> QED
      BY <1>2, <1>4, <3>1, PromiseWrite
  <2> QED
    BY <1>1, <2>1, <2>2
<1> QED
  BY <1>1, <1>3, <1>4, StatusPatchWrites

LEMMA PromiseStep ==
  ASSUME OwnBuckets, TypeOK, TrackingInvariant, PromiseInvariant, Step
  PROVE  PromiseInvariant'
<1>1. VersionsType /\ key \in Clusters
  BY DEF TypeOK, VersionsType
<1>2. CASE InitialPhase \/ MarkUpgrading \/ RecordBucket \/ UpdateStatus
  BY <1>2, PromiseStatus
<1>3. CASE ReconcileConfigMap \/ ReconcileService \/ ReconcileStatefulSet
  <2>1. ASSUME NEW kind, NEW built, NEW mutated, NEW next,
               CreateOrUpdate(kind, built, mutated, next), next # "recordBucket"
        PROVE  UNCHANGED <<versions, buckets>> /\ pc' # "recordBucket"
    BY <2>1, CreateOrUpdateMoves DEF Moves
  <2>2. UNCHANGED <<versions, buckets>> /\ pc' # "recordBucket"
    BY <1>3, <2>1 DEF ReconcileConfigMap, ReconcileService, ReconcileStatefulSet
  <2> QED
    BY <2>2, PromiseSame DEF Api
<1>4. CASE Observe
  <2>1. UNCHANGED <<versions, buckets>> /\ pc' # "recordBucket"
    BY <1>4 DEF Observe, BackupStep, Refused, Return
  <2> QED
    BY <2>1, PromiseSame DEF Api
<1>5. CASE AddFinalizer
  <2>1. UNCHANGED buckets /\ pc' # "recordBucket"
    BY <1>5, PatchOutcome DEF AddFinalizer, FinalizerPatch
  <2>2. CASE UNCHANGED versions
    BY <2>1, <2>2, PromiseSame DEF Api
  <2>3. ASSUME NEW o \in DatabaseCluster, Write(key, o),
               Harmless(Api(key), o) \/ (~ Tracked(Api(key)) /\ LiveTracked(o)),
               Promised(o) => Promised(Api(key))
        PROVE  PromiseInvariant'
    <3>1. Promised(o) => Tracked(o) /\ Bucket(key) \in buckets
      BY <1>1, <2>3 DEF PromiseInvariant, Harmless
    <3> QED
      BY <1>1, <2>1, <2>3, <3>1, PromiseWrite
  <2> QED
    BY <1>5, <2>2, <2>3, AddFinalizerWrites
<1>6. ASSUME NoneLiveTracked(versions[key])
      PROVE  ~ LiveTracked(Api(key))
  <2>1. Len(versions[key]) \in 1..Len(versions[key])
    BY <1>1 DEF VersionsType
  <2> QED
    BY <1>6, <2>1 DEF NoneLiveTracked, Api
<1>7. CASE RemoveFinalizer
  <2>1. UNCHANGED buckets /\ pc' # "recordBucket" /\ ~ LiveTracked(Api(key))
    BY <1>6, <1>7, RemoveFinalizerWrites, PatchOutcome DEF RemoveFinalizer, FinalizerPatch
  <2>2. ~ Promised(Api(key))
    BY <1>1, <2>1 DEF PromiseInvariant, Promised, LiveTracked
  <2>3. CASE UNCHANGED versions
    BY <2>1, <2>3, PromiseSame DEF Api
  <2>4. ASSUME NEW o \in DatabaseCluster, Write(key, o), Promised(o) => Promised(Api(key))
        PROVE  PromiseInvariant'
    BY <1>1, <2>1, <2>2, <2>4, PromiseWrite
  <2> QED
    BY <1>7, <2>3, <2>4, RemoveFinalizerWrites
<1>8. CASE ProvisionBucket
  <2>1. /\ UNCHANGED <<versions, key, cluster>> /\ buckets' = buckets \cup {Bucket(key)}
    BY <1>8 DEF ProvisionBucket, Goto, Exists, Provision, Bucket
  <2>2. FinalizerName \in cluster.finalizers
    BY <1>8 DEF ProvisionBucket, TrackingInvariant, WorkerOK
  <2> QED
    BY <2>1, <2>2 DEF PromiseInvariant, Api, Bucket
<1>9. CASE DeleteBucket
  <2>1. /\ UNCHANGED versions /\ pc' # "recordBucket" /\ buckets' = buckets \ {Bucket(key)}
    BY <1>9 DEF DeleteBucket, Goto, Delete, CanDelete, Bucket
  <2>2. ~ LiveTracked(Api(key))
    BY <1>6, <1>9 DEF DeleteBucket, TrackingInvariant, WorkerOK, Cleaning, CleanupOK
  <2>3. ASSUME NEW c \in Clusters, Promised(Api(c))
        PROVE  Tracked(Api(c)) /\ Bucket(c) \in buckets'
    <3>1. Tracked(Api(c)) /\ Bucket(c) \in buckets
      BY <2>3 DEF PromiseInvariant
    <3>2. c # key
      BY <2>2, <2>3, <3>1 DEF Promised, LiveTracked
    <3> QED
      BY <1>1, <2>1, <3>1, <3>2, BucketsDiffer
  <2> QED
    BY <2>1, <2>3 DEF PromiseInvariant, Api, Bucket
<1> QED
  BY <1>2, <1>3, <1>4, <1>5, <1>7, <1>8, <1>9 DEF Step

LEMMA PromiseNext ==
  ASSUME OwnBuckets
  PROVE  TypeOK /\ TrackingInvariant /\ PromiseInvariant /\ [Next]_vars
           /\ [RestartLosesNothing]_vars => PromiseInvariant'
<1> SUFFICES ASSUME TypeOK, TrackingInvariant, PromiseInvariant, [Next]_vars,
                    [RestartLosesNothing]_vars
             PROVE  PromiseInvariant'
  OBVIOUS
<1>1. CASE UNCHANGED <<versions, buckets>> /\ (pc' # "recordBucket" \/ UNCHANGED worker)
  BY <1>1, PromiseSame DEF Api
<1>2. CASE UNCHANGED vars
  BY <1>1, <1>2 DEF vars
<1>3. CASE Restart
  <2>1. (\A c \in Clusters : Api(c)' = Api(c)) /\ UNCHANGED buckets /\ pc' # "recordBucket"
    BY <1>3 DEF Restart, Api, RestartLosesNothing, vars
  <2> QED
    BY <2>1, PromiseSame
<1>4. ASSUME NEW c \in Clusters, Sync(c)
      PROVE  PromiseInvariant'
  <2>1. versions \in [Clusters -> Seq(DatabaseCluster)] /\ Len(versions[c]) > 1
    BY <1>4 DEF TypeOK, Sync
  <2>2. versions'[c] = Tail(versions[c]) /\ \A d \in Clusters \ {c} : versions'[d] = versions[d]
    BY <1>4, <2>1 DEF Sync
  <2>3. Api(c)' = Api(c)
    BY <2>1, <2>2, TailKeeps DEF Api, Latest
  <2>4. \A d \in Clusters : Api(d)' = Api(d)
    BY <2>2, <2>3 DEF Api
  <2> QED
    BY <1>4, <2>4, PromiseSame DEF Sync
<1>5. ASSUME NEW c \in Clusters,
             \/ UserCreates(c) \/ UserEdits(c) \/ UserDeletes(c)
             \/ ForeignFinalizerAdded(c) \/ ForeignFinalizerRemoved(c)
      PROVE  PromiseInvariant'
  <2>1. PICK o \in DatabaseCluster :
          Write(c, o) /\ Harmless(Api(c), o) /\ (Promised(o) => Promised(Api(c)))
    BY <1>5, UserWrites
  <2>2. UNCHANGED <<buckets, worker>> /\ VersionsType
    BY <1>5, UserWrites DEF TypeOK, VersionsType
  <2>3. Promised(o) => Tracked(o) /\ Bucket(c) \in buckets
    BY <2>1 DEF PromiseInvariant, Harmless
  <2> QED
    BY <2>1, <2>2, <2>3, PromiseWrite
<1>6. ASSUME NEW c \in Clusters, Reconcile(c)
      PROVE  PromiseInvariant'
  <2>1. UNCHANGED <<versions, buckets>> /\ pc' # "recordBucket"
    BY <1>6 DEF Reconcile, FirstStep
  <2> QED
    BY <1>1, <2>1
<1>7. ASSUME NEW c \in Clusters, NEW kind \in Kinds,
             \/ TimerFires(c) \/ SyncChild(c, kind)
             \/ ChildDeleted(c, kind) \/ CollectGarbage(c, kind)
             \/ PodBecomesReady(c) \/ PodStopped(c) \/ PodFails(c)
      PROVE  PromiseInvariant'
  <2>1. UNCHANGED <<versions, buckets>> /\ UNCHANGED worker
    BY <1>7 DEF TimerFires, SyncChild, ChildDeleted, CollectGarbage, PodBecomesReady, PodStopped,
                PodFails, SetPods, unaffected
  <2> QED
    BY <1>1, <2>1
<1> QED
  BY <1>2, <1>3, <1>4, <1>5, <1>6, <1>7, PromiseStep DEF Next, Kinds

\* A status that says that the bucket was created tells the truth until the
\* deletion begins, under the same two conditions: with a registry that lives
\* in the process a restart makes a liar of it. (types.go:77)
THEOREM PromisesWithoutLoss ==
  ASSUME OwnBuckets
  PROVE  Spec /\ [][RestartLosesNothing]_vars => []ProvisionedHasBucket
<1>1. Init => TypeOK /\ TrackingInvariant /\ PromiseInvariant
  <2> SUFFICES ASSUME Init PROVE TypeOK /\ TrackingInvariant /\ PromiseInvariant
    OBVIOUS
  <2>1. \A c \in Clusters : Api(c) = NoObject(0)
    BY DEF Init, Api
  <2> QED
    BY <2>1, InitType, InitKeeps DEF PromiseInvariant, Promised, NoObject, Init
<1>2. TypeOK /\ TrackingInvariant /\ PromiseInvariant /\ [Next]_vars
          /\ [RestartLosesNothing]_vars
        => TypeOK' /\ TrackingInvariant' /\ PromiseInvariant'
  BY NextType, NextKeeps, PromiseNext
<1>3. PromiseInvariant => ProvisionedHasBucket
  BY DEF PromiseInvariant, ProvisionedHasBucket, Promised
<1> QED
  BY <1>1, <1>2, <1>3, PTL DEF Spec

\* The same for buckets that outlive the process, as those of a service do.
\* (types.go:77)
THEOREM PromisesAreKept ==
  ASSUME OwnBuckets, StoreDurable = TRUE
  PROVE  Spec => []ProvisionedHasBucket
BY DurableLosesNothing, PromisesWithoutLoss, PTL
=============================================================================
