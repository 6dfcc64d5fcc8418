----------------------- MODULE DatabaseClusterSystem -----------------------
(***************************************************************************)
(* The reconciler among the actors it has to get along with: users, other  *)
(* controllers' finalizers, the StatefulSet controller, the kubelet and    *)
(* the garbage collector. None of them is in this repository; what they do *)
(* is what the reconciler's code reads, watches or is written against.     *)
(***************************************************************************)
EXTENDS DatabaseClusterController

CONSTANT UserSpecs   \* the specs users write

ASSUME UserSpecsAssumption == UserSpecs \subseteq DatabaseClusterSpec

unaffected == <<buckets, queue, timers, worker>>

-----------------------------------------------------------------------------
(* Users and other controllers at the API server.                          *)

UserCreates(c) ==
  /\ ~ Api(c).exists
  /\ Spend("create")
  /\ \E spec \in UserSpecs : Write(c, Created(Api(c).uid + 1, spec))
  /\ UNCHANGED <<children, unaffected>>

UserEdits(c) ==
  /\ Api(c).exists
  /\ Spend("edit")
  /\ \E spec \in UserSpecs \ {Api(c).spec} :
       Write(c, [Api(c) EXCEPT !.spec = spec, !.generation = @ + 1])
  /\ UNCHANGED <<children, unaffected>>

UserDeletes(c) ==
  /\ Api(c).exists /\ ~ Api(c).deleting
  /\ Spend("delete")
  /\ Write(c, Settled([Api(c) EXCEPT !.deleting = TRUE, !.generation = @ + 1]))
  /\ UNCHANGED <<children, unaffected>>

ForeignFinalizerAdded(c) ==
  /\ Api(c).exists /\ ~ Api(c).deleting
  /\ ForeignFinalizer \notin Api(c).finalizers
  /\ Spend("foreign")
  /\ Write(c, [Api(c) EXCEPT !.finalizers = @ \cup {ForeignFinalizer}])
  /\ UNCHANGED <<children, unaffected>>

ForeignFinalizerRemoved(c) ==
  /\ Api(c).exists
  /\ ForeignFinalizer \in Api(c).finalizers
  /\ Write(c, Settled([Api(c) EXCEPT !.finalizers = @ \ {ForeignFinalizer}]))
  /\ UNCHANGED <<children, unaffected, budget>>

-----------------------------------------------------------------------------
(* What happens to the child objects and their pods.                       *)

\* Someone deletes a child object.
ChildDeleted(c, kind) ==
  /\ live[c][kind].exists
  /\ Spend("child")
  /\ Store(c, kind, NoChildren[kind])
  /\ UNCHANGED <<versions, seen, unaffected>>

\* A child whose owner is gone, or has been replaced by another object of the
\* same name, is garbage.
CollectGarbage(c, kind) ==
  /\ live[c][kind].exists
  /\ ~ (Api(c).exists /\ Api(c).uid = live[c][kind].owner)
  /\ Store(c, kind, NoChildren[kind])
  /\ UNCHANGED <<versions, seen, unaffected, budget>>

SetPods(c, updated, outdated) ==
  /\ Store(c, "statefulSet", [live[c].statefulSet EXCEPT !.updated = updated,
                                                        !.outdated = outdated])
  /\ UNCHANGED <<versions, seen, unaffected>>

\* A pod mounts the ConfigMap: it does not start without it.
PodBecomesReady(c) ==
  LET sts == live[c].statefulSet
  IN /\ sts.exists /\ live[c].configMap.exists
     /\ ReadyReplicas(sts) < sts.replicas
     /\ SetPods(c, sts.updated + 1, sts.outdated)
     /\ UNCHANGED budget

\* Scaling down, or the rolling update going on to the next pod.
PodStopped(c) ==
  LET sts == live[c].statefulSet
  IN /\ \/ ReadyReplicas(sts) >= sts.replicas /\ sts.outdated > 0
           /\ SetPods(c, sts.updated, sts.outdated - 1)
        \/ ReadyReplicas(sts) > sts.replicas /\ sts.updated > 0
           /\ SetPods(c, sts.updated - 1, sts.outdated)
     /\ UNCHANGED budget

PodFails(c) ==
  LET sts == live[c].statefulSet
  IN /\ \/ sts.updated > 0 /\ SetPods(c, sts.updated - 1, sts.outdated)
        \/ sts.outdated > 0 /\ SetPods(c, sts.updated, sts.outdated - 1)
     /\ Spend("pod")

-----------------------------------------------------------------------------
Next ==
  \/ Step
  \/ Restart
  \/ \E c \in Clusters :
       \/ Reconcile(c) \/ Sync(c) \/ TimerFires(c)
       \/ UserCreates(c) \/ UserEdits(c) \/ UserDeletes(c)
       \/ ForeignFinalizerAdded(c) \/ ForeignFinalizerRemoved(c)
       \/ PodBecomesReady(c) \/ PodStopped(c) \/ PodFails(c)
       \/ \E kind \in Kinds :
            SyncChild(c, kind) \/ ChildDeleted(c, kind) \/ CollectGarbage(c, kind)

Spec == Init /\ [][Next]_vars

\* The worker, the informers and the timers always go on. The work queue is
\* first in first out, so no key in it waits for ever. Kubernetes starts and
\* stops pods and collects garbage. Nobody has to create, edit or delete.
Fairness ==
  /\ WF_vars(Step)
  /\ \A c \in Clusters :
       /\ SF_vars(Reconcile(c))
       /\ WF_vars(Sync(c))
       /\ WF_vars(TimerFires(c))
       /\ WF_vars(PodBecomesReady(c))
       /\ WF_vars(PodStopped(c))
       /\ \A kind \in Kinds :
            WF_vars(SyncChild(c, kind)) /\ WF_vars(CollectGarbage(c, kind))

FairSpec == Spec /\ Fairness

\* The rendering drawn is the cached one: CreateOrUpdate finds nothing to do.
RendersAsCached == ReconcileConfigMap /\ pc' = "service" /\ UNCHANGED live

\* Each range over a map draws its order anew, at random: among infinitely many
\* draws, infinitely many repeat the order of the file that is there.
RandomSpec == FairSpec /\ SF_vars(RendersAsCached)

-----------------------------------------------------------------------------
TypeOK ==
  /\ versions \in [Clusters -> Seq(DatabaseCluster)]
  /\ \A c \in Clusters : Len(versions[c]) > 0
  /\ live \in [Clusters -> ChildObjects]
  /\ seen \in [Clusters -> ChildObjects]
  /\ news \in [Clusters -> SUBSET Kinds]
  /\ buckets \subseteq { bucketNameFor(NameOf[c]) : c \in Clusters }
  /\ queue \subseteq Clusters
  /\ timers \subseteq Clusters
  /\ pc \in Steps
  /\ key \in Clusters
  /\ cluster \in DatabaseCluster
  /\ obs \in [upgrading : BOOLEAN, ready : Nat, waiting : BOOLEAN]
  /\ budget \in [BudgetKinds -> Nat]

Bucket(c) == bucketNameFor(NameOf[c])

\* Every backup bucket is tracked: a DatabaseCluster of its name exists and
\* carries the operator's finalizer, so deleting it will clean the bucket up.
\* (types.go:128, "added ... when a backup bucket is provisioned ... removes
\* this finalizer only after successfully cleaning up the bucket")
NoOrphanBucket ==
  \A b \in buckets : \E c \in Clusters : Bucket(c) = b /\ Tracked(Api(c))

\* The stage of BackupLifecycle that a stored object is in (a refinement mapping:
\* there is nothing of the kind in the code).
Stage(o) ==
  IF ~ Tracked(o) THEN "untracked" ELSE IF o.deleting THEN "doomed" ELSE "tracked"

stages == [c \in Clusters |-> Stage(Api(c))]

Lifecycle == INSTANCE BackupLifecycle WITH Owners <- Clusters, BucketOf <- Bucket, stage <- stages

\* Through stale caches, late patches, lost answers and restarts the finalizer
\* and the bucket only ever take the steps of BackupLifecycle. (types.go:126,
\* "removes this finalizer only after successfully cleaning up the bucket")
FollowsLifecycle == Lifecycle!Spec

\* A cluster whose status says that the bucket was created has one, until its
\* deletion begins. (types.go:77, provisionBackupBucket's order of steps)
ProvisionedHasBucket ==
  \A c \in Clusters :
    Api(c).exists /\ ~ Api(c).deleting /\ Api(c).status.backupBucketProvisioned
      => Bucket(c) \in buckets

\* The StatefulSet is created after the ConfigMap its pods mount, as long as
\* nobody deletes the cluster or its children. (resources.go:92, "must create
\* the ConfigMap BEFORE the StatefulSet")
ConfigMapFirst ==
  [][\A c \in Clusters :
       live'[c].statefulSet.exists => live[c].statefulSet.exists \/ live[c].configMap.exists]_vars

\* The deletion of a tracked cluster ends, whatever call or process failed on
\* the way. (bucket.go:95, "permanently blocking CR deletion")
DeletionCompletes ==
  \A c \in Clusters : Api(c).deleting /\ Tracked(Api(c)) ~> ~ Tracked(Api(c))

\* A cluster that wants backups, and is left alone, ends up with a bucket, the
\* finalizer and a status that says so. (controller_test.go:426)
BackupReady(c) ==
  /\ Tracked(Api(c))
  /\ Bucket(c) \in buckets
  /\ Api(c).status.backupBucketProvisioned

BackupProvisioned ==
  \A c \in Clusters :
    <>[](Api(c).exists /\ ~ Api(c).deleting /\ Api(c).spec.backup => BackupReady(c))

\* The children are there and are what the spec asks for, enough pods are ready,
\* and the status reports just that.
Reconciled(c) ==
  LET api == Api(c)
      sts == live[c].statefulSet
  IN /\ \A kind \in Kinds : live[c][kind].exists
     /\ IsFileFor(live[c].configMap.data, api.spec.config)
     /\ sts.replicas = api.spec.replicas /\ sts.version = api.spec.version
     /\ ReadyReplicas(sts) >= api.spec.replicas
     /\ api.status.phase = "Running"
     /\ api.status.readyReplicas = ReadyReplicas(sts)
     /\ api.status.currentVersion = api.spec.version
     /\ api.status.observedGeneration = api.generation
     /\ api.status.conditions["Ready"].status = "True"
     /\ api.status.conditions["Degraded"].status = "False"
     /\ api.spec.backup => api.status.backupBucketProvisioned

\* Something will make the operator look at the cluster again.
Due(c) == c \in queue \cup timers \/ Len(versions[c]) > 1 \/ news[c] # {}

\* ... or it is at it.
InHand(c) == Due(c) \/ (pc # "idle" /\ key = c)

\* The operator never goes to sleep on unfinished business: a cluster that it
\* has no reason to look at again is reconciled, or cleaned up. Every cached
\* state it worked from may have been stale, every call may have failed, and
\* not every change is an event. (databasecluster_controller.go:181-187,
\* "DatabaseCluster in desired state")
NothingLeftUndone ==
  \A c \in Clusters :
    ~ InHand(c) =>
      /\ Api(c).exists /\ ~ Api(c).deleting => Reconciled(c)
      /\ Api(c).deleting => ~ Tracked(Api(c))

\* Kubernetes has done its part too: the children belong to this very object,
\* and the pods are as many as asked for, none of them of an earlier version.
InDesiredState(c) ==
  /\ Reconciled(c)
  /\ \A kind \in Kinds : live[c][kind].owner = Api(c).uid
  /\ live[c].statefulSet.outdated = 0
  /\ live[c].statefulSet.updated = Api(c).spec.replicas

\* Once users and failures leave a cluster alone it reaches its desired state
\* and stays there, however stale the caches were on the way.
\* (controller_test.go:416, :440)
Converges ==
  \A c \in Clusters : <>[](Api(c).exists /\ ~ Api(c).deleting => InDesiredState(c))

\* The operator comes to rest: a cluster that is left alone is not reconciled
\* for ever, although every write of a reconcile is an event for the next one,
\* and the ConfigMap's lines may be written in another order each time.
\* (checker.go:118, "status loops"; :136, "should be near-zero when cluster is
\* steady") It takes a draw of the order that is stored to end it: this holds of
\* RandomSpec, and not of FairSpec.
Settles == <>[](pc = "idle" /\ queue = {} /\ timers = {})

-----------------------------------------------------------------------------
(* What comments and tests say of the program, and the program does not do.*)

\* "should set ConditionUpgrading=False after upgrade" (controller_test.go:423)
UpgradingClears ==
  \A c \in Clusters :
    Api(c).status.conditions["Upgrading"].status = "True"
      ~> Api(c).status.conditions["Upgrading"].status # "True"

\* "when version is changed: should set ConditionUpgrading=True", and at once
\* (controller_test.go:420-422): the image does not change from the version that
\* the stored status reports before the change is announced. The reconcile that
\* changes it compares the status of its cached copy, which may be of before
\* any version was reported.
UpgradeAnnounced ==
  [][\A c \in Clusters :
       LET old == live[c].statefulSet
           new == live'[c].statefulSet
       IN old.exists /\ old.version = Api(c).status.currentVersion /\ old.version # new.version
            => Api(c).status.conditions["Upgrading"].status = "True"]_vars

\* "CurrentVersion is the PostgreSQL version currently running." (types.go:68)
\* No pod can run a version before the StatefulSet has it: a version that a
\* status begins to report is that of the StatefulSet. But the response of a
\* patch may bring a spec that the StatefulSet was not built from; and once its
\* version is reported, the next reconcile sees no upgrade to announce.
ReportedIsApplied ==
  [][\A c \in Clusters :
       LET old == Api(c).status.currentVersion
           new == Api(c)'.status.currentVersion
       IN new \notin {old, NoVersion} => live[c].statefulSet.version = new]_vars

\* "Same spec, same ConfigMap, always." (resources.go:250) The content changes
\* only with the postgresConfig of the resource.
ConfigMapStable ==
  [][\A c \in Clusters :
       LET old == live[c].configMap
           new == live'[c].configMap
       IN old.exists /\ new.exists /\ old.data # new.data
            => Lines(old.data) # Lines(new.data)]_vars
=============================================================================
