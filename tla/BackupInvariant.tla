--------------------------- MODULE BackupInvariant ---------------------------
(***************************************************************************)
(* Why no bucket is orphaned: what must hold of the versions of a          *)
(* DatabaseCluster that lie between the informer cache and the API server, *)
(* and of the reconcile in progress, for NoOrphanBucket to be inductive.   *)
(*                                                                         *)
(* A name's versions go through phases: untracked, tracked and live,       *)
(* tracked and doomed (being deleted), untracked again. Only RemoveFinalizer*)
(* ends tracking and only AddFinalizer begins it; both act on a copy that  *)
(* may be older than what the API server holds.                            *)
(***************************************************************************)
EXTENDS DatabaseClusterSystem

LiveTracked(o) == Tracked(o) /\ ~ o.deleting
Doomed(o) == Tracked(o) /\ o.deleting

\* Its status says, to whoever may rely on it, that the bucket was created.
Promised(o) == o.exists /\ ~ o.deleting /\ o.status.backupBucketProvisioned

Latest(h) == h[Len(h)]

\* Tracking does not end while the cache may still show a live tracked version.
TrackedStays(h) == \A i \in 1..Len(h) : LiveTracked(h[i]) => Tracked(Latest(h))

\* Once a cleanup is over, only the doomed versions at the cache's end are left.
DoomedPrefix(h) == \A i \in 1..Len(h) : Doomed(h[i]) => \A j \in 1..i : Doomed(h[j])
DoomedBefore(h) == Doomed(Latest(h)) \/ DoomedPrefix(h)

\* A name is not tracked anew while the cache may still show the doomed object.
NotTrackedAnew(h) ==
  \A i, j \in 1..Len(h) :
    i < j /\ Doomed(h[i]) /\ ~ Doomed(h[j]) => ~ Tracked(Latest(h))

NoneDoomed(h) == \A i \in 1..Len(h) : ~ Doomed(h[i])
NoneLiveTracked(h) == \A i \in 1..Len(h) : ~ LiveTracked(h[i])

HistoryOK(h) == TrackedStays(h) /\ DoomedBefore(h) /\ NotTrackedAnew(h)

\* What the deletion branch may rely on, at the versions still to come.
CleanupOK(h) == NoneLiveTracked(h) /\ DoomedPrefix(h)

\* What the other branch may rely on.
ProvisionOK(h) == Doomed(Latest(h)) \/ NoneDoomed(h)

Cleaning == pc \in {"deleteBucket", "removeFinalizer"}
Provisioning == pc \in Steps \ {"idle", "deleteBucket", "removeFinalizer"}

\* The reconcile in progress: its local copy is never ahead of the truth.
WorkerOK ==
  /\ Cleaning => CleanupOK(versions[key])
  /\ Provisioning => ProvisionOK(versions[key])
  /\ Provisioning /\ FinalizerName \in cluster.finalizers => Tracked(Api(key))
  /\ pc = "provision" => FinalizerName \in cluster.finalizers
  /\ pc = "removeFinalizer" => Bucket(key) \notin buckets

\* The inductive invariant behind NoOrphanBucket: a bucket's name is tracked,
\* however far the cache, and the reconcile that read it, lag behind.
\* (databasecluster_controller.go:191-254)
TrackingInvariant ==
  /\ \A c \in Clusters : HistoryOK(versions[c])
  /\ WorkerOK
  /\ NoOrphanBucket

\* Why a promise is kept: only a tracked object can promise a bucket, and the
\* worker writes the promise while it holds the finalizer and the bucket.
PromiseInvariant ==
  /\ \A c \in Clusters : Promised(Api(c)) => Tracked(Api(c)) /\ Bucket(c) \in buckets
  /\ pc = "recordBucket" => FinalizerName \in cluster.finalizers /\ Bucket(key) \in buckets
=============================================================================
