---------------------------- MODULE BackupProofs ----------------------------
(***************************************************************************)
(* No bucket is orphaned, for every value of the constants: the inductive  *)
(* invariant of BackupInvariant, proved.                                   *)
(***************************************************************************)
EXTENDS BackupInvariant, ControllerTypes

-----------------------------------------------------------------------------
(* What a new version, or the cache's progress, does to a history.         *)

LEMMA AppendElements ==
  ASSUME NEW S, NEW h \in Seq(S), NEW o \in S
  PROVE  /\ Append(h, o) \in Seq(S)
         /\ Len(Append(h, o)) = Len(h) + 1
         /\ \A i \in 1..Len(h) : Append(h, o)[i] = h[i]
         /\ Append(h, o)[Len(h) + 1] = o
OBVIOUS

LEMMA TailElements ==
  ASSUME NEW S, NEW h \in Seq(S), Len(h) > 1
  PROVE  /\ Tail(h) \in Seq(S)
         /\ Len(Tail(h)) = Len(h) - 1
         /\ \A i \in 1..(Len(h) - 1) : Tail(h)[i] = h[i + 1]
OBVIOUS

\* A write that neither begins nor ends tracking, nor revokes a deletion.
Harmless(before, after) ==
  /\ Tracked(after) <=> Tracked(before)
  /\ Doomed(before) => Doomed(after)

LEMMA AppendHarmless ==
  ASSUME NEW h \in Seq(DatabaseCluster), Len(h) > 0, NEW o \in DatabaseCluster,
         Harmless(Latest(h), o)
  PROVE  /\ HistoryOK(h) => HistoryOK(Append(h, o))
         /\ CleanupOK(h) => CleanupOK(Append(h, o))
         /\ ProvisionOK(h) => ProvisionOK(Append(h, o))
<1> DEFINE n == Len(h)
           g == Append(h, o)
<1>1. /\ n \in Nat \ {0} /\ Len(g) = n + 1 /\ g[n + 1] = o /\ Latest(g) = o
      /\ \A i \in 1..n : g[i] = h[i]
      /\ \A i \in 1..(n + 1) : i \in 1..n \/ i = n + 1
  BY AppendElements DEF Latest
<1>2. /\ Tracked(o) <=> Tracked(h[n])
      /\ Doomed(h[n]) => Doomed(o)
  BY DEF Harmless, Latest
<1>3. ASSUME DoomedPrefix(h), Doomed(o) => Doomed(h[n])
      PROVE  DoomedPrefix(g)
  BY <1>1, <1>3 DEF DoomedPrefix
<1>4. ASSUME HistoryOK(h)
      PROVE  HistoryOK(g)
  <2>1. TrackedStays(g)
    BY <1>1, <1>2, <1>4 DEF HistoryOK, TrackedStays, Latest, LiveTracked
  <2>2. DoomedBefore(g)
    BY <1>1, <1>2, <1>3, <1>4 DEF HistoryOK, DoomedBefore, Latest
  <2>3. NotTrackedAnew(g)
    <3> SUFFICES ASSUME NEW i \in 1..(n + 1), NEW j \in 1..(n + 1),
                        i < j, Doomed(g[i]), ~ Doomed(g[j])
                 PROVE  ~ Tracked(o)
      BY <1>1 DEF NotTrackedAnew
    <3>1. i \in 1..n /\ Doomed(h[i])
      BY <1>1
    <3>2. CASE j \in 1..n
      BY <1>1, <1>2, <1>4, <3>1, <3>2 DEF HistoryOK, NotTrackedAnew, Latest
    <3>3. CASE j = n + 1
      BY <1>1, <1>2, <1>4, <3>1, <3>3 DEF HistoryOK, NotTrackedAnew, Latest
    <3> QED
      BY <1>1, <3>2, <3>3
  <2> QED
    BY <2>1, <2>2, <2>3 DEF HistoryOK
<1>5. ASSUME CleanupOK(h)
      PROVE  CleanupOK(g)
  <2>1. NoneLiveTracked(g)
    BY <1>1, <1>2, <1>5 DEF CleanupOK, NoneLiveTracked, LiveTracked, Doomed
  <2>2. Doomed(o) => Doomed(h[n])
    BY <1>1, <1>2, <1>5 DEF CleanupOK, NoneLiveTracked, LiveTracked, Doomed
  <2> QED
    BY <1>3, <1>5, <2>1, <2>2 DEF CleanupOK
<1>6. ASSUME ProvisionOK(h)
      PROVE  ProvisionOK(g)
  BY <1>1, <1>2, <1>6 DEF ProvisionOK, NoneDoomed, Latest
<1> QED
  BY <1>4, <1>5, <1>6

LEMMA AppendUntracked ==
  ASSUME NEW h \in Seq(DatabaseCluster), Len(h) > 0, NEW o \in DatabaseCluster,
         CleanupOK(h), ~ Tracked(o)
  PROVE  HistoryOK(Append(h, o))
<1> DEFINE n == Len(h)
           g == Append(h, o)
<1>1. /\ n \in Nat \ {0} /\ Len(g) = n + 1 /\ g[n + 1] = o /\ Latest(g) = o
      /\ \A i \in 1..n : g[i] = h[i]
      /\ \A i \in 1..(n + 1) : i \in 1..n \/ i = n + 1
  BY AppendElements DEF Latest
<1>2. TrackedStays(g)
  BY <1>1 DEF TrackedStays, CleanupOK, NoneLiveTracked, LiveTracked
<1>3. DoomedPrefix(g)
  BY <1>1 DEF CleanupOK, DoomedPrefix, Doomed
<1>4. NotTrackedAnew(g)
  BY <1>1 DEF NotTrackedAnew
<1> QED
  BY <1>2, <1>3, <1>4 DEF HistoryOK, DoomedBefore

LEMMA AppendLiveTracked ==
  ASSUME NEW h \in Seq(DatabaseCluster), Len(h) > 0, NEW o \in DatabaseCluster,
         NoneDoomed(h), LiveTracked(o)
  PROVE  HistoryOK(Append(h, o)) /\ ProvisionOK(Append(h, o))
<1> DEFINE n == Len(h)
           g == Append(h, o)
<1>1. /\ n \in Nat \ {0} /\ Len(g) = n + 1 /\ g[n + 1] = o /\ Latest(g) = o
      /\ \A i \in 1..n : g[i] = h[i]
      /\ \A i \in 1..(n + 1) : i \in 1..n \/ i = n + 1
  BY AppendElements DEF Latest
<1>2. NoneDoomed(g)
  BY <1>1 DEF NoneDoomed, LiveTracked, Doomed
<1> QED
  BY <1>1, <1>2
     DEF HistoryOK, ProvisionOK, TrackedStays, DoomedBefore, DoomedPrefix, NotTrackedAnew,
         NoneDoomed, LiveTracked

LEMMA TailKeeps ==
  ASSUME NEW h \in Seq(DatabaseCluster), Len(h) > 1
  PROVE  /\ Latest(Tail(h)) = Latest(h)
         /\ HistoryOK(h) => HistoryOK(Tail(h))
         /\ CleanupOK(h) => CleanupOK(Tail(h))
         /\ ProvisionOK(h) => ProvisionOK(Tail(h))
<1> DEFINE n == Len(h)
           g == Tail(h)
<1>1. /\ n \in Nat /\ n > 1 /\ Len(g) = n - 1
      /\ \A i \in 1..(n - 1) : g[i] = h[i + 1]
      /\ \A i \in 1..(n - 1) : i + 1 \in 1..n
  BY TailElements
<1>2. Latest(g) = Latest(h)
  BY <1>1 DEF Latest
<1>3. DoomedPrefix(h) => DoomedPrefix(g)
  BY <1>1 DEF DoomedPrefix
<1>4. HistoryOK(h) => HistoryOK(g)
  <2>1. TrackedStays(h) => TrackedStays(g)
    BY <1>1, <1>2 DEF TrackedStays
  <2>2. NotTrackedAnew(h) => NotTrackedAnew(g)
    BY <1>1, <1>2 DEF NotTrackedAnew
  <2> QED
    BY <1>2, <1>3, <2>1, <2>2 DEF HistoryOK, DoomedBefore
<1>5. CleanupOK(h) => CleanupOK(g)
  BY <1>1, <1>3 DEF CleanupOK, NoneLiveTracked
<1>6. ProvisionOK(h) => ProvisionOK(g)
  BY <1>1, <1>2 DEF ProvisionOK, NoneDoomed
<1> QED
  BY <1>2, <1>4, <1>5, <1>6

LEMMA SingletonOK ==
  ASSUME NEW o
  PROVE  HistoryOK(<<o>>)
<1>1. Len(<<o>>) = 1 /\ <<o>>[1] = o
  OBVIOUS
<1> QED
  BY <1>1
     DEF HistoryOK, TrackedStays, DoomedBefore, DoomedPrefix, NotTrackedAnew, Latest, LiveTracked

\* What a reconcile may conclude from the version in the cache.
LEMMA FetchedOK ==
  ASSUME NEW h \in Seq(DatabaseCluster), Len(h) > 0, HistoryOK(h)
  PROVE  /\ Doomed(Head(h)) => CleanupOK(h)
         /\ ~ Doomed(Head(h)) => ProvisionOK(h)
         /\ LiveTracked(Head(h)) => Tracked(Latest(h))
<1> DEFINE n == Len(h)
<1>1. Head(h) = h[1] /\ n \in Nat /\ 1 \in 1..n /\ n \in 1..n
  OBVIOUS
<1>2. LiveTracked(h[1]) => Tracked(Latest(h))
  BY <1>1 DEF HistoryOK, TrackedStays
<1>3. ASSUME Doomed(h[1])
      PROVE  CleanupOK(h)
  <2>1. CASE \E j \in 1..n : ~ Doomed(h[j])
    <3>1. ~ Tracked(Latest(h))
      BY <1>1, <1>3, <2>1 DEF HistoryOK, NotTrackedAnew
    <3> QED
      BY <3>1 DEF HistoryOK, TrackedStays, DoomedBefore, CleanupOK, NoneLiveTracked, Doomed
  <2>2. CASE \A j \in 1..n : Doomed(h[j])
    BY <2>2 DEF CleanupOK, NoneLiveTracked, DoomedPrefix, LiveTracked, Doomed
  <2> QED
    BY <2>1, <2>2
<1>4. ASSUME ~ Doomed(h[1])
      PROVE  ProvisionOK(h)
  BY <1>1, <1>4 DEF HistoryOK, DoomedBefore, DoomedPrefix, ProvisionOK, NoneDoomed
<1> QED
  BY <1>1, <1>2, <1>3, <1>4

-----------------------------------------------------------------------------
(* Steps that keep what the invariant says of every history.               *)

Kept ==
  \A c \in Clusters :
    /\ Tracked(Api(c)') <=> Tracked(Api(c))
    /\ HistoryOK(versions[c]) => HistoryOK(versions'[c])
    /\ CleanupOK(versions[c]) => CleanupOK(versions'[c])
    /\ ProvisionOK(versions[c]) => ProvisionOK(versions'[c])

LEMMA UnchangedKept ==
  ASSUME UNCHANGED versions
  PROVE  Kept
BY DEF Kept, Api

LEMMA WriteKept ==
  ASSUME VersionsType, NEW c \in Clusters, NEW o \in DatabaseCluster, Write(c, o),
         Harmless(Api(c), o)
  PROVE  Kept
<1>1. CASE UNCHANGED versions
  BY <1>1, UnchangedKept
<1>2. CASE versions' = [versions EXCEPT ![c] = Append(@, o)]
  <2>1. versions[c] \in Seq(DatabaseCluster) /\ Len(versions[c]) > 0
    BY DEF VersionsType
  <2>2. /\ versions'[c] = Append(versions[c], o)
        /\ \A d \in Clusters \ {c} : versions'[d] = versions[d]
    BY <1>2 DEF VersionsType
  <2>3. Api(c)' = o
    BY <2>1, <2>2, AppendElements DEF Api
  <2>4. /\ HistoryOK(versions[c]) => HistoryOK(versions'[c])
        /\ CleanupOK(versions[c]) => CleanupOK(versions'[c])
        /\ ProvisionOK(versions[c]) => ProvisionOK(versions'[c])
    BY <2>1, <2>2, AppendHarmless DEF Api, Latest
  <2>5. \A d \in Clusters \ {c} : Api(d)' = Api(d)
    BY <2>2 DEF Api
  <2> QED
    BY <2>2, <2>3, <2>4, <2>5 DEF Kept, Harmless
<1> QED
  BY <1>1, <1>2 DEF Write

LEMMA SyncKept ==
  ASSUME VersionsType, NEW c \in Clusters, Sync(c)
  PROVE  Kept
<1>1. versions[c] \in Seq(DatabaseCluster) /\ Len(versions[c]) > 1
  BY DEF VersionsType, Sync
<1>2. versions'[c] = Tail(versions[c]) /\ \A d \in Clusters \ {c} : versions'[d] = versions[d]
  BY DEF VersionsType, Sync
<1>3. Api(c)' = Api(c)
  BY <1>1, <1>2, TailKeeps DEF Api, Latest
<1>4. \A d \in Clusters \ {c} : Api(d)' = Api(d)
  BY <1>2 DEF Api
<1> QED
  BY <1>1, <1>2, <1>3, <1>4, TailKeeps DEF Kept

LEMMA NoOrphanKept ==
  ASSUME NoOrphanBucket, Kept, buckets' \subseteq buckets
  PROVE  NoOrphanBucket'
BY DEF NoOrphanBucket, Kept, Bucket

LEMMA Background ==
  ASSUME TypeOK, TrackingInvariant, Kept, UNCHANGED <<buckets, worker>>
  PROVE  TrackingInvariant'
<1>1. WorkerOK'
  BY DEF TypeOK, TrackingInvariant, WorkerOK, Kept, Cleaning, Provisioning, Bucket, worker
<1> QED
  BY <1>1, NoOrphanKept DEF TrackingInvariant, Kept

\* Every step of the live path but the two of the finalizer and the bucket.
LEMMA LivePath ==
  ASSUME TypeOK, TrackingInvariant, Kept, UNCHANGED <<buckets, key>>,
         \/ pc' = "idle"
         \/ /\ Provisioning
            /\ Provisioning'
            /\ pc' # "provision"
            /\ FinalizerName \in cluster'.finalizers => Tracked(Api(key))
  PROVE  TrackingInvariant'
<1>1. WorkerOK'
  BY DEF TypeOK, TrackingInvariant, WorkerOK, Kept, Cleaning, Provisioning, Bucket
<1> QED
  BY <1>1, NoOrphanKept DEF TrackingInvariant, Kept

Moves(next) ==
  \/ pc' = "idle" /\ cluster' = NoObject(0)
  \/ pc' = next /\ cluster' = cluster

LEMMA CreateOrUpdateMoves ==
  ASSUME NEW kind, NEW built, NEW mutated, NEW next, CreateOrUpdate(kind, built, mutated, next)
  PROVE  Moves(next) /\ UNCHANGED <<versions, buckets, key>>
BY DEF CreateOrUpdate, Moves, Goto, Return, Refused, Lost, Answered, Continue

LEMMA CreateOrUpdateKeeps ==
  ASSUME TypeOK, TrackingInvariant, Provisioning,
         NEW kind, NEW built, NEW mutated,
         NEW next \in {"service", "markUpgrading", "statefulSet", "observe"},
         CreateOrUpdate(kind, built, mutated, next)
  PROVE  TrackingInvariant'
<1>1. Moves(next) /\ UNCHANGED <<versions, buckets, key>>
  BY CreateOrUpdateMoves
<1>2. FinalizerName \in cluster.finalizers => Tracked(Api(key))
  BY DEF TrackingInvariant, WorkerOK
<1>3. pc' = "idle" \/ (Provisioning' /\ pc' # "provision" /\ cluster' = cluster)
  BY <1>1 DEF Moves, Provisioning, Steps
<1> QED
  BY <1>1, <1>2, <1>3, LivePath, UnchangedKept

\* A patch that the API server has not refused has written patched, and the
\* worker either gave up or holds what it decoded.
LEMMA PatchOutcome ==
  ASSUME NEW allowed, NEW patched, NEW sent, NEW next, Patch(allowed, patched, sent, next)
  PROVE  /\ UNCHANGED <<buckets, key>>
         /\ \/ UNCHANGED versions /\ pc' = "idle"
            \/ /\ Api(key).exists /\ allowed /\ Write(key, patched)
               /\ \/ pc' = "idle"
                  \/ pc' = next /\ cluster' = Decode(patched, sent)
BY DEF Patch, Goto, Return, Refused, Lost, Answered, Continue

LEMMA StatusPatchKeeps ==
  ASSUME TypeOK, TrackingInvariant, Provisioning,
         NEW status \in DatabaseClusterStatus,
         NEW next \in {"idle", "statefulSet", "updateStatus"},
         StatusPatch(status, next)
  PROVE  TrackingInvariant'
<1> DEFINE api == Api(key)
           patched == [api EXCEPT !.status = PatchStatus(@, cluster.status, status)]
           sent == [cluster EXCEPT !.status = status]
<1>1. VersionsType /\ key \in Clusters /\ api \in DatabaseCluster /\ cluster \in DatabaseCluster
  BY ApiType DEF TypeOK, VersionsType
<1>2. PatchStatus(api.status, cluster.status, status) \in DatabaseClusterStatus
  BY <1>1, PatchStatusType DEF DatabaseCluster
<1>3. patched \in DatabaseCluster /\ Harmless(api, patched)
  BY <1>1, <1>2 DEF DatabaseCluster, Harmless, Tracked, Doomed
<1>4. Patch(TRUE, patched, sent, next)
  BY DEF StatusPatch
<1>5. CASE UNCHANGED versions /\ pc' = "idle"
  BY <1>4, <1>5, PatchOutcome, UnchangedKept, LivePath
<1>6. CASE api.exists /\ Write(key, patched) /\ pc' = "idle"
  BY <1>1, <1>3, <1>4, <1>6, PatchOutcome, WriteKept, LivePath
<1>7. CASE /\ api.exists /\ Write(key, patched)
           /\ pc' = next /\ pc' # "idle" /\ cluster' = Decode(patched, sent)
  <2>1. Kept
    BY <1>1, <1>3, <1>7, WriteKept
  <2>2. cluster'.finalizers = IF api.finalizers = {} THEN cluster.finalizers ELSE api.finalizers
    BY <1>1, <1>3, <1>7 DEF Decode, Received, DatabaseCluster
  <2>3. FinalizerName \in cluster'.finalizers => Tracked(api)
    BY <1>7, <2>2 DEF TrackingInvariant, WorkerOK, Tracked
  <2>4. Provisioning' /\ pc' # "provision"
    BY <1>7 DEF Provisioning, Steps
  <2> QED
    BY <1>4, <2>1, <2>3, <2>4, PatchOutcome, LivePath
<1> QED
  BY <1>4, <1>5, <1>6, <1>7, PatchOutcome

-----------------------------------------------------------------------------
(* The steps tracking depends on.                                          *)

LEMMA WriteAppends ==
  ASSUME VersionsType, NEW c \in Clusters, NEW o \in DatabaseCluster, Write(c, o), o # Api(c)
  PROVE  /\ versions[c] \in Seq(DatabaseCluster) /\ Len(versions[c]) > 0
         /\ versions'[c] = Append(versions[c], o)
         /\ Api(c)' = o
         /\ \A d \in Clusters \ {c} : versions'[d] = versions[d] /\ Api(d)' = Api(d)
<1>1. versions[c] \in Seq(DatabaseCluster) /\ Len(versions[c]) > 0
  BY DEF VersionsType
<1>2. versions'[c] = Append(versions[c], o) /\ \A d \in Clusters \ {c} : versions'[d] = versions[d]
  BY DEF VersionsType, Write
<1>3. Api(c)' = o
  BY <1>1, <1>2, AppendElements DEF Api
<1> QED
  BY <1>1, <1>2, <1>3 DEF Api

LEMMA DecodeFinalizers ==
  ASSUME NEW resp \in DatabaseCluster, NEW into
  PROVE  Decode(resp, into).finalizers =
           IF resp.finalizers = {} THEN into.finalizers ELSE resp.finalizers
BY DEF Decode, Received, DatabaseCluster

LEMMA AddFinalizerKeeps ==
  ASSUME TypeOK, TrackingInvariant, AddFinalizer
  PROVE  TrackingInvariant'
<1> DEFINE api == Api(key)
           finalizers == cluster.finalizers \cup {FinalizerName}
           patched == PatchField(api.finalizers, cluster.finalizers, finalizers)
           o == Settled([api EXCEPT !.finalizers = patched])
           sent == [cluster EXCEPT !.finalizers = finalizers]
<1>1. /\ VersionsType /\ key \in Clusters /\ api \in DatabaseCluster
      /\ cluster \in DatabaseCluster /\ Provisioning
  BY ApiType DEF TypeOK, VersionsType, AddFinalizer, Provisioning, Steps
<1>2. Patch(api.deleting => patched \subseteq api.finalizers, o, sent, "provision")
  BY DEF AddFinalizer, FinalizerPatch
<1>3. UNCHANGED <<buckets, key>>
  BY <1>2, PatchOutcome
<1>4. CASE UNCHANGED versions /\ pc' = "idle"
  BY <1>3, <1>4, UnchangedKept, LivePath
<1>5. CASE /\ api.exists /\ (api.deleting => patched \subseteq api.finalizers)
           /\ Write(key, o)
           /\ \/ pc' = "idle"
              \/ pc' = "provision" /\ cluster' = Decode(o, sent)
  <2>1. FinalizerName \in patched
    BY <1>1, <1>5 DEF PatchField, TrackingInvariant, WorkerOK, Tracked
  <2>2. o = [api EXCEPT !.finalizers = patched]
    BY <1>1, <2>1 DEF Settled, DatabaseCluster
  <2>3. /\ o \in DatabaseCluster /\ Tracked(o) /\ o.finalizers = patched
        /\ o.deleting = api.deleting
    <3>1. patched \in SUBSET Finalizers
      BY <1>1 DEF PatchField, DatabaseCluster, Finalizers
    <3> QED
      BY <1>1, <1>5, <2>1, <2>2, <3>1 DEF DatabaseCluster, Tracked
  <2>4. pc' = "provision" => FinalizerName \in cluster'.finalizers
    <3> HIDE DEF patched, o, sent
    <3> QED
      BY <1>5, <2>1, <2>3, DecodeFinalizers
  <2>5. CASE Tracked(api)
    <3>1. Harmless(api, o)
      BY <1>1, <1>5, <2>3, <2>5 DEF Harmless, Doomed, Tracked
    <3>2. Kept
      BY <1>1, <1>5, <2>3, <3>1, WriteKept
    <3>3. WorkerOK'
      BY <1>1, <1>3, <1>5, <2>4, <2>5, <3>2
         DEF TrackingInvariant, WorkerOK, Kept, Cleaning, Provisioning
    <3> QED
      BY <1>3, <3>2, <3>3, NoOrphanKept DEF TrackingInvariant, Kept
  <2>6. CASE ~ Tracked(api)
    <3>1. ~ api.deleting /\ LiveTracked(o)
      BY <1>5, <2>1, <2>3, <2>6 DEF Tracked, LiveTracked
    <3>2. /\ versions[key] \in Seq(DatabaseCluster) /\ Len(versions[key]) > 0
          /\ versions'[key] = Append(versions[key], o)
          /\ Api(key)' = o
          /\ \A d \in Clusters \ {key} : versions'[d] = versions[d] /\ Api(d)' = Api(d)
      <4>1. o # api /\ o \in DatabaseCluster /\ Write(key, o)
        BY <1>5, <2>3, <2>6
      <4> HIDE DEF o
      <4>2. PICK k \in Clusters : k = key
        BY <1>1
      <4>3. k = key' /\ Write(k, o) /\ o # Api(k)
        BY <1>3, <4>1, <4>2
      <4>4. /\ versions[k] \in Seq(DatabaseCluster) /\ Len(versions[k]) > 0
            /\ versions'[k] = Append(versions[k], o)
            /\ Api(k)' = o
            /\ \A d \in Clusters \ {k} : versions'[d] = versions[d] /\ Api(d)' = Api(d)
        BY <1>1, <4>1, <4>3, WriteAppends
      <4> QED
        BY <4>2, <4>3, <4>4 DEF Api
    <3>3. NoneDoomed(versions[key])
      BY <1>1, <2>6 DEF TrackingInvariant, WorkerOK, ProvisionOK, Latest, Api, Doomed
    <3>4. HistoryOK(versions'[key]) /\ ProvisionOK(versions'[key])
      BY <2>3, <3>1, <3>2, <3>3, AppendLiveTracked
    <3>5. WorkerOK'
      BY <1>3, <1>5, <2>3, <2>4, <3>2, <3>4 DEF WorkerOK, Cleaning, Provisioning
    <3>6. NoOrphanBucket'
      BY <1>3, <2>3, <3>2 DEF TrackingInvariant, NoOrphanBucket, Bucket
    <3> QED
      BY <3>2, <3>4, <3>5, <3>6 DEF TrackingInvariant
  <2> QED
    BY <2>5, <2>6
<1> QED
  BY <1>2, <1>4, <1>5, PatchOutcome

LEMMA RemoveFinalizerKeeps ==
  ASSUME TypeOK, TrackingInvariant, RemoveFinalizer
  PROVE  TrackingInvariant'
<1> DEFINE api == Api(key)
           finalizers == cluster.finalizers \ {FinalizerName}
           patched == PatchField(api.finalizers, cluster.finalizers, finalizers)
           o == Settled([api EXCEPT !.finalizers = patched])
           sent == [cluster EXCEPT !.finalizers = finalizers]
<1>1. /\ VersionsType /\ key \in Clusters /\ api \in DatabaseCluster
      /\ cluster \in DatabaseCluster
  BY ApiType DEF TypeOK, VersionsType
<1>2. Patch(api.deleting => patched \subseteq api.finalizers, o, sent, "idle")
  BY DEF RemoveFinalizer, FinalizerPatch
<1>3. UNCHANGED <<buckets, key>> /\ pc' = "idle"
  BY <1>2, PatchOutcome
<1>4. CleanupOK(versions[key]) /\ Bucket(key) \notin buckets
  BY DEF RemoveFinalizer, TrackingInvariant, WorkerOK, Cleaning
<1>5. WorkerOK'
  BY <1>3 DEF WorkerOK, Cleaning, Provisioning
<1>6. ASSUME Kept
      PROVE  TrackingInvariant'
  BY <1>3, <1>5, <1>6, NoOrphanKept DEF TrackingInvariant, Kept
<1>7. CASE UNCHANGED versions
  BY <1>6, <1>7, UnchangedKept
<1>8. CASE Write(key, o)
  <2>1. o \in DatabaseCluster
    <3>1. patched \in SUBSET Finalizers
      BY <1>1 DEF PatchField, DatabaseCluster
    <3>2. [api EXCEPT !.finalizers = patched] \in DatabaseCluster
      BY <1>1, <3>1 DEF DatabaseCluster
    <3> QED
      BY <3>2, SettledType
  <2>2. CASE Tracked(o)
    <3>1. patched = api.finalizers
      BY <1>1, <2>2 DEF PatchField, Settled, Tracked, NoObject, DatabaseCluster
    <3>2. o = api
      BY <1>1, <2>2, <3>1 DEF Settled, Tracked, NoObject, DatabaseCluster
    <3> QED
      BY <1>7, <1>8, <3>2 DEF Write
  <2>3. CASE ~ Tracked(o) /\ o # api
    <3>1. /\ versions[key] \in Seq(DatabaseCluster) /\ Len(versions[key]) > 0
          /\ versions'[key] = Append(versions[key], o)
          /\ \A d \in Clusters \ {key} : versions'[d] = versions[d] /\ Api(d)' = Api(d)
      BY <1>1, <1>8, <2>1, <2>3, WriteAppends
    <3>2. HistoryOK(versions'[key])
      BY <1>4, <2>1, <2>3, <3>1, AppendUntracked
    <3>3. NoOrphanBucket'
      BY <1>3, <1>4, <3>1 DEF TrackingInvariant, NoOrphanBucket, Bucket
    <3> QED
      BY <1>5, <3>1, <3>2, <3>3 DEF TrackingInvariant
  <2>4. CASE o = api
    BY <1>7, <1>8, <2>4 DEF Write
  <2> QED
    BY <2>2, <2>3, <2>4
<1> QED
  BY <1>2, <1>7, <1>8, PatchOutcome

LEMMA ProvisionBucketKeeps ==
  ASSUME TypeOK, TrackingInvariant, ProvisionBucket
  PROVE  TrackingInvariant'
<1>1. /\ UNCHANGED <<versions, key, cluster>> /\ pc' = "recordBucket"
      /\ buckets' \subseteq buckets \cup {Bucket(key)}
  BY DEF ProvisionBucket, Goto, Provision, Bucket
<1>2. Provisioning /\ Tracked(Api(key)) /\ key \in Clusters
  BY DEF ProvisionBucket, TrackingInvariant, WorkerOK, Provisioning, Steps, TypeOK
<1>3. \A c \in Clusters : Api(c)' = Api(c)
  BY <1>1 DEF Api
<1>4. NoOrphanBucket'
  BY <1>1, <1>2, <1>3 DEF TrackingInvariant, NoOrphanBucket, Bucket
<1>5. WorkerOK'
  BY <1>1, <1>2, <1>3 DEF TrackingInvariant, WorkerOK, Cleaning, Provisioning
<1> QED
  BY <1>1, <1>4, <1>5 DEF TrackingInvariant

LEMMA DeleteBucketKeeps ==
  ASSUME TypeOK, TrackingInvariant, DeleteBucket
  PROVE  TrackingInvariant'
<1>1. /\ UNCHANGED <<versions, key>> /\ pc' = "removeFinalizer"
      /\ buckets' = buckets \ {Bucket(key)}
  BY DEF DeleteBucket, Goto, Delete, CanDelete, Bucket
<1>2. CleanupOK(versions'[key'])
  BY <1>1 DEF DeleteBucket, TrackingInvariant, WorkerOK, Cleaning
<1>3. Bucket(key)' \notin buckets'
  BY <1>1 DEF Bucket
<1>4. WorkerOK'
  BY <1>1, <1>2, <1>3 DEF WorkerOK, Cleaning, Provisioning
<1> QED
  BY <1>1, <1>4, NoOrphanKept, UnchangedKept DEF TrackingInvariant

LEMMA ReconcileKeeps ==
  ASSUME TypeOK, TrackingInvariant, NEW c \in Clusters, Reconcile(c)
  PROVE  TrackingInvariant'
<1> DEFINE fetched == Cached(c)
<1>1. /\ versions[c] \in Seq(DatabaseCluster) /\ Len(versions[c]) > 0
      /\ HistoryOK(versions[c]) /\ fetched \in DatabaseCluster
  BY ApiType DEF TypeOK, TrackingInvariant, VersionsType
<1>2. /\ UNCHANGED <<versions, buckets>> /\ key' = c /\ pc' = FirstStep(fetched)
      /\ FirstStep(fetched) # "idle" => cluster' = fetched
  BY DEF Reconcile, children
<1>3. Api(c)' = Latest(versions[c])
  BY <1>2 DEF Api, Latest
<1>4. CASE pc' = "idle"
  BY <1>2, <1>4, NoOrphanKept, UnchangedKept
     DEF TrackingInvariant, WorkerOK, Cleaning, Provisioning
<1>5. CASE pc' = "deleteBucket"
  <2>1. Doomed(fetched)
    BY <1>1, <1>2, <1>5 DEF FirstStep, Doomed, Tracked, DatabaseCluster
  <2>2. CleanupOK(versions'[key'])
    BY <1>1, <1>2, <2>1, FetchedOK DEF Cached
  <2> QED
    BY <1>2, <1>5, <2>2, NoOrphanKept, UnchangedKept
       DEF TrackingInvariant, WorkerOK, Cleaning, Provisioning
<1>6. CASE pc' \in {"initialPhase", "configMap"}
  <2>1. fetched.exists /\ ~ fetched.deleting /\ cluster' = fetched
    BY <1>1, <1>2, <1>6 DEF FirstStep, DatabaseCluster
  <2>2. ProvisionOK(versions'[key'])
    BY <1>1, <1>2, <2>1, FetchedOK DEF Cached, Doomed
  <2>3. FinalizerName \in cluster'.finalizers => Tracked(Api(key)')
    BY <1>1, <1>2, <1>3, <2>1, FetchedOK DEF Cached, LiveTracked, Tracked
  <2>4. WorkerOK'
    BY <1>2, <1>3, <1>6, <2>2, <2>3 DEF WorkerOK, Cleaning, Provisioning
  <2> QED
    BY <1>2, <2>4, NoOrphanKept, UnchangedKept DEF TrackingInvariant
<1> QED
  BY <1>1, <1>2, <1>4, <1>5, <1>6 DEF FirstStep, DatabaseCluster

-----------------------------------------------------------------------------
(* The rest of the next-state relation.                                    *)

LEMMA ObserveKeeps ==
  ASSUME TypeOK, TrackingInvariant, Observe
  PROVE  TrackingInvariant'
<1>1. Provisioning /\ UNCHANGED <<versions, buckets, key>>
  BY DEF Observe, Provisioning, Steps, children
<1>2. FinalizerName \in cluster.finalizers => Tracked(Api(key))
  BY <1>1 DEF TrackingInvariant, WorkerOK
<1>3. CASE Refused
  BY <1>1, <1>3, LivePath, UnchangedKept DEF Refused, Return
<1>4. CASE pc' = BackupStep(cluster) /\ cluster' = cluster
  <2>1. Provisioning' /\ (pc' = "provision" => FinalizerName \in cluster'.finalizers)
    BY <1>4 DEF BackupStep, Provisioning, Steps
  <2>2. WorkerOK'
    BY <1>1, <1>2, <1>4, <2>1 DEF TrackingInvariant, WorkerOK, Cleaning, Provisioning, Api
  <2> QED
    BY <1>1, <2>2, NoOrphanKept, UnchangedKept DEF TrackingInvariant
<1> QED
  BY <1>3, <1>4 DEF Observe

\* The steps that patch the status, and which of them set the bucket's flag.
LEMMA StatusSteps ==
  ASSUME TypeOK, InitialPhase \/ MarkUpgrading \/ RecordBucket \/ UpdateStatus
  PROVE  \E status \in DatabaseClusterStatus, next \in {"idle", "statefulSet", "updateStatus"} :
           /\ StatusPatch(status, next)
           /\ RecordBucket \/ status.backupBucketProvisioned = cluster.status.backupBucketProvisioned
<1> DEFINE st == cluster.status
<1>1. /\ st \in DatabaseClusterStatus /\ cluster.generation \in Nat
      /\ cluster.spec.replicas \in Nat /\ cluster.spec.version \in Versions /\ obs.ready \in Nat
      /\ st.conditions \in [ConditionTypes -> Condition]
  BY ReplicasAssumption
     DEF TypeOK, DatabaseCluster, DatabaseClusterSpec, DatabaseClusterStatus
<1>2. CASE InitialPhase
  <2> DEFINE new == [st EXCEPT !.phase = "Provisioning", !.observedGeneration = cluster.generation]
  <2>1. new \in DatabaseClusterStatus /\ new.backupBucketProvisioned = st.backupBucketProvisioned
    BY <1>1 DEF DatabaseClusterStatus, Phases
  <2>2. StatusPatch(new, "idle")
    BY <1>2 DEF InitialPhase
  <2> HIDE DEF new
  <2> QED
    BY <2>1, <2>2
<1>3. CASE MarkUpgrading
  <2> DEFINE new == [st EXCEPT !.phase = "Upgrading",
                       !.conditions = setCondition(@, "Upgrading", "True", cluster.generation, 0)]
  <2>1. setCondition(st.conditions, "Upgrading", "True", cluster.generation, 0)
          \in [ConditionTypes -> Condition]
    BY <1>1, SetConditionType DEF ConditionTypes
  <2>2. new \in DatabaseClusterStatus /\ new.backupBucketProvisioned = st.backupBucketProvisioned
    BY <1>1, <2>1 DEF DatabaseClusterStatus, Phases
  <2>3. StatusPatch(new, "statefulSet")
    BY <1>3 DEF MarkUpgrading
  <2> HIDE DEF new
  <2> QED
    BY <2>2, <2>3
<1>4. CASE RecordBucket
  <2> DEFINE new == [st EXCEPT !.backupBucketProvisioned = TRUE,
                       !.conditions =
                         setCondition(@, "BackupHealthy", "True", cluster.generation, 0)]
  <2>1. setCondition(st.conditions, "BackupHealthy", "True", cluster.generation, 0)
          \in [ConditionTypes -> Condition]
    BY <1>1, SetConditionType DEF ConditionTypes
  <2>2. new \in DatabaseClusterStatus
    BY <1>1, <2>1 DEF DatabaseClusterStatus
  <2>3. StatusPatch(new, "updateStatus")
    BY <1>4 DEF RecordBucket
  <2> HIDE DEF new
  <2> QED
    BY <1>4, <2>2, <2>3
<1>5. CASE UpdateStatus
  <2> DEFINE conds == ConditionsFor(cluster, obs.upgrading, obs.ready, cluster.spec.replicas)
             phase == PhaseFor(obs.upgrading, obs.ready, cluster.spec.replicas)
             new == [st EXCEPT !.readyReplicas = obs.ready,
                               !.currentVersion = cluster.spec.version,
                               !.observedGeneration = cluster.generation,
                               !.phase = phase,
                               !.conditions = conds]
  <2>1. conds \in [ConditionTypes -> Condition]
    BY <1>1, SetConditionType DEF ConditionsFor, ConditionTypes
  <2>2. phase \in Phases
    BY DEF PhaseFor, Phases
  <2>3. StatusPatch(new, "idle")
    BY <1>5 DEF UpdateStatus
  <2> HIDE DEF conds, phase
  <2>4. new \in DatabaseClusterStatus /\ new.backupBucketProvisioned = st.backupBucketProvisioned
    BY <1>1, <2>1, <2>2 DEF DatabaseClusterStatus
  <2> HIDE DEF new
  <2> QED
    BY <2>3, <2>4
<1> QED
  BY <1>2, <1>3, <1>4, <1>5

LEMMA StepKeeps ==
  ASSUME TypeOK, TrackingInvariant, Step
  PROVE  TrackingInvariant'
<1>1. CASE ReconcileConfigMap \/ ReconcileService \/ ReconcileStatefulSet
  BY <1>1, CreateOrUpdateKeeps
     DEF ReconcileConfigMap, ReconcileService, ReconcileStatefulSet, Provisioning, Steps
<1>2. CASE InitialPhase \/ MarkUpgrading \/ RecordBucket \/ UpdateStatus
  <2>1. Provisioning
    BY <1>2 DEF InitialPhase, MarkUpgrading, RecordBucket, UpdateStatus, Provisioning, Steps
  <2> QED
    BY <1>2, <2>1, StatusSteps, StatusPatchKeeps
<1> QED
  BY <1>1, <1>2, ObserveKeeps, AddFinalizerKeeps, ProvisionBucketKeeps, DeleteBucketKeeps,
     RemoveFinalizerKeeps DEF Step

LEMMA RestartKeeps ==
  ASSUME TypeOK, TrackingInvariant, Restart
  PROVE  TrackingInvariant'
<1>1. \A c \in Clusters : versions'[c] = <<Api(c)>> /\ Api(c)' = Api(c)
  BY DEF Restart, Api
<1>2. \A c \in Clusters : HistoryOK(versions'[c])
  BY <1>1, SingletonOK
<1>3. buckets' \subseteq buckets /\ pc' = "idle"
  BY DEF Restart, NewBucketStore
<1>4. NoOrphanBucket'
  BY <1>1, <1>3 DEF TrackingInvariant, NoOrphanBucket, Bucket
<1> QED
  BY <1>2, <1>3, <1>4 DEF TrackingInvariant, WorkerOK, Cleaning, Provisioning

\* Users and other controllers neither begin nor end tracking: they have no
\* use for the operator's finalizer, and a tracked object outlives its deletion.
\* Nor do they write the status.
LEMMA UserWrites ==
  ASSUME TypeOK, NEW c \in Clusters,
         \/ UserCreates(c) \/ UserEdits(c) \/ UserDeletes(c)
         \/ ForeignFinalizerAdded(c) \/ ForeignFinalizerRemoved(c)
  PROVE  /\ UNCHANGED <<buckets, worker>>
         /\ \E o \in DatabaseCluster :
              Write(c, o) /\ Harmless(Api(c), o) /\ (Promised(o) => Promised(Api(c)))
<1> DEFINE api == Api(c)
<1> USE DEF Harmless, Doomed, Promised
<1>1. VersionsType /\ api \in DatabaseCluster
  BY ApiType DEF TypeOK, VersionsType
<1>2. api.uid + 1 \in Nat /\ api.generation + 1 \in Nat /\ FinalizerName # ForeignFinalizer
  BY <1>1 DEF DatabaseCluster, FinalizerName, ForeignFinalizer
<1>3. UNCHANGED <<buckets, worker>>
  BY DEF UserCreates, UserEdits, UserDeletes, ForeignFinalizerAdded, ForeignFinalizerRemoved,
         unaffected
<1>4. SUFFICES \E o \in DatabaseCluster :
                 Write(c, o) /\ Harmless(api, o) /\ (Promised(o) => Promised(api))
  BY <1>3
<1>5. CASE UserCreates(c)
  <2>1. PICK spec \in UserSpecs : Write(c, Created(api.uid + 1, spec))
    BY <1>5 DEF UserCreates
  <2>2. Created(api.uid + 1, spec) \in DatabaseCluster
    BY <1>2, CreatedType, UserSpecsAssumption
  <2>3. /\ Harmless(api, Created(api.uid + 1, spec))
        /\ ~ Promised(Created(api.uid + 1, spec))
    BY <1>5 DEF UserCreates, Tracked, Created, NoStatus
  <2> QED
    BY <2>1, <2>2, <2>3
<1>6. CASE UserEdits(c)
  <2> DEFINE o(spec) == [api EXCEPT !.spec = spec, !.generation = @ + 1]
  <2>1. PICK spec \in UserSpecs : Write(c, o(spec))
    BY <1>6 DEF UserEdits
  <2>2. o(spec) \in DatabaseCluster
    BY <1>1, <1>2, UserSpecsAssumption DEF DatabaseCluster
  <2>3. Harmless(api, o(spec)) /\ (Promised(o(spec)) => Promised(api))
    BY <1>1 DEF Tracked, DatabaseCluster
  <2> QED
    BY <2>1, <2>2, <2>3
<1>7. CASE UserDeletes(c)
  <2> DEFINE marked == [api EXCEPT !.deleting = TRUE, !.generation = @ + 1]
  <2>1. marked \in DatabaseCluster /\ Settled(marked) \in DatabaseCluster
    <3>1. marked \in DatabaseCluster
      BY <1>1, <1>2 DEF DatabaseCluster
    <3> HIDE DEF marked
    <3> QED
      BY <3>1, SettledType
  <2>2. Harmless(api, Settled(marked)) /\ ~ Promised(Settled(marked))
    BY <1>1, <1>7 DEF UserDeletes, Tracked, Settled, NoObject, DatabaseCluster
  <2> QED
    BY <1>7, <2>1, <2>2 DEF UserDeletes
<1>8. CASE ForeignFinalizerAdded(c)
  <2> DEFINE o == [api EXCEPT !.finalizers = @ \cup {ForeignFinalizer}]
  <2>1. o \in DatabaseCluster
    BY <1>1 DEF DatabaseCluster, Finalizers
  <2>2. Harmless(api, o) /\ (Promised(o) => Promised(api))
    BY <1>1, <1>2 DEF Tracked, DatabaseCluster
  <2> QED
    BY <1>8, <2>1, <2>2 DEF ForeignFinalizerAdded
<1>9. CASE ForeignFinalizerRemoved(c)
  <2> DEFINE o == [api EXCEPT !.finalizers = @ \ {ForeignFinalizer}]
  <2>1. o \in DatabaseCluster /\ Settled(o) \in DatabaseCluster
    BY <1>1, SettledType DEF DatabaseCluster
  <2>2. Harmless(api, Settled(o)) /\ (Promised(Settled(o)) => Promised(api))
    BY <1>1, <1>2 DEF Tracked, Settled, NoObject, DatabaseCluster
  <2> QED
    BY <1>9, <2>1, <2>2 DEF ForeignFinalizerRemoved
<1> QED
  BY <1>5, <1>6, <1>7, <1>8, <1>9

LEMMA UserKeeps ==
  ASSUME TypeOK, TrackingInvariant, NEW c \in Clusters,
         \/ UserCreates(c) \/ UserEdits(c) \/ UserDeletes(c)
         \/ ForeignFinalizerAdded(c) \/ ForeignFinalizerRemoved(c)
  PROVE  TrackingInvariant'
<1>1. PICK o \in DatabaseCluster : Write(c, o) /\ Harmless(Api(c), o)
  BY UserWrites
<1>2. Kept /\ UNCHANGED <<buckets, worker>>
  BY <1>1, WriteKept, UserWrites DEF TypeOK, VersionsType
<1> QED
  BY <1>2, Background

LEMMA QuietKeeps ==
  ASSUME TypeOK, TrackingInvariant, NEW c \in Clusters, NEW kind \in Kinds,
         \/ TimerFires(c) \/ SyncChild(c, kind)
         \/ ChildDeleted(c, kind) \/ CollectGarbage(c, kind)
         \/ PodBecomesReady(c) \/ PodStopped(c) \/ PodFails(c)
  PROVE  TrackingInvariant'
<1>1. UNCHANGED <<versions, buckets, worker>>
  BY DEF TimerFires, SyncChild, ChildDeleted, CollectGarbage, PodBecomesReady, PodStopped,
         PodFails, SetPods, unaffected
<1> QED
  BY <1>1, UnchangedKept, Background

LEMMA InitKeeps == Init => TrackingInvariant
<1> SUFFICES ASSUME Init PROVE TrackingInvariant
  OBVIOUS
<1>1. \A c \in Clusters : HistoryOK(versions[c])
  BY SingletonOK DEF Init
<1> QED
  BY <1>1
     DEF Init, TrackingInvariant, WorkerOK, Cleaning, Provisioning, NoOrphanBucket, NewBucketStore

LEMMA NextKeeps == TypeOK /\ TrackingInvariant /\ [Next]_vars => TrackingInvariant'
<1> SUFFICES ASSUME TypeOK, TrackingInvariant, [Next]_vars PROVE TrackingInvariant'
  OBVIOUS
<1>1. CASE UNCHANGED vars
  BY <1>1, UnchangedKept, Background DEF vars
<1>2. ASSUME NEW c \in Clusters, Sync(c)
      PROVE  TrackingInvariant'
  <2>1. Kept
    BY <1>2, SyncKept DEF TypeOK, VersionsType
  <2> QED
    BY <1>2, <2>1, Background DEF Sync
<1>3. CASE Next
  BY <1>2, <1>3, StepKeeps, RestartKeeps, ReconcileKeeps, UserKeeps, QuietKeeps DEF Next, Kinds
<1> QED
  BY <1>1, <1>3

\* The invariant the runs check: what the cache and the reconcile in progress
\* lag behind by never hides who owns a bucket.
\* (databasecluster_controller.go:191-254)
THEOREM TrackingHolds == Spec => []TrackingInvariant
<1>1. TypeOK /\ TrackingInvariant /\ [Next]_vars => TypeOK' /\ TrackingInvariant'
  BY NextType, NextKeeps
<1>2. Init => TypeOK /\ TrackingInvariant
  BY InitType, InitKeeps
<1> QED
  BY <1>1, <1>2, PTL DEF Spec

\* No bucket is orphaned: whatever crashes, is lost, is refused or is read too
\* late, and however often a name is deleted and used again, every bucket is
\* held by an existing DatabaseCluster whose finalizer will clean it up.
\* (databasecluster_types.go:128)
THEOREM NoBucketIsOrphaned == Spec => []NoOrphanBucket
<1>1. TrackingInvariant => NoOrphanBucket
  BY DEF TrackingInvariant
<1> QED
  BY <1>1, TrackingHolds, PTL
=============================================================================
