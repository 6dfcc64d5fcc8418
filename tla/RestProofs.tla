----------------------------- MODULE RestProofs -----------------------------
(***************************************************************************)
(* The operator never goes to sleep on unfinished business, for every      *)
(* value of the constants: whatever is not due is reconciled.              *)
(***************************************************************************)
EXTENDS BackupProofs, ResourcesProofs

-----------------------------------------------------------------------------
(* The inductive invariant. A cluster that nothing makes due has no version *)
(* and no event on its way to the caches, so that a reconcile of it works   *)
(* from the truth; and whatever it had to write would make it due again.    *)

\* A cache differs from the API server only where an event is still to come.
CacheTold ==
  \A c \in Clusters, kind \in Kinds : kind \notin news[c] => seen[c][kind] = live[c][kind]

\* The steps that come after the ConfigMap's, the Service's, the StatefulSet's
\* and the observation.
Mapped == Steps \ {"idle", "initialPhase", "configMap", "deleteBucket", "removeFinalizer"}
Served == Mapped \ {"service"}
Scaled == Served \ {"markUpgrading", "statefulSet"}
Observed == Scaled \ {"observe"}
Backing == Observed \ {"updateStatus"}

\* What a reconcile has established that nothing has disturbed.
Current ==
  LET sts == live[key].statefulSet
  IN /\ cluster = Api(key) /\ cluster.exists
     /\ cluster.deleting <=> Cleaning
     /\ cluster.deleting => Tracked(cluster)
     /\ pc = "initialPhase" => cluster.status.phase = ""
     /\ pc \in Mapped =>
          live[key].configMap.exists /\ live[key].configMap.data \in buildConfigMap(cluster.spec)
     /\ pc \in Served => live[key].service.exists
     /\ pc \in Scaled =>
          sts.exists /\ sts.replicas = cluster.spec.replicas /\ sts.version = cluster.spec.version
     /\ pc \in Observed =>
          obs.ready = ReadyReplicas(sts) /\ (obs.waiting <=> obs.ready < cluster.spec.replicas)
     /\ pc \in Backing => cluster.spec.backup /\ ~ cluster.status.backupBucketProvisioned
     /\ pc = "addFinalizer" => FinalizerName \notin cluster.finalizers
     /\ pc = "updateStatus" /\ cluster.spec.backup => cluster.status.backupBucketProvisioned

\* NothingLeftUndone, with the ConfigMap as the builder left it.
Finished(c) ==
  LET api == Api(c)
      sts == live[c].statefulSet
  IN /\ api.exists /\ ~ api.deleting =>
          /\ live[c].configMap.exists /\ live[c].service.exists /\ sts.exists
          /\ live[c].configMap.data \in buildConfigMap(api.spec)
          /\ sts.replicas = api.spec.replicas /\ sts.version = api.spec.version
          /\ ReadyReplicas(sts) >= api.spec.replicas
          /\ api.status.phase = "Running"
          /\ api.status.readyReplicas = ReadyReplicas(sts)
          /\ api.status.currentVersion = api.spec.version
          /\ api.status.observedGeneration = api.generation
          /\ api.status.conditions["Ready"].status = "True"
          /\ api.status.conditions["Degraded"].status = "False"
          /\ api.spec.backup => api.status.backupBucketProvisioned
     /\ api.deleting => ~ Tracked(api)

RestInvariant ==
  /\ CacheTold
  /\ pc # "idle" /\ ~ Due(key) => Current
  /\ \A c \in Clusters : ~ InHand(c) => Finished(c)

-----------------------------------------------------------------------------
(* What writes, stores and returns make due.                               *)

Untouched(c) == versions'[c] = versions[c] /\ live'[c] = live[c]

LEMMA FinishedStays ==
  ASSUME NEW c \in Clusters, Finished(c), Untouched(c)
  PROVE  Finished(c)'
<1>1. Api(c)' = Api(c)
  BY DEF Api, Untouched
<1> QED
  BY <1>1 DEF Finished, Untouched

LEMMA WriteDue ==
  ASSUME VersionsType, NEW c \in Clusters, NEW o, Write(c, o)
  PROVE  /\ Len(versions'[c]) > 1 \/ (UNCHANGED versions /\ o = Api(c))
         /\ \A d \in Clusters \ {c} : versions'[d] = versions[d]
         /\ \A d \in Clusters : Len(versions[d]) > 1 => Len(versions'[d]) > 1
<1>1. CASE UNCHANGED versions /\ o = Api(c)
  BY <1>1
<1>2. CASE versions' = [versions EXCEPT ![c] = Append(@, o)]
  <2>1. Len(versions[c]) \in Nat /\ Len(versions[c]) > 0
    BY DEF VersionsType
  <2>2. versions'[c] = Append(versions[c], o)
    BY <1>2 DEF VersionsType
  <2>3. Len(versions'[c]) = Len(versions[c]) + 1
    BY <2>2 DEF VersionsType
  <2> QED
    BY <1>2, <2>1, <2>3 DEF VersionsType
<1> QED
  BY <1>1, <1>2 DEF Write

LEMMA StoreDue ==
  ASSUME LiveType, seen \in [Clusters -> ChildObjects], CacheTold, UNCHANGED seen,
         NEW c \in Clusters, NEW kind \in Kinds, NEW o, Store(c, kind, o)
  PROVE  /\ CacheTold'
         /\ news'[c] # {}
         /\ \A d \in Clusters \ {c} : live'[d] = live[d] /\ news'[d] = news[d]
<1>1. news' = [news EXCEPT ![c] = news[c] \cup {kind}]
  BY DEF Store
<1>2. /\ news'[c] = news[c] \cup {kind}
      /\ \A d \in Clusters \ {c} : live'[d] = live[d] /\ news'[d] = news[d]
  BY <1>1 DEF Store, LiveType
<1>3. \A k \in Kinds \ {kind} : live'[c][k] = live[c][k]
  BY DEF Store, LiveType
<1>4. CacheTold'
  BY <1>2, <1>3 DEF CacheTold
<1> QED
  BY <1>2, <1>4

LEMMA AnsweredTimers ==
  ASSUME NEW next, NEW o, Answered(next, o) \/ Goto(next, o) \/ Refused \/ Lost
  PROVE  /\ timers \subseteq timers'
         /\ timers' \subseteq timers \cup {key}
         /\ key \in timers' \/ Answered(next, o) \/ Goto(next, o)
BY DEF Answered, Continue, Goto, Refused, Lost, Return

\* An answer that leaves the key alone has come, and was not followed by a wait.
LEMMA AnsweredQuiet ==
  ASSUME NEW next, NEW o, Answered(next, o), key \notin timers'
  PROVE  IF next = "idle" THEN pc' = "idle" /\ ~ obs.waiting
                          ELSE pc' = next /\ cluster' = o /\ obs' = obs
BY DEF Answered, Continue, Goto, Lost, Return

-----------------------------------------------------------------------------
(* A step of the environment, and a step of the worker.                    *)

LEMMA EnvironmentRests ==
  ASSUME RestInvariant, CacheTold', UNCHANGED worker, key \in Clusters,
         \A c \in Clusters : Due(c)' \/ (~ Due(c) /\ Untouched(c))
  PROVE  RestInvariant'
<1>1. ASSUME pc' # "idle", ~ Due(key)'
      PROVE  Current'
  <2>1. ~ Due(key) /\ Untouched(key) /\ pc # "idle"
    BY <1>1 DEF worker, Due
  <2>2. Current
    BY <2>1 DEF RestInvariant
  <2>3. Api(key)' = Api(key)
    BY <2>1 DEF Api, Untouched, worker
  <2> QED
    BY <2>1, <2>2, <2>3 DEF Current, Untouched, worker, Cleaning
<1>2. ASSUME NEW c \in Clusters, ~ InHand(c)'
      PROVE  Finished(c)'
  <2>1. ~ Due(c) /\ Untouched(c)
    BY <1>2 DEF InHand
  <2>2. ~ InHand(c)
    BY <1>2, <2>1 DEF InHand, worker
  <2> QED
    BY <2>1, <2>2, FinishedStays DEF RestInvariant
<1> QED
  BY <1>1, <1>2 DEF RestInvariant

\* The worker touches its own cluster only, and leaves it due, or has done all
\* of its work so far.
LEMMA WorkerRests ==
  ASSUME RestInvariant, CacheTold', key \in Clusters, pc # "idle", key' = key,
         \A c \in Clusters \ {key} : Untouched(c) /\ (Due(c) => Due(c)'),
         ~ Due(key)' => IF pc' = "idle" THEN Finished(key)' ELSE Current'
  PROVE  RestInvariant'
<1>1. ASSUME pc' # "idle", ~ Due(key)'
      PROVE  Current'
  BY <1>1
<1>2. ASSUME NEW c \in Clusters, ~ InHand(c)'
      PROVE  Finished(c)'
  <2>1. ~ Due(c)' /\ (pc' = "idle" \/ key # c)
    BY <1>2 DEF InHand
  <2>2. CASE c = key
    <3>1. ~ Due(key)' /\ pc' = "idle"
      BY <2>1, <2>2 DEF Due
    <3> QED
      BY <2>2, <3>1 DEF Finished, Api
  <2>3. CASE c # key
    <3>1. ~ InHand(c) /\ Untouched(c)
      BY <2>1, <2>3 DEF InHand
    <3> QED
      BY <3>1, FinishedStays DEF RestInvariant
  <2> QED
    BY <2>2, <2>3
<1> QED
  BY <1>1, <1>2 DEF RestInvariant

-----------------------------------------------------------------------------
(* The two kinds of call a reconcile makes: a patch, a CreateOrUpdate.     *)

\* What a reconcile may rely on while its cluster is not due.
LEMMA StillCurrent ==
  ASSUME RestInvariant, pc # "idle", UNCHANGED <<versions, key>>,
         queue \subseteq queue', timers \subseteq timers', UNCHANGED news, ~ Due(key)'
  PROVE  ~ Due(key) /\ Current
BY DEF RestInvariant, Due

LEMMA PatchRests ==
  ASSUME TypeOK, RestInvariant, pc # "idle",
         NEW allowed, NEW patched, NEW sent, NEW next, Patch(allowed, patched, sent, next),
         /\ ~ Due(key)' /\ UNCHANGED <<versions, live, key>> /\ patched = Api(key)
         /\ IF next = "idle" THEN pc' = "idle" /\ ~ obs.waiting
            ELSE pc' = next /\ cluster' = Decode(patched, sent) /\ obs' = obs
         => IF pc' = "idle" THEN Finished(key)' ELSE Current'
  PROVE  RestInvariant'
<1>1. VersionsType /\ key \in Clusters
  BY DEF TypeOK, VersionsType
<1>2. UNCHANGED <<children, queue, key>>
  BY DEF Patch
<1>3. UNCHANGED versions \/ Write(key, patched)
  BY DEF Patch
<1>4. /\ \A c \in Clusters \ {key} : versions'[c] = versions[c]
      /\ \A c \in Clusters : Len(versions[c]) > 1 => Len(versions'[c]) > 1
  BY <1>1, <1>3, WriteDue
<1>5. timers \subseteq timers' /\ timers' \subseteq timers \cup {key}
  BY AnsweredTimers DEF Patch
<1>6. CacheTold'
  BY <1>2 DEF RestInvariant, CacheTold, children
<1>7. \A c \in Clusters \ {key} : Untouched(c) /\ (Due(c) => Due(c)')
  BY <1>2, <1>4, <1>5 DEF Untouched, Due, children
<1>8. ASSUME ~ Due(key)'
      PROVE  IF pc' = "idle" THEN Finished(key)' ELSE Current'
  <2>1. key \notin timers' /\ ~ Len(versions'[key]) > 1
    BY <1>2, <1>8 DEF Due
  <2>2. Write(key, patched) /\ Answered(next, Decode(patched, sent))
    BY <2>1, AnsweredTimers DEF Patch, Refused, Lost, Return
  <2>3. UNCHANGED versions /\ patched = Api(key)
    BY <1>1, <2>1, <2>2, WriteDue
  <2> QED
    BY <1>2, <1>8, <2>1, <2>2, <2>3, AnsweredQuiet DEF children
<1> QED
  BY <1>1, <1>2, <1>6, <1>7, <1>8, WorkerRests

LEMMA CreateOrUpdateRests ==
  ASSUME TypeOK, RestInvariant, pc # "idle",
         NEW kind \in Kinds, NEW built, NEW mutated, NEW next,
         CreateOrUpdate(kind, built, mutated, next),
         /\ Current /\ UNCHANGED <<versions, live, key, cluster, obs>> /\ pc' = next
         /\ seen[key][kind] = live[key][kind]
         /\ (IF seen[key][kind].exists THEN mutated ELSE built) = seen[key][kind]
         => Current' /\ pc' # "idle"
  PROVE  RestInvariant'
<1>1. LiveType /\ key \in Clusters /\ seen \in [Clusters -> ChildObjects]
  BY DEF TypeOK, LiveType
<1>2. UNCHANGED <<versions, seen, queue, key>>
  BY DEF CreateOrUpdate
<1>3. UNCHANGED <<live, news>> \/ \E o : Store(key, kind, o)
  BY DEF CreateOrUpdate
<1>4. /\ CacheTold'
      /\ UNCHANGED <<live, news>> \/ news'[key] # {}
      /\ \A d \in Clusters \ {key} : live'[d] = live[d] /\ news'[d] = news[d]
  BY <1>1, <1>2, <1>3, StoreDue DEF RestInvariant, CacheTold
<1>5. timers \subseteq timers' /\ timers' \subseteq timers \cup {key}
  BY AnsweredTimers DEF CreateOrUpdate
<1>6. \A c \in Clusters \ {key} : Untouched(c) /\ (Due(c) => Due(c)')
  BY <1>2, <1>4, <1>5 DEF Untouched, Due
<1>7. ASSUME ~ Due(key)'
      PROVE  IF pc' = "idle" THEN Finished(key)' ELSE Current'
  <2>1. key \notin timers' /\ news'[key] = {}
    BY <1>2, <1>7 DEF Due
  <2>2. \A o : ~ Store(key, kind, o)
    BY <1>1, <1>2, <2>1, StoreDue DEF RestInvariant
  <2>3. /\ (IF seen[key][kind].exists THEN mutated ELSE built) = seen[key][kind]
        /\ Goto(next, cluster) /\ UNCHANGED <<live, news>>
    BY <2>1, <2>2, AnsweredTimers DEF CreateOrUpdate, Refused, Lost, Return
  <2>4. seen[key][kind] = live[key][kind]
    BY <1>1, <2>1, <2>3 DEF RestInvariant, CacheTold
  <2>5. Current
    BY <1>2, <1>5, <1>7, <2>3, StillCurrent
  <2> QED
    BY <1>2, <2>3, <2>4, <2>5 DEF Goto
<1> QED
  BY <1>1, <1>2, <1>4, <1>6, <1>7, WorkerRests

\* A patch that leaves the object as it is does not change the local copy.
LEMMA PatchOfNothing ==
  ASSUME NEW o \in DatabaseCluster, NEW status \in DatabaseClusterStatus,
         [o EXCEPT !.status = PatchStatus(@, o.status, status)] = o
  PROVE  status = o.status /\ Decode(o, [o EXCEPT !.status = status]) = o
<1>1. o.status \in DatabaseClusterStatus
  BY DEF DatabaseCluster
<1>2. PatchStatus(o.status, o.status, status) = o.status
  BY DEF DatabaseCluster
<1>3. PatchStatus(o.status, o.status, status) = status
  BY <1>1 DEF PatchStatus, PatchField, DatabaseClusterStatus
<1>4. status = o.status
  BY <1>2, <1>3
<1>5. [o EXCEPT !.status = status] = o
  BY <1>4 DEF DatabaseCluster
<1>6. DecodeStatus(o.status, o.status) = o.status
  BY <1>1 DEF DecodeStatus, Received, DatabaseClusterStatus
<1>7. Decode(o, o) = o
  <2>1. o.deleting \in BOOLEAN /\ o.spec.backup \in BOOLEAN /\ o.spec \in DatabaseClusterSpec
    BY DEF DatabaseCluster, DatabaseClusterSpec
  <2>2. /\ (o.deleting \/ o.deleting) = o.deleting
        /\ (o.spec.backup \/ o.spec.backup) = o.spec.backup
        /\ Received(o.finalizers, o.finalizers, {}) = o.finalizers
    BY <2>1 DEF Received
  <2>3. [o.spec EXCEPT !.backup = o.spec.backup] = o.spec
    BY <2>1 DEF DatabaseClusterSpec
  <2>4. Decode(o, o) = [o EXCEPT !.deleting = o.deleting, !.finalizers = o.finalizers,
                                 !.spec = [o.spec EXCEPT !.backup = o.spec.backup],
                                 !.status = o.status]
    BY <1>6, <2>2 DEF Decode
  <2> QED
    BY <2>3, <2>4 DEF DatabaseCluster
<1> QED
  BY <1>4, <1>5, <1>7

LEMMA StatusPatchRests ==
  ASSUME TypeOK, RestInvariant, pc # "idle",
         NEW status \in DatabaseClusterStatus, NEW next, StatusPatch(status, next),
         /\ ~ Due(key)' /\ UNCHANGED <<versions, live, key>>
         /\ Current /\ status = cluster.status
         /\ IF next = "idle" THEN pc' = "idle" /\ ~ obs.waiting
            ELSE pc' = next /\ cluster' = cluster /\ obs' = obs
         => IF pc' = "idle" THEN Finished(key)' ELSE Current'
  PROVE  RestInvariant'
<1> DEFINE patched == [Api(key) EXCEPT !.status = PatchStatus(@, cluster.status, status)]
           sent == [cluster EXCEPT !.status = status]
<1>1. Patch(TRUE, patched, sent, next)
  BY DEF StatusPatch
<1>2. /\ UNCHANGED <<children, queue, key>> /\ timers \subseteq timers'
      /\ cluster \in DatabaseCluster
  BY <1>1, AnsweredTimers DEF Patch, TypeOK
<1>3. ASSUME ~ Due(key)', UNCHANGED versions, patched = Api(key)
      PROVE  Current /\ status = cluster.status /\ Decode(patched, sent) = cluster
  <2>1. Current
    BY <1>2, <1>3, StillCurrent DEF children
  <2>2. Api(key) = cluster
    BY <2>1 DEF Current
  <2> QED
    BY <1>2, <1>3, <2>1, <2>2, PatchOfNothing
<1> HIDE DEF patched, sent
<1>4. /\ ~ Due(key)' /\ UNCHANGED <<versions, live, key>> /\ patched = Api(key)
      /\ IF next = "idle" THEN pc' = "idle" /\ ~ obs.waiting
         ELSE pc' = next /\ cluster' = Decode(patched, sent) /\ obs' = obs
      => IF pc' = "idle" THEN Finished(key)' ELSE Current'
  BY <1>3
<1> QED
  BY <1>1, <1>4, PatchRests

-----------------------------------------------------------------------------
(* The steps of a reconcile.                                               *)

LEMMA InitialPhaseRests ==
  ASSUME TypeOK, RestInvariant, InitialPhase
  PROVE  RestInvariant'
<1> DEFINE status == [cluster.status EXCEPT !.phase = "Provisioning",
                                            !.observedGeneration = cluster.generation]
<1>1. cluster.status \in DatabaseClusterStatus /\ cluster.generation \in Nat
  BY DEF TypeOK, DatabaseCluster
<1>2. status \in DatabaseClusterStatus /\ status.phase = "Provisioning"
  BY <1>1 DEF DatabaseClusterStatus, Phases
<1>3. StatusPatch(status, "idle") /\ pc = "initialPhase"
  BY DEF InitialPhase
<1>4. Current => status # cluster.status
  BY <1>2, <1>3 DEF Current
<1> HIDE DEF status
<1> QED
  BY <1>2, <1>3, <1>4, StatusPatchRests

LEMMA ConfigMapRests ==
  ASSUME TypeOK, RestInvariant, ReconcileConfigMap
  PROVE  RestInvariant'
<1> DEFINE cached == seen[key].configMap
<1>1. PICK data \in buildConfigMap(cluster.spec) :
        CreateOrUpdate("configMap", ConfigMap(cluster.uid, data),
                       [cached EXCEPT !.data = data], "service")
  BY DEF ReconcileConfigMap
<1>2. /\ pc = "configMap" /\ key \in Clusters
      /\ cached \in [exists : BOOLEAN, owner : Nat, data : ConfigFiles \cup {<<>>}]
  BY DEF ReconcileConfigMap, TypeOK, ChildObjects
<1>3. ASSUME Current, UNCHANGED <<versions, live, key, cluster, obs>>, pc' = "service",
             cached = live[key].configMap,
             (IF cached.exists THEN [cached EXCEPT !.data = data]
                               ELSE ConfigMap(cluster.uid, data)) = cached
      PROVE  Current' /\ pc' # "idle"
  <2>1. cached.exists /\ cached.data = data
    BY <1>2, <1>3 DEF ConfigMap
  <2>2. Api(key)' = Api(key)
    BY <1>3 DEF Api
  <2> QED
    BY <1>1, <1>2, <1>3, <2>1, <2>2
       DEF Current, Cleaning, Mapped, Served, Scaled, Observed, Backing
<1> QED
  BY <1>1, <1>2, <1>3, CreateOrUpdateRests DEF Kinds

LEMMA ServiceRests ==
  ASSUME TypeOK, RestInvariant, ReconcileService
  PROVE  RestInvariant'
<1> DEFINE cached == seen[key].service
           next == IF obs.upgrading THEN "markUpgrading" ELSE "statefulSet"
<1>1. /\ pc = "service"
      /\ CreateOrUpdate("service", buildHeadlessService(cluster.uid), cached, next)
  BY DEF ReconcileService
<1>2. ASSUME Current, UNCHANGED <<versions, live, key, cluster, obs>>, pc' = next,
             cached = live[key].service,
             (IF cached.exists THEN cached ELSE buildHeadlessService(cluster.uid)) = cached
      PROVE  Current' /\ pc' # "idle"
  <2>1. cached.exists
    BY <1>2 DEF buildHeadlessService
  <2>2. Api(key)' = Api(key)
    BY <1>2 DEF Api
  <2> QED
    BY <1>1, <1>2, <2>1, <2>2
       DEF Current, Cleaning, Mapped, Served, Scaled, Observed, Backing, Steps
<1> QED
  BY <1>1, <1>2, CreateOrUpdateRests DEF Kinds

LEMMA MarkUpgradingRests ==
  ASSUME TypeOK, RestInvariant, MarkUpgrading
  PROVE  RestInvariant'
<1> DEFINE status == [cluster.status EXCEPT
                        !.phase = "Upgrading",
                        !.conditions = setCondition(@, "Upgrading", "True", cluster.generation, 0)]
<1>1. cluster.status \in DatabaseClusterStatus /\ cluster.generation \in Nat
  BY DEF TypeOK, DatabaseCluster
<1>2. setCondition(cluster.status.conditions, "Upgrading", "True", cluster.generation, 0)
        \in [ConditionTypes -> Condition]
  BY <1>1, SetConditionType DEF DatabaseClusterStatus, ConditionTypes
<1>3. status \in DatabaseClusterStatus
  BY <1>1, <1>2 DEF DatabaseClusterStatus, Phases
<1>4. StatusPatch(status, "statefulSet") /\ pc = "markUpgrading"
  BY DEF MarkUpgrading
<1> HIDE DEF status
<1>5. ASSUME Current, UNCHANGED <<versions, live, key>>,
             pc' = "statefulSet", cluster' = cluster, obs' = obs
      PROVE  Current'
  <2>1. Api(key)' = Api(key)
    BY <1>5 DEF Api
  <2> QED
    BY <1>4, <1>5, <2>1 DEF Current, Cleaning, Mapped, Served, Scaled, Observed, Backing, Steps
<1> QED
  BY <1>3, <1>4, <1>5, StatusPatchRests

LEMMA StatefulSetRests ==
  ASSUME TypeOK, RestInvariant, ReconcileStatefulSet
  PROVE  RestInvariant'
<1> DEFINE cached == seen[key].statefulSet
<1>1. /\ pc = "statefulSet"
      /\ CreateOrUpdate("statefulSet", buildStatefulSet(cluster.uid, cluster.spec),
                        Mutated(cached, cluster.spec), "observe")
  BY DEF ReconcileStatefulSet
<1>2. cached \in [exists : BOOLEAN, owner : Nat, replicas : Nat,
                  version : Versions \cup {NoVersion}, updated : Nat, outdated : Nat]
  BY DEF TypeOK, ChildObjects
<1>3. ASSUME Current, UNCHANGED <<versions, live, key, cluster, obs>>, pc' = "observe",
             cached = live[key].statefulSet,
             (IF cached.exists THEN Mutated(cached, cluster.spec)
                               ELSE buildStatefulSet(cluster.uid, cluster.spec)) = cached
      PROVE  Current' /\ pc' # "idle"
  <2>1. cached.exists
    BY <1>3 DEF buildStatefulSet
  <2>2. cached.replicas = cluster.spec.replicas /\ cached.version = cluster.spec.version
    <3>1. /\ Mutated(cached, cluster.spec).replicas = cluster.spec.replicas
          /\ Mutated(cached, cluster.spec).version = cluster.spec.version
      BY <1>2 DEF Mutated
    <3> QED
      BY <1>3, <2>1, <3>1
  <2>3. Api(key)' = Api(key)
    BY <1>3 DEF Api
  <2> QED
    BY <1>1, <1>3, <2>1, <2>2, <2>3
       DEF Current, Cleaning, Mapped, Served, Scaled, Observed, Backing, Steps
<1> QED
  BY <1>1, <1>3, CreateOrUpdateRests DEF Kinds

LEMMA ObserveRests ==
  ASSUME TypeOK, RestInvariant, Observe
  PROVE  RestInvariant'
<1> DEFINE sts == seen[key].statefulSet
           ready == ReadyReplicas(sts)
<1>1. /\ pc = "observe" /\ key \in Clusters
      /\ UNCHANGED <<versions, children, buckets, queue, key>>
  BY DEF Observe, TypeOK
<1>2. timers \subseteq timers' /\ timers' \subseteq timers \cup {key}
  BY DEF Observe, Refused, Return
<1>3. CacheTold'
  BY <1>1 DEF RestInvariant, CacheTold, children
<1>4. \A c \in Clusters \ {key} : Untouched(c) /\ (Due(c) => Due(c)')
  BY <1>1, <1>2 DEF Untouched, Due, children
<1>5. ASSUME ~ Due(key)'
      PROVE  IF pc' = "idle" THEN Finished(key)' ELSE Current'
  <2>1. Current /\ ~ Due(key)
    BY <1>1, <1>2, <1>5, StillCurrent DEF children
  <2>2. sts = live[key].statefulSet
    BY <1>1, <2>1 DEF RestInvariant, CacheTold, Due, Kinds
  <2>3. ~ Refused
    BY <1>1, <1>5 DEF Refused, Return, Due
  <2>4. /\ pc' = BackupStep(cluster) /\ UNCHANGED cluster
        /\ obs' = [obs EXCEPT !.ready = ready, !.waiting = ready < cluster.spec.replicas]
    BY <2>3 DEF Observe
  <2>5. obs'.ready = ready /\ (obs'.waiting <=> obs'.ready < cluster.spec.replicas)
    BY <2>4 DEF TypeOK
  <2>6. Api(key)' = Api(key)
    BY <1>1 DEF Api
  <2> QED
    BY <1>1, <2>1, <2>2, <2>4, <2>5, <2>6
       DEF Current, Cleaning, Mapped, Served, Scaled, Observed, Backing, Steps, BackupStep, children
<1> QED
  BY <1>1, <1>3, <1>4, <1>5, WorkerRests

\* A patch that adds or takes away a finalizer is an event.
LEMMA FinalizerPatchRests ==
  ASSUME TypeOK, RestInvariant, pc # "idle",
         NEW finalizers \in SUBSET Finalizers, NEW next, FinalizerPatch(finalizers, next),
         Current => finalizers # cluster.finalizers
  PROVE  RestInvariant'
<1> DEFINE api == Api(key)
           list == PatchField(api.finalizers, cluster.finalizers, finalizers)
           patched == Settled([api EXCEPT !.finalizers = list])
           sent == [cluster EXCEPT !.finalizers = finalizers]
<1>1. Patch(api.deleting => list \subseteq api.finalizers, patched, sent, next)
  BY DEF FinalizerPatch
<1>2. UNCHANGED <<children, queue, key>> /\ timers \subseteq timers'
  BY <1>1, AnsweredTimers DEF Patch
<1>3. ASSUME ~ Due(key)', UNCHANGED versions
      PROVE  patched # api
  <2>1. Current
    BY <1>2, <1>3, StillCurrent DEF children
  <2>2. api = cluster /\ list = finalizers /\ api.exists /\ api \in DatabaseCluster
    BY <2>1 DEF Current, PatchField, TypeOK
  <2> QED
    BY <2>1, <2>2 DEF Settled, NoObject, DatabaseCluster
<1> HIDE DEF patched, sent
<1> QED
  BY <1>1, <1>3, PatchRests

LEMMA AddFinalizerRests ==
  ASSUME TypeOK, RestInvariant, AddFinalizer
  PROVE  RestInvariant'
<1> DEFINE finalizers == cluster.finalizers \cup {FinalizerName}
<1>1. pc = "addFinalizer" /\ FinalizerPatch(finalizers, "provision")
  BY DEF AddFinalizer
<1>2. finalizers \in SUBSET Finalizers
  BY DEF TypeOK, DatabaseCluster, Finalizers
<1>3. Current => finalizers # cluster.finalizers
  BY <1>1 DEF Current
<1> QED
  BY <1>1, <1>2, <1>3, FinalizerPatchRests

LEMMA RemoveFinalizerRests ==
  ASSUME TypeOK, RestInvariant, RemoveFinalizer
  PROVE  RestInvariant'
<1> DEFINE finalizers == cluster.finalizers \ {FinalizerName}
<1>1. pc = "removeFinalizer" /\ FinalizerPatch(finalizers, "idle")
  BY DEF RemoveFinalizer
<1>2. finalizers \in SUBSET Finalizers
  BY DEF TypeOK, DatabaseCluster
<1>3. Current => finalizers # cluster.finalizers
  BY <1>1 DEF Current, Cleaning, Tracked
<1> QED
  BY <1>1, <1>2, <1>3, FinalizerPatchRests

\* The two steps that call the bucket registry.
LEMMA BucketRests ==
  ASSUME TypeOK, RestInvariant, ProvisionBucket \/ DeleteBucket
  PROVE  RestInvariant'
<1>1. /\ pc \in {"provision", "deleteBucket"} /\ key \in Clusters
      /\ UNCHANGED <<versions, children, queue, key>>
      /\ timers \subseteq timers' /\ timers' \subseteq timers \cup {key}
  BY DEF ProvisionBucket, DeleteBucket, Goto, Return, TypeOK
<1>2. CacheTold'
  BY <1>1 DEF RestInvariant, CacheTold, children
<1>3. \A c \in Clusters \ {key} : Untouched(c) /\ (Due(c) => Due(c)')
  BY <1>1 DEF Untouched, Due, children
<1>4. ASSUME ~ Due(key)'
      PROVE  Current' /\ pc' # "idle"
  <2>1. Current
    BY <1>1, <1>4, StillCurrent DEF children
  <2>2. ~ Return(TRUE)
    BY <1>1, <1>4 DEF Return, Due
  <2>3. /\ UNCHANGED <<cluster, obs>>
        /\ \/ pc = "provision" /\ pc' = "recordBucket"
           \/ pc = "deleteBucket" /\ pc' = "removeFinalizer"
    BY <2>2 DEF ProvisionBucket, DeleteBucket, Goto
  <2>4. Api(key)' = Api(key)
    BY <1>1 DEF Api
  <2> QED
    BY <1>1, <2>1, <2>3, <2>4
       DEF Current, Cleaning, Mapped, Served, Scaled, Observed, Backing, Steps, children
<1> QED
  BY <1>1, <1>2, <1>3, <1>4, WorkerRests

LEMMA RecordBucketRests ==
  ASSUME TypeOK, RestInvariant, RecordBucket
  PROVE  RestInvariant'
<1> DEFINE status == [cluster.status EXCEPT
                        !.backupBucketProvisioned = TRUE,
                        !.conditions = setCondition(@, "BackupHealthy", "True", cluster.generation, 0)]
<1>1. cluster.status \in DatabaseClusterStatus /\ cluster.generation \in Nat
  BY DEF TypeOK, DatabaseCluster
<1>2. setCondition(cluster.status.conditions, "BackupHealthy", "True", cluster.generation, 0)
        \in [ConditionTypes -> Condition]
  BY <1>1, SetConditionType DEF DatabaseClusterStatus, ConditionTypes
<1>3. status \in DatabaseClusterStatus /\ status.backupBucketProvisioned
  BY <1>1, <1>2 DEF DatabaseClusterStatus
<1>4. StatusPatch(status, "updateStatus") /\ pc = "recordBucket"
  BY DEF RecordBucket
<1>5. Current => status # cluster.status
  BY <1>3, <1>4 DEF Current, Backing, Observed, Scaled, Served, Mapped, Steps
<1> HIDE DEF status
<1> QED
  BY <1>3, <1>4, <1>5, StatusPatchRests

\* The last patch of a reconcile changes nothing only if all of it was so.
LEMMA UpdateStatusRests ==
  ASSUME TypeOK, RestInvariant, UpdateStatus
  PROVE  RestInvariant'
<1> DEFINE st == cluster.status
           desired == cluster.spec.replicas
           phase == PhaseFor(obs.upgrading, obs.ready, desired)
           conditions == ConditionsFor(cluster, obs.upgrading, obs.ready, desired)
           status == [st EXCEPT !.readyReplicas = obs.ready,
                                !.currentVersion = cluster.spec.version,
                                !.observedGeneration = cluster.generation,
                                !.phase = phase, !.conditions = conditions]
<1>1. /\ st \in DatabaseClusterStatus /\ cluster.generation \in Nat
      /\ st.conditions \in [ConditionTypes -> Condition]
      /\ cluster.spec.version \in Versions
      /\ desired \in Nat /\ desired > 0 /\ obs.ready \in Nat /\ obs.waiting \in BOOLEAN
  BY ReplicasAssumption DEF TypeOK, DatabaseCluster, DatabaseClusterSpec, DatabaseClusterStatus
<1>2. conditions \in [ConditionTypes -> Condition]
  BY <1>1, SetConditionType DEF ConditionsFor, ConditionTypes
<1>3. phase \in Phases
  BY DEF PhaseFor, Phases
<1>4. ASSUME obs.ready >= desired
      PROVE  /\ phase = "Running"
             /\ conditions["Ready"].status = "True"
             /\ conditions["Degraded"].status = "False"
  BY <1>1, <1>4 DEF PhaseFor, ConditionsFor, setCondition, ConditionTypes
<1> HIDE DEF phase, conditions
<1>5. /\ status \in DatabaseClusterStatus
      /\ status.readyReplicas = obs.ready
      /\ status.currentVersion = cluster.spec.version
      /\ status.observedGeneration = cluster.generation
      /\ status.phase = phase /\ status.conditions = conditions
  BY <1>1, <1>2, <1>3 DEF DatabaseClusterStatus
<1>6. StatusPatch(status, "idle") /\ pc = "updateStatus"
  BY DEF UpdateStatus, phase, conditions
<1> HIDE DEF status
<1>7. ASSUME Current, UNCHANGED <<versions, live, key>>, status = st, ~ obs.waiting
      PROVE  Finished(key)'
  <2>1. Api(key)' = cluster
    BY <1>7 DEF Current, Api
  <2>2. /\ pc \in Mapped /\ pc \in Served /\ pc \in Scaled /\ pc \in Observed
        /\ ~ cluster.deleting
    BY <1>6, <1>7 DEF Current, Cleaning, Mapped, Served, Scaled, Observed, Steps
  <2>3. /\ live'[key] = live[key]
        /\ obs.ready = ReadyReplicas(live[key].statefulSet) /\ obs.ready >= desired
    <3>1. /\ obs.ready = ReadyReplicas(live[key].statefulSet)
          /\ obs.waiting <=> obs.ready < desired
      BY <1>7, <2>2 DEF Current
    <3> QED
      BY <1>1, <1>7, <3>1
  <2> QED
    BY <1>4, <1>5, <1>6, <1>7, <2>1, <2>2, <2>3 DEF Current, Finished
<1> QED
  BY <1>5, <1>6, <1>7, StatusPatchRests

LEMMA StepRests ==
  ASSUME TypeOK, RestInvariant, Step
  PROVE  RestInvariant'
BY InitialPhaseRests, ConfigMapRests, ServiceRests, MarkUpgradingRests, StatefulSetRests,
   ObserveRests, AddFinalizerRests, BucketRests, RecordBucketRests, UpdateStatusRests,
   RemoveFinalizerRests DEF Step

-----------------------------------------------------------------------------
(* The work queue, the caches, the process; users and Kubernetes.          *)

\* A reconcile of a cluster that is due no more has fetched its last version.
LEMMA ReconcileRests ==
  ASSUME TypeOK, RestInvariant, NEW c \in Clusters, Reconcile(c)
  PROVE  RestInvariant'
<1> DEFINE fetched == Cached(c)
<1>1. /\ pc = "idle" /\ key' = c /\ pc' = FirstStep(fetched)
      /\ queue' = queue \ {c}
      /\ UNCHANGED <<versions, children, timers>>
  BY DEF Reconcile
<1>2. CacheTold'
  BY <1>1 DEF RestInvariant, CacheTold, children
<1>3. ASSUME ~ Due(c)'
      PROVE  IF pc' = "idle" THEN Finished(c)' ELSE Current'
  <2>1. versions[c] \in Seq(DatabaseCluster) /\ Len(versions[c]) = 1
    <3>1. ~ (Len(versions[c]) > 1)
      BY <1>1, <1>3 DEF Due
    <3>2. versions[c] \in Seq(DatabaseCluster) /\ Len(versions[c]) > 0
      BY DEF TypeOK
    <3>3. Len(versions[c]) \in Nat
      BY <3>2
    <3>4. \A n \in Nat : n > 0 /\ ~ (n > 1) => n = 1
      OBVIOUS
    <3> QED
      BY <3>1, <3>2, <3>3, <3>4, Zenon
  <2>2. fetched \in DatabaseCluster /\ fetched = Api(c) /\ Api(c)' = fetched
    <3>1. Head(versions[c]) = versions[c][1] /\ versions[c][1] \in DatabaseCluster
      BY <2>1
    <3> QED
      BY <1>1, <2>1, <3>1 DEF Cached, Api
  <2>3. CASE pc' = "idle"
    <3>1. ~ fetched.exists \/ (fetched.deleting /\ ~ Tracked(fetched))
      BY <1>1, <2>2, <2>3 DEF FirstStep, Tracked, DatabaseCluster
    <3> QED
      BY <2>2, <2>3, <3>1 DEF Finished, Tracked
  <2>4. CASE pc' # "idle"
    <3>1. cluster' = fetched
      BY <1>1, <2>4 DEF Reconcile
    <3>2. /\ fetched.exists
          /\ \/ fetched.deleting /\ pc' = "deleteBucket" /\ Tracked(fetched)
             \/ ~ fetched.deleting /\ pc' = "initialPhase" /\ fetched.status.phase = ""
             \/ ~ fetched.deleting /\ pc' = "configMap"
      BY <1>1, <2>2, <2>4 DEF FirstStep, Tracked, DatabaseCluster
    <3>3. pc' \notin Mapped
      BY <3>2 DEF Mapped
    <3> QED
      BY <1>1, <2>2, <2>4, <3>1, <3>2, <3>3
         DEF Current, Cleaning, Served, Scaled, Observed, Backing
  <2> QED
    BY <2>3, <2>4
<1>4. ASSUME NEW d \in Clusters, ~ InHand(d)'
      PROVE  Finished(d)'
  <2>1. CASE d = c
    BY <1>1, <1>3, <1>4, <2>1 DEF InHand
  <2>2. CASE d # c
    BY <1>1, <1>4, <2>2, FinishedStays DEF RestInvariant, InHand, Due, Untouched, children
  <2> QED
    BY <2>1, <2>2
<1> QED
  BY <1>1, <1>2, <1>3, <1>4 DEF RestInvariant

\* What a restart does not enqueue does not exist.
LEMMA RestartRests ==
  ASSUME TypeOK, Restart
  PROVE  RestInvariant'
<1>1. CacheTold'
  BY DEF Restart, CacheTold
<1>2. pc' = "idle"
  BY DEF Restart
<1>3. ASSUME NEW c \in Clusters, ~ InHand(c)'
      PROVE  Finished(c)'
  <2>1. versions'[c] = <<Api(c)>> /\ c \notin queue'
    BY <1>3 DEF Restart, InHand, Due
  <2>2. Api(c)' = Api(c)
    BY <2>1 DEF Api
  <2>3. ~ Api(c).exists
    BY <2>1 DEF Restart
  <2> QED
    BY <2>2, <2>3 DEF Finished, Tracked
<1> QED
  BY <1>1, <1>2, <1>3 DEF RestInvariant

\* What takes an event, or a timer, away puts the key on the queue.
LEMMA EventRests ==
  ASSUME TypeOK, RestInvariant, NEW c \in Clusters, NEW kind \in Kinds,
         Sync(c) \/ SyncChild(c, kind) \/ TimerFires(c)
  PROVE  RestInvariant'
<1>1. UNCHANGED worker /\ UNCHANGED live /\ c \in queue' /\ queue \subseteq queue' /\ key \in Clusters
  BY DEF Sync, SyncChild, TimerFires, children, TypeOK
<1>2. \A d \in Clusters \ {c} :
        /\ versions'[d] = versions[d] /\ news'[d] = news[d] /\ seen'[d] = seen[d]
        /\ d \in timers => d \in timers'
  BY DEF Sync, SyncChild, TimerFires, children, TypeOK
<1>3. \A d \in Clusters : Due(d)' \/ (~ Due(d) /\ Untouched(d))
  BY <1>1, <1>2 DEF Due, Untouched
<1>4. \A k \in Kinds : k \notin news'[c] => seen'[c][k] = live[c][k]
  <2>1. CASE UNCHANGED <<news, seen>>
    BY <2>1 DEF RestInvariant, CacheTold
  <2>2. CASE SyncChild(c, kind)
    <3> SUFFICES ASSUME NEW k \in Kinds, k \notin news'[c]
                 PROVE  seen'[c][k] = live[c][k]
      OBVIOUS
    <3>1. /\ seen' = [seen EXCEPT ![c] = [seen[c] EXCEPT ![kind] = live[c][kind]]]
          /\ news'[c] = news[c] \ {kind}
      BY <2>2 DEF SyncChild, TypeOK
    <3>2. seen'[c] = [seen[c] EXCEPT ![kind] = live[c][kind]]
      BY <3>1 DEF TypeOK
    <3>3. CASE k = kind
      <4>1. kind \in DOMAIN seen[c]
        BY DEF TypeOK, ChildObjects, Kinds
      <4> QED
        BY <3>2, <3>3, <4>1
    <3>4. CASE k # kind
      <4>1. seen'[c][k] = seen[c][k]
        BY <3>2, <3>4
      <4> QED
        BY <3>1, <3>4, <4>1 DEF RestInvariant, CacheTold
    <3> QED
      BY <3>3, <3>4
  <2> QED
    BY <2>1, <2>2 DEF Sync, TimerFires, children
<1>5. CacheTold'
  BY <1>1, <1>2, <1>4 DEF RestInvariant, CacheTold
<1> QED
  BY <1>1, <1>3, <1>5, EnvironmentRests

LEMMA UserRests ==
  ASSUME TypeOK, RestInvariant, NEW c \in Clusters,
         \/ UserCreates(c) \/ UserEdits(c) \/ UserDeletes(c)
         \/ ForeignFinalizerAdded(c) \/ ForeignFinalizerRemoved(c)
  PROVE  RestInvariant'
<1>1. VersionsType /\ key \in Clusters
  BY DEF TypeOK, VersionsType
<1>2. UNCHANGED <<children, queue, timers, worker>> /\ \E o : Write(c, o)
  BY DEF UserCreates, UserEdits, UserDeletes, ForeignFinalizerAdded, ForeignFinalizerRemoved,
         unaffected
<1>3. /\ Len(versions'[c]) > 1 \/ UNCHANGED versions
      /\ \A d \in Clusters \ {c} : versions'[d] = versions[d]
  BY <1>1, <1>2, WriteDue
<1>4. \A d \in Clusters : Due(d)' \/ (~ Due(d) /\ Untouched(d))
  BY <1>2, <1>3 DEF Due, Untouched, children
<1>5. CacheTold'
  BY <1>2 DEF RestInvariant, CacheTold, children
<1> QED
  BY <1>1, <1>2, <1>4, <1>5, EnvironmentRests DEF worker

LEMMA ChildEventRests ==
  ASSUME TypeOK, RestInvariant, NEW c \in Clusters, NEW kind \in Kinds,
         \/ ChildDeleted(c, kind) \/ CollectGarbage(c, kind)
         \/ PodBecomesReady(c) \/ PodStopped(c) \/ PodFails(c)
  PROVE  RestInvariant'
<1>1. LiveType /\ seen \in [Clusters -> ChildObjects] /\ key \in Clusters
  BY DEF TypeOK, LiveType
<1>2. /\ UNCHANGED <<versions, seen, queue, timers, worker>>
      /\ \E k \in Kinds : \E o : Store(c, k, o)
  BY DEF ChildDeleted, CollectGarbage, PodBecomesReady, PodStopped, PodFails, SetPods,
         unaffected, Kinds
<1>3. /\ CacheTold' /\ news'[c] # {}
      /\ \A d \in Clusters \ {c} : live'[d] = live[d] /\ news'[d] = news[d]
  BY <1>1, <1>2, StoreDue DEF RestInvariant
<1>4. \A d \in Clusters : Due(d)' \/ (~ Due(d) /\ Untouched(d))
  BY <1>2, <1>3 DEF Due, Untouched
<1> QED
  BY <1>1, <1>2, <1>3, <1>4, EnvironmentRests

-----------------------------------------------------------------------------
LEMMA RestInit == Init => RestInvariant
<1> SUFFICES ASSUME Init PROVE RestInvariant
  OBVIOUS
<1>1. CacheTold /\ pc = "idle"
  BY DEF Init, CacheTold
<1>2. ASSUME NEW c \in Clusters
      PROVE  Finished(c)
  <2>1. Api(c) = NoObject(0)
    BY DEF Init, Api
  <2> QED
    BY <2>1 DEF Finished, NoObject
<1> QED
  BY <1>1, <1>2 DEF RestInvariant

LEMMA RestNext == TypeOK /\ RestInvariant /\ [Next]_vars => RestInvariant'
<1> SUFFICES ASSUME TypeOK, RestInvariant, [Next]_vars PROVE RestInvariant'
  OBVIOUS
<1>1. CASE UNCHANGED vars
  <2>1. \A c \in Clusters : (Due(c)' <=> Due(c)) /\ Untouched(c)
    BY <1>1 DEF vars, children, Due, Untouched
  <2>2. CacheTold'
    BY <1>1 DEF vars, children, RestInvariant, CacheTold
  <2>3. UNCHANGED worker /\ key \in Clusters
    BY <1>1 DEF vars, TypeOK
  <2> QED
    BY <2>1, <2>2, <2>3, EnvironmentRests
<1>2. CASE Next
  <2>1. "configMap" \in Kinds
    BY DEF Kinds
  <2> QED
    BY <1>2, <2>1, StepRests, RestartRests, ReconcileRests, EventRests, UserRests, ChildEventRests
       DEF Next
<1> QED
  BY <1>1, <1>2

LEMMA FinishedIsReconciled ==
  ASSUME TypeOK, NEW c \in Clusters, Finished(c)
  PROVE  /\ Api(c).exists /\ ~ Api(c).deleting => Reconciled(c)
         /\ Api(c).deleting => ~ Tracked(Api(c))
<1>1. Api(c).spec \in DatabaseClusterSpec
  BY ApiType DEF TypeOK, VersionsType, DatabaseCluster
<1>2. ASSUME Api(c).exists, ~ Api(c).deleting
      PROVE  IsFileFor(live[c].configMap.data, Api(c).spec.config)
  BY <1>1, <1>2, ConfigMapIsComplete DEF Finished
<1> QED
  BY <1>2 DEF Finished, Reconciled, Kinds

\* The operator never goes to sleep on unfinished business: when nothing makes
\* a cluster due and no reconcile of it is in progress, it is what its spec
\* asks for and says so, or it is cleaned up. No assumption on the settings,
\* the failures, the lag of the caches or the number of clusters is needed.
\* (databasecluster_controller.go:63-188)
THEOREM NothingIsLeftUndone == Spec => []NothingLeftUndone
<1>1. TypeOK /\ RestInvariant => NothingLeftUndone
  BY FinishedIsReconciled DEF RestInvariant, NothingLeftUndone
<1>2. Spec => []TypeOK
  BY TypeCorrect
<1>3. Spec => []RestInvariant
  BY <1>2, RestInit, RestNext, PTL DEF Spec
<1> QED
  BY <1>1, <1>2, <1>3, PTL
=============================================================================
