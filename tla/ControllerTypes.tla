--------------------------- MODULE ControllerTypes ---------------------------
(***************************************************************************)
(* Type correctness of DatabaseClusterSystem, for every value of its       *)
(* constants.                                                              *)
(***************************************************************************)
EXTENDS DatabaseClusterSystem, TLAPS

LEMMA AnySpecType == AnySpec \in DatabaseClusterSpec
<1>1. PICK v \in Versions : TRUE
  BY VersionsAssumption
<1>2. PICK g \in Configs : TRUE
  BY ConfigsAssumption
<1>3. [replicas |-> 1, version |-> v, backup |-> FALSE, config |-> g] \in DatabaseClusterSpec
  BY <1>1, <1>2, ReplicasAssumption DEF DatabaseClusterSpec
<1> QED
  BY <1>3 DEF AnySpec

LEMMA NoStatusType == NoStatus \in DatabaseClusterStatus
BY DEF NoStatus, DatabaseClusterStatus, NoConditions, Unset, Condition, Phases, NoVersion

LEMMA NoObjectType ==
  ASSUME NEW uid \in Nat
  PROVE  NoObject(uid) \in DatabaseCluster
BY AnySpecType, NoStatusType DEF NoObject, DatabaseCluster

LEMMA CreatedType ==
  ASSUME NEW uid \in Nat, NEW spec \in DatabaseClusterSpec
  PROVE  Created(uid, spec) \in DatabaseCluster
BY NoStatusType DEF Created, DatabaseCluster

LEMMA SetConditionType ==
  ASSUME NEW conditions \in [ConditionTypes -> Condition], NEW type \in ConditionTypes,
         NEW status \in {"True", "False"}, NEW g \in Nat, NEW quoted \in Nat
  PROVE  setCondition(conditions, type, status, g, quoted) \in [ConditionTypes -> Condition]
BY DEF setCondition, Condition

LEMMA PatchStatusType ==
  ASSUME NEW a \in DatabaseClusterStatus, NEW b \in DatabaseClusterStatus,
         NEW n \in DatabaseClusterStatus
  PROVE  PatchStatus(a, b, n) \in DatabaseClusterStatus
BY DEF PatchStatus, PatchField, DatabaseClusterStatus

LEMMA DecodeType ==
  ASSUME NEW resp \in DatabaseCluster, NEW into \in DatabaseCluster
  PROVE  Decode(resp, into) \in DatabaseCluster
<1>1. DecodeStatus(resp.status, into.status) \in DatabaseClusterStatus
  BY DEF DecodeStatus, Received, DatabaseCluster, DatabaseClusterStatus
<1>2. Received(resp.finalizers, into.finalizers, {}) \in SUBSET Finalizers
  BY DEF Received, DatabaseCluster
<1>3. [resp.spec EXCEPT !.backup = @ \/ into.spec.backup] \in DatabaseClusterSpec
  BY DEF DatabaseCluster, DatabaseClusterSpec
<1> QED
  BY <1>1, <1>2, <1>3 DEF Decode, DatabaseCluster

LEMMA SettledType ==
  ASSUME NEW o \in DatabaseCluster
  PROVE  Settled(o) \in DatabaseCluster
BY NoObjectType DEF Settled, DatabaseCluster

-----------------------------------------------------------------------------
(* The parts of TypeOK that the building blocks change, one at a time.     *)

VersionsType ==
  /\ versions \in [Clusters -> Seq(DatabaseCluster)]
  /\ \A c \in Clusters : Len(versions[c]) > 0

WorkerType ==
  /\ pc \in Steps
  /\ cluster \in DatabaseCluster
  /\ obs \in [upgrading : BOOLEAN, ready : Nat, waiting : BOOLEAN]
  /\ timers \subseteq Clusters

LiveType ==
  /\ live \in [Clusters -> ChildObjects]
  /\ news \in [Clusters -> SUBSET Kinds]

BudgetType == budget \in [BudgetKinds -> Nat]

LEMMA ApiType ==
  ASSUME VersionsType, NEW c \in Clusters
  PROVE  Api(c) \in DatabaseCluster /\ Cached(c) \in DatabaseCluster
BY DEF VersionsType, Api, Cached

LEMMA WriteType ==
  ASSUME VersionsType, NEW c \in Clusters, NEW o \in DatabaseCluster, Write(c, o)
  PROVE  VersionsType'
<1>1. CASE UNCHANGED versions
  BY <1>1 DEF VersionsType
<1>2. CASE versions' = [versions EXCEPT ![c] = Append(@, o)]
  <2>1. Append(versions[c], o) \in Seq(DatabaseCluster) /\ Len(Append(versions[c], o)) > 0
    BY DEF VersionsType
  <2> QED
    BY <1>2, <2>1 DEF VersionsType
<1> QED
  BY <1>1, <1>2 DEF Write

LEMMA ReturnType ==
  ASSUME WorkerType, key \in Clusters, NEW again, Return(again)
  PROVE  WorkerType'
BY NoObjectType DEF WorkerType, Return, Steps, NotObserved

LEMMA GotoType ==
  ASSUME WorkerType, NEW next \in Steps, NEW o \in DatabaseCluster, Goto(next, o)
  PROVE  WorkerType'
BY DEF WorkerType, Goto

LEMMA SpendType ==
  ASSUME BudgetType, NEW kind \in BudgetKinds, Spend(kind)
  PROVE  BudgetType'
BY DEF BudgetType, Spend

LEMMA RefusedType ==
  ASSUME WorkerType, BudgetType, key \in Clusters, Refused
  PROVE  WorkerType' /\ BudgetType'
BY ReturnType DEF Refused, BudgetType

LEMMA LostType ==
  ASSUME WorkerType, BudgetType, key \in Clusters, Lost
  PROVE  WorkerType' /\ BudgetType'
BY ReturnType, SpendType DEF Lost, BudgetKinds

LEMMA AnsweredType ==
  ASSUME WorkerType, BudgetType, key \in Clusters,
         NEW next \in Steps, NEW o \in DatabaseCluster, Answered(next, o)
  PROVE  WorkerType' /\ BudgetType'
BY ReturnType, GotoType, LostType DEF Answered, Continue, BudgetType

LEMMA PatchType ==
  ASSUME TypeOK, NEW allowed, NEW patched \in DatabaseCluster, NEW sent \in DatabaseCluster,
         NEW next \in Steps, Patch(allowed, patched, sent, next)
  PROVE  TypeOK'
<1>1. VersionsType /\ WorkerType /\ BudgetType /\ key \in Clusters
  BY DEF TypeOK, VersionsType, WorkerType, BudgetType
<1>2. VersionsType'
  BY <1>1, WriteType DEF Patch, VersionsType
<1>3. Decode(patched, sent) \in DatabaseCluster
  BY DecodeType
<1>4. WorkerType' /\ BudgetType'
  BY <1>1, <1>3, AnsweredType, RefusedType, LostType DEF Patch
<1> QED
  BY <1>2, <1>4 DEF Patch, TypeOK, VersionsType, WorkerType, BudgetType, children

LEMMA StatusPatchType ==
  ASSUME TypeOK, NEW status \in DatabaseClusterStatus, NEW next \in Steps,
         StatusPatch(status, next)
  PROVE  TypeOK'
<1>1. key \in Clusters /\ cluster \in DatabaseCluster /\ Api(key) \in DatabaseCluster
  BY ApiType DEF TypeOK, VersionsType
<1>2. PatchStatus(Api(key).status, cluster.status, status) \in DatabaseClusterStatus
  BY <1>1, PatchStatusType DEF DatabaseCluster
<1>3. [Api(key) EXCEPT !.status = PatchStatus(@, cluster.status, status)] \in DatabaseCluster
  BY <1>1, <1>2 DEF DatabaseCluster
<1>4. [cluster EXCEPT !.status = status] \in DatabaseCluster
  BY <1>1 DEF DatabaseCluster
<1> QED
  BY <1>3, <1>4, PatchType DEF StatusPatch

LEMMA FinalizerPatchType ==
  ASSUME TypeOK, NEW finalizers \in SUBSET Finalizers, NEW next \in Steps,
         FinalizerPatch(finalizers, next)
  PROVE  TypeOK'
<1> DEFINE patched == PatchField(Api(key).finalizers, cluster.finalizers, finalizers)
<1>1. cluster \in DatabaseCluster /\ Api(key) \in DatabaseCluster
  BY ApiType DEF TypeOK, VersionsType
<1>2. patched \in SUBSET Finalizers
  BY <1>1 DEF PatchField, DatabaseCluster
<1>3. Settled([Api(key) EXCEPT !.finalizers = patched]) \in DatabaseCluster
  BY <1>1, <1>2, SettledType DEF DatabaseCluster
<1>4. [cluster EXCEPT !.finalizers = finalizers] \in DatabaseCluster
  BY <1>1 DEF DatabaseCluster
<1> QED
  BY <1>3, <1>4, PatchType DEF FinalizerPatch

LEMMA StoreType ==
  ASSUME LiveType, NEW c \in Clusters, NEW kind \in Kinds, NEW o,
         [live[c] EXCEPT ![kind] = o] \in ChildObjects, Store(c, kind, o)
  PROVE  LiveType'
<1>1. live' \in [Clusters -> ChildObjects]
  BY DEF LiveType, Store
<1>2. news' \in [Clusters -> SUBSET Kinds]
  BY DEF LiveType, Store
<1> QED
  BY <1>1, <1>2 DEF LiveType

LEMMA CreateOrUpdateType ==
  ASSUME TypeOK, NEW kind \in Kinds, NEW built, NEW mutated, NEW next \in Steps,
         [live[key] EXCEPT ![kind] = built] \in ChildObjects,
         [live[key] EXCEPT ![kind] = mutated] \in ChildObjects,
         CreateOrUpdate(kind, built, mutated, next)
  PROVE  TypeOK'
<1>1. WorkerType /\ BudgetType /\ key \in Clusters /\ LiveType /\ cluster \in DatabaseCluster
  BY DEF TypeOK, WorkerType, BudgetType, LiveType
<1>2. LiveType'
  <2>1. CASE UNCHANGED <<live, news>>
    BY <1>1, <2>1 DEF LiveType
  <2>2. CASE Store(key, kind, built) \/ Store(key, kind, mutated)
    BY <1>1, <2>2, StoreType
  <2> QED
    BY <2>1, <2>2 DEF CreateOrUpdate
<1>3. WorkerType' /\ BudgetType'
  BY <1>1, GotoType, AnsweredType, RefusedType, LostType DEF CreateOrUpdate, BudgetType
<1> QED
  BY <1>2, <1>3 DEF CreateOrUpdate, TypeOK, WorkerType, BudgetType, LiveType

-----------------------------------------------------------------------------
(* One lemma for the worker's steps, one for the rest.                     *)

LEMMA ChildrenTypes ==
  ASSUME NEW kids \in ChildObjects
  PROVE  /\ \A x \in [exists : BOOLEAN, owner : Nat, data : ConfigFiles \cup {<<>>}] :
              [kids EXCEPT !["configMap"] = x] \in ChildObjects
         /\ \A x \in [exists : BOOLEAN, owner : Nat] :
              [kids EXCEPT !["service"] = x] \in ChildObjects
         /\ \A x \in [exists : BOOLEAN, owner : Nat, replicas : Nat,
                      version : Versions \cup {NoVersion}, updated : Nat, outdated : Nat] :
              [kids EXCEPT !["statefulSet"] = x] \in ChildObjects
BY DEF ChildObjects

LEMMA ChildReplaced ==
  ASSUME NEW old \in ChildObjects, NEW new \in ChildObjects, NEW kind \in Kinds
  PROVE  [old EXCEPT ![kind] = new[kind]] \in ChildObjects
<1>1. CASE kind = "configMap"
  BY <1>1 DEF ChildObjects
<1>2. CASE kind = "service"
  BY <1>2 DEF ChildObjects
<1>3. CASE kind = "statefulSet"
  BY <1>3 DEF ChildObjects
<1> QED
  BY <1>1, <1>2, <1>3 DEF Kinds

LEMMA ObsType ==
  ASSUME NEW o \in [upgrading : BOOLEAN, ready : Nat, waiting : BOOLEAN],
         NEW n \in Nat, NEW b \in BOOLEAN
  PROVE  [o EXCEPT !.ready = n, !.waiting = b]
           \in [upgrading : BOOLEAN, ready : Nat, waiting : BOOLEAN]
OBVIOUS

LEMMA StepType ==
  ASSUME TypeOK, Step
  PROVE  TypeOK'
<1> DEFINE st == cluster.status
<1>1. /\ key \in Clusters /\ cluster \in DatabaseCluster /\ st \in DatabaseClusterStatus
      /\ live[key] \in ChildObjects /\ seen[key] \in ChildObjects
      /\ cluster.generation \in Nat /\ cluster.uid \in Nat
      /\ cluster.spec \in DatabaseClusterSpec
      /\ st.conditions \in [ConditionTypes -> Condition]
      /\ cluster.spec.replicas \in Nat /\ obs.ready \in Nat
  BY ReplicasAssumption
     DEF TypeOK, DatabaseCluster, DatabaseClusterSpec, DatabaseClusterStatus
<1>2. CASE InitialPhase
  <2>1. [st EXCEPT !.phase = "Provisioning", !.observedGeneration = cluster.generation]
          \in DatabaseClusterStatus
    BY <1>1 DEF DatabaseClusterStatus, Phases
  <2> QED
    BY <1>2, <2>1, StatusPatchType DEF InitialPhase, Steps
<1>3. CASE ReconcileConfigMap
  <2>1. PICK data \in buildConfigMap(cluster.spec) :
          CreateOrUpdate("configMap", ConfigMap(cluster.uid, data),
                         [seen[key].configMap EXCEPT !.data = data], "service")
    BY <1>3 DEF ReconcileConfigMap
  <2>2. data \in ConfigFiles
    BY <1>1, <2>1 DEF ConfigFiles
  <2>3. [live[key] EXCEPT !["configMap"] = ConfigMap(cluster.uid, data)] \in ChildObjects
    BY <1>1, <2>2, ChildrenTypes DEF ConfigMap
  <2>4. [seen[key].configMap EXCEPT !.data = data]
          \in [exists : BOOLEAN, owner : Nat, data : ConfigFiles \cup {<<>>}]
    BY <1>1, <2>2 DEF ChildObjects
  <2> QED
    BY <1>1, <2>1, <2>3, <2>4, ChildrenTypes, CreateOrUpdateType DEF Kinds, Steps
<1>4. CASE ReconcileService
  <2>1. /\ buildHeadlessService(cluster.uid) \in [exists : BOOLEAN, owner : Nat]
        /\ seen[key].service \in [exists : BOOLEAN, owner : Nat]
    BY <1>1 DEF buildHeadlessService, ChildObjects
  <2> QED
    BY <1>1, <1>4, <2>1, ChildrenTypes, CreateOrUpdateType DEF ReconcileService, Kinds, Steps
<1>5. CASE MarkUpgrading
  <2>1. setCondition(st.conditions, "Upgrading", "True", cluster.generation, 0)
          \in [ConditionTypes -> Condition]
    BY <1>1, SetConditionType DEF ConditionTypes
  <2>2. [st EXCEPT !.phase = "Upgrading",
                   !.conditions = setCondition(@, "Upgrading", "True", cluster.generation, 0)]
          \in DatabaseClusterStatus
    BY <1>1, <2>1 DEF DatabaseClusterStatus, Phases
  <2> QED
    BY <1>5, <2>2, StatusPatchType DEF MarkUpgrading, Steps
<1>6. CASE ReconcileStatefulSet
  <2> DEFINE Sts == [exists : BOOLEAN, owner : Nat, replicas : Nat,
                     version : Versions \cup {NoVersion}, updated : Nat, outdated : Nat]
  <2>1. buildStatefulSet(cluster.uid, cluster.spec) \in Sts
    BY <1>1 DEF buildStatefulSet, DatabaseClusterSpec
  <2>2. seen[key].statefulSet \in Sts
    BY <1>1 DEF ChildObjects
  <2>3. Mutated(seen[key].statefulSet, cluster.spec) \in Sts
    <3> DEFINE sts == seen[key].statefulSet
    <3>1. sts.updated \in Nat /\ sts.outdated \in Nat /\ sts.updated + sts.outdated \in Nat
      BY <2>2
    <3>2. cluster.spec.version \in Versions
      BY <1>1 DEF DatabaseClusterSpec
    <3> QED
      BY <1>1, <2>2, <3>1, <3>2 DEF Mutated
  <2> QED
    BY <1>1, <1>6, <2>1, <2>3, ChildrenTypes, CreateOrUpdateType
       DEF ReconcileStatefulSet, Kinds, Steps
<1>7. CASE Observe
  <2> DEFINE sts == seen[key].statefulSet
             ready == ReadyReplicas(sts)
  <2>1. ready \in Nat
    <3>1. sts.updated \in Nat /\ sts.outdated \in Nat
      BY <1>1 DEF ChildObjects
    <3> QED
      BY <3>1 DEF ReadyReplicas
  <2>2. CASE Refused
    <3>1. WorkerType /\ BudgetType
      BY DEF TypeOK, WorkerType, BudgetType
    <3>2. WorkerType' /\ BudgetType'
      BY <1>1, <2>2, <3>1, RefusedType
    <3> QED
      BY <1>7, <3>2 DEF Observe, TypeOK, WorkerType, BudgetType, children
  <2>3. CASE /\ pc' = BackupStep(cluster)
             /\ obs' = [obs EXCEPT !.ready = ready,
                                   !.waiting = ready < cluster.spec.replicas]
             /\ UNCHANGED <<cluster, timers, budget>>
    <3>1. pc' \in Steps
      BY <2>3 DEF BackupStep, Steps
    <3>2. obs' \in [upgrading : BOOLEAN, ready : Nat, waiting : BOOLEAN]
      <4>1. (ready < cluster.spec.replicas) \in BOOLEAN
        OBVIOUS
      <4> QED
        BY <2>1, <2>3, <4>1, ObsType DEF TypeOK
    <3> QED
      BY <1>7, <2>3, <3>1, <3>2 DEF Observe, TypeOK, children
  <2> QED
    BY <1>7, <2>2, <2>3 DEF Observe
<1>8. CASE AddFinalizer
  <2>1. cluster.finalizers \cup {FinalizerName} \in SUBSET Finalizers
    BY <1>1 DEF DatabaseCluster, Finalizers
  <2> QED
    BY <1>8, <2>1, FinalizerPatchType DEF AddFinalizer, Steps
<1>9. CASE ProvisionBucket
  <2>1. buckets' \subseteq { bucketNameFor(NameOf[c]) : c \in Clusters }
    BY <1>1, <1>9 DEF ProvisionBucket, Provision, TypeOK
  <2> QED
    BY <1>9, <2>1 DEF ProvisionBucket, Goto, TypeOK, Steps, children
<1>10. CASE RecordBucket
  <2>1. setCondition(st.conditions, "BackupHealthy", "True", cluster.generation, 0)
          \in [ConditionTypes -> Condition]
    BY <1>1, SetConditionType DEF ConditionTypes
  <2>2. [st EXCEPT !.backupBucketProvisioned = TRUE,
                   !.conditions = setCondition(@, "BackupHealthy", "True", cluster.generation, 0)]
          \in DatabaseClusterStatus
    BY <1>1, <2>1 DEF DatabaseClusterStatus
  <2> QED
    BY <1>10, <2>2, StatusPatchType DEF RecordBucket, Steps
<1>11. CASE UpdateStatus
  <2> DEFINE new == ConditionsFor(cluster, obs.upgrading, obs.ready, cluster.spec.replicas)
  <2>1. new \in [ConditionTypes -> Condition]
    BY <1>1, SetConditionType DEF ConditionsFor, ConditionTypes
  <2>2. PhaseFor(obs.upgrading, obs.ready, cluster.spec.replicas) \in Phases
    BY DEF PhaseFor, Phases
  <2>3. cluster.spec.version \in Versions
    BY <1>1 DEF DatabaseClusterSpec
  <2>4. [st EXCEPT !.readyReplicas = obs.ready,
                   !.currentVersion = cluster.spec.version,
                   !.observedGeneration = cluster.generation,
                   !.phase = PhaseFor(obs.upgrading, obs.ready, cluster.spec.replicas),
                   !.conditions = new] \in DatabaseClusterStatus
    BY <1>1, <2>1, <2>2, <2>3 DEF DatabaseClusterStatus
  <2> QED
    BY <1>11, <2>4, StatusPatchType DEF UpdateStatus, Steps
<1>12. CASE DeleteBucket
  <2>1. buckets' \subseteq buckets
    BY <1>12 DEF DeleteBucket, Delete
  <2>2. WorkerType /\ WorkerType'
    BY <1>1, <1>12, ReturnType, GotoType DEF DeleteBucket, TypeOK, WorkerType, Steps
  <2> QED
    BY <1>12, <2>1, <2>2 DEF DeleteBucket, TypeOK, WorkerType, children
<1>13. CASE RemoveFinalizer
  <2>1. cluster.finalizers \ {FinalizerName} \in SUBSET Finalizers
    BY <1>1 DEF DatabaseCluster
  <2> QED
    BY <1>13, <2>1, FinalizerPatchType DEF RemoveFinalizer, Steps
<1> QED
  BY <1>2, <1>3, <1>4, <1>5, <1>6, <1>7, <1>8, <1>9, <1>10, <1>11, <1>12, <1>13 DEF Step

LEMMA ReconcileType ==
  ASSUME TypeOK, NEW c \in Clusters, Reconcile(c)
  PROVE  TypeOK'
<1>1. Cached(c) \in DatabaseCluster
  BY ApiType DEF TypeOK, VersionsType
<1>2. FirstStep(Cached(c)) \in Steps
  BY <1>1 DEF FirstStep, Steps, DatabaseCluster
<1>3. cluster' \in DatabaseCluster
  BY <1>1, NoObjectType DEF Reconcile
<1>4. (FirstStep(Cached(c)) = "configMap" /\ Upgrading(Cached(c))) \in BOOLEAN
  OBVIOUS
<1>5. obs' \in [upgrading : BOOLEAN, ready : Nat, waiting : BOOLEAN]
  BY <1>4 DEF Reconcile, NotObserved
<1> QED
  BY <1>2, <1>3, <1>5 DEF Reconcile, TypeOK, children

LEMMA SyncType ==
  ASSUME TypeOK, NEW c \in Clusters, Sync(c)
  PROVE  TypeOK'
<1>1. Tail(versions[c]) \in Seq(DatabaseCluster) /\ Len(Tail(versions[c])) > 0
  BY DEF Sync, TypeOK
<1> QED
  BY <1>1 DEF Sync, TypeOK, children, worker

LEMMA RestartType ==
  ASSUME TypeOK, Restart
  PROVE  TypeOK'
<1>1. \A c \in Clusters : <<Api(c)>> \in Seq(DatabaseCluster) /\ Len(<<Api(c)>>) > 0
  BY ApiType DEF TypeOK, VersionsType
<1>2. VersionsType'
  BY <1>1 DEF Restart, VersionsType
<1>3. buckets' \subseteq buckets
  BY DEF Restart, NewBucketStore
<1>4. BudgetType'
  BY SpendType DEF Restart, TypeOK, BudgetType, BudgetKinds
<1>5. cluster' \in DatabaseCluster /\ obs' \in [upgrading : BOOLEAN, ready : Nat, waiting : BOOLEAN]
  BY NoObjectType DEF Restart, NotObserved
<1> QED
  BY <1>2, <1>3, <1>4, <1>5 DEF Restart, TypeOK, VersionsType, BudgetType, Steps

LEMMA RuntimeType ==
  ASSUME TypeOK, NEW c \in Clusters, NEW kind \in Kinds, TimerFires(c) \/ SyncChild(c, kind)
  PROVE  TypeOK'
<1>1. CASE TimerFires(c)
  BY <1>1 DEF TimerFires, TypeOK, children, worker
<1>2. CASE SyncChild(c, kind)
  <2>1. [seen[c] EXCEPT ![kind] = live[c][kind]] \in ChildObjects
    BY ChildReplaced DEF TypeOK
  <2> QED
    BY <1>2, <2>1 DEF SyncChild, TypeOK, worker
<1> QED
  BY <1>1, <1>2

\* What users and other controllers write is a DatabaseCluster.
LEMMA UserType ==
  ASSUME TypeOK, NEW c \in Clusters,
         \/ UserCreates(c) \/ UserEdits(c) \/ UserDeletes(c)
         \/ ForeignFinalizerAdded(c) \/ ForeignFinalizerRemoved(c)
  PROVE  TypeOK'
<1> DEFINE api == Api(c)
<1>1. VersionsType /\ BudgetType /\ api \in DatabaseCluster
  BY ApiType DEF TypeOK, VersionsType, BudgetType
<1>2. api.uid + 1 \in Nat /\ api.generation + 1 \in Nat
  BY <1>1 DEF DatabaseCluster
<1>3. UNCHANGED <<children, unaffected>>
  BY DEF UserCreates, UserEdits, UserDeletes, ForeignFinalizerAdded, ForeignFinalizerRemoved
<1>4. BudgetType'
  BY <1>1, SpendType
     DEF UserCreates, UserEdits, UserDeletes, ForeignFinalizerAdded, ForeignFinalizerRemoved,
         BudgetKinds, BudgetType
<1>5. ASSUME NEW o \in DatabaseCluster, Write(c, o)
      PROVE  TypeOK'
  BY <1>1, <1>3, <1>4, <1>5, WriteType
     DEF TypeOK, VersionsType, BudgetType, children, worker, unaffected
<1>6. CASE UserCreates(c)
  <2>1. \A spec \in UserSpecs : Created(api.uid + 1, spec) \in DatabaseCluster
    BY <1>2, CreatedType, UserSpecsAssumption
  <2> QED
    BY <1>5, <1>6, <2>1 DEF UserCreates
<1>7. CASE UserEdits(c)
  <2>1. \A spec \in UserSpecs :
          [api EXCEPT !.spec = spec, !.generation = @ + 1] \in DatabaseCluster
    BY <1>1, <1>2, UserSpecsAssumption DEF DatabaseCluster
  <2> QED
    BY <1>5, <1>7, <2>1 DEF UserEdits
<1>8. CASE UserDeletes(c)
  <2>1. [api EXCEPT !.deleting = TRUE, !.generation = @ + 1] \in DatabaseCluster
    BY <1>1, <1>2 DEF DatabaseCluster
  <2> QED
    BY <1>5, <1>8, <2>1, SettledType DEF UserDeletes
<1>9. CASE ForeignFinalizerAdded(c)
  <2>1. [api EXCEPT !.finalizers = @ \cup {ForeignFinalizer}] \in DatabaseCluster
    BY <1>1 DEF DatabaseCluster, Finalizers
  <2> QED
    BY <1>5, <1>9, <2>1 DEF ForeignFinalizerAdded
<1>10. CASE ForeignFinalizerRemoved(c)
  <2>1. [api EXCEPT !.finalizers = @ \ {ForeignFinalizer}] \in DatabaseCluster
    BY <1>1 DEF DatabaseCluster
  <2> QED
    BY <1>5, <1>10, <2>1, SettledType DEF ForeignFinalizerRemoved
<1> QED
  BY <1>6, <1>7, <1>8, <1>9, <1>10

LEMMA ChildEventType ==
  ASSUME TypeOK, NEW c \in Clusters, NEW kind \in Kinds,
         ChildDeleted(c, kind) \/ CollectGarbage(c, kind)
  PROVE  TypeOK'
<1>1. [live[c] EXCEPT ![kind] = NoChildren[kind]] \in ChildObjects
  <2>1. NoChildren \in ChildObjects
    BY DEF NoChildren, ChildObjects, NoConfigMap, NoService, NoStatefulSet
  <2> QED
    BY <2>1, ChildReplaced DEF TypeOK
<1>2. BudgetType'
  BY SpendType DEF ChildDeleted, CollectGarbage, TypeOK, BudgetType, BudgetKinds
<1>3. LiveType'
  BY <1>1, StoreType DEF ChildDeleted, CollectGarbage, TypeOK, LiveType
<1> QED
  BY <1>2, <1>3 DEF ChildDeleted, CollectGarbage, TypeOK, BudgetType, LiveType, worker, unaffected

LEMMA PodType ==
  ASSUME TypeOK, NEW c \in Clusters, PodBecomesReady(c) \/ PodStopped(c) \/ PodFails(c)
  PROVE  TypeOK'
<1> DEFINE sts == live[c].statefulSet
<1>1. live[c] \in ChildObjects /\ sts.updated \in Nat /\ sts.outdated \in Nat
  BY DEF TypeOK, ChildObjects
<1>2. \A u, o \in Nat :
        [live[c] EXCEPT !["statefulSet"] = [sts EXCEPT !.updated = u, !.outdated = o]]
          \in ChildObjects
  BY <1>1 DEF ChildObjects
<1>3. ASSUME NEW u \in Nat, NEW o \in Nat, SetPods(c, u, o), BudgetType'
      PROVE  TypeOK'
  <2>1. LiveType'
    BY <1>2, <1>3, StoreType DEF SetPods, TypeOK, LiveType, Kinds
  <2> QED
    BY <1>3, <2>1 DEF SetPods, TypeOK, BudgetType, LiveType, worker, unaffected
<1>4. BudgetType'
  BY SpendType DEF PodBecomesReady, PodStopped, PodFails, TypeOK, BudgetType, BudgetKinds
<1>5. CASE PodBecomesReady(c)
  BY <1>1, <1>3, <1>4, <1>5 DEF PodBecomesReady
<1>6. CASE PodStopped(c)
  <2>1. \A n \in Nat : n > 0 => n - 1 \in Nat
    OBVIOUS
  <2> QED
    BY <1>1, <1>3, <1>4, <1>6, <2>1 DEF PodStopped
<1>7. CASE PodFails(c)
  <2>1. \A n \in Nat : n > 0 => n - 1 \in Nat
    OBVIOUS
  <2> QED
    BY <1>1, <1>3, <1>4, <1>7, <2>1 DEF PodFails
<1> QED
  BY <1>5, <1>6, <1>7

-----------------------------------------------------------------------------
LEMMA InitType == Init => TypeOK
<1> SUFFICES ASSUME Init PROVE TypeOK
  OBVIOUS
<1>1. NoObject(0) \in DatabaseCluster
  BY NoObjectType
<1>2. NoChildren \in ChildObjects
  BY DEF NoChildren, ChildObjects, NoConfigMap, NoService, NoStatefulSet
<1> QED
  BY <1>1, <1>2, BudgetsAssumption
     DEF Init, TypeOK, NewBucketStore, Steps, NotObserved

LEMMA NextType == TypeOK /\ [Next]_vars => TypeOK'
<1> SUFFICES ASSUME TypeOK, [Next]_vars PROVE TypeOK'
  OBVIOUS
<1>1. CASE UNCHANGED vars
  BY <1>1 DEF vars, children, worker, TypeOK
<1>2. CASE Next
  BY <1>2, StepType, RestartType, ReconcileType, SyncType, RuntimeType, UserType,
     ChildEventType, PodType DEF Next, Kinds
<1> QED
  BY <1>1, <1>2

\* Every reachable state is well typed: nothing the reconciler patches, decodes
\* or creates leaves the shape of the API types. (databasecluster_types.go:26-93)
THEOREM TypeCorrect == Spec => []TypeOK
BY InitType, NextType, PTL DEF Spec
=============================================================================
