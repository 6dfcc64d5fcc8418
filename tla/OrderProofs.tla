----------------------------- MODULE OrderProofs -----------------------------
(***************************************************************************)
(* The StatefulSet never precedes the ConfigMap that its pods mount, for   *)
(* every value of the constants, as long as nobody deletes a cluster or a  *)
(* child.                                                                  *)
(***************************************************************************)
EXTENDS BackupProofs

NoDeletions == \A b \in Budgets : b["delete"] = 0 /\ b["child"] = 0

-----------------------------------------------------------------------------
(* The invariant, in parts.                                                *)

Spared == budget["delete"] = 0 /\ budget["child"] = 0

\* Once there is an object it stays, and stays the same one.
Steady(h) ==
  \A i \in 1..Len(h) :
    h[i].exists => ~ h[i].deleting /\ Latest(h).exists /\ h[i].uid = Latest(h).uid

Histories == \A c \in Clusters : Steady(versions[c])

\* A ConfigMap is nobody's garbage, and the cache shows one only where one of
\* the same owner is stored.
Owned ==
  \A c \in Clusters :
    /\ live[c].configMap.exists => Api(c).exists /\ live[c].configMap.owner = Api(c).uid
    /\ seen[c].configMap.exists =>
         live[c].configMap.exists /\ seen[c].configMap.owner = live[c].configMap.owner

Mounting == {"service", "markUpgrading", "statefulSet"}

\* The worker has the object that is stored, and has seen to the ConfigMap
\* when it goes on to what comes after.
WorkerReady ==
  /\ pc # "idle" => Api(key).exists /\ cluster.uid = Api(key).uid
  /\ pc \in Mounting => live[key].configMap.exists

OrderInvariant == Spared /\ Histories /\ Owned /\ WorkerReady

-----------------------------------------------------------------------------
(* Histories.                                                              *)

\* A write that neither removes nor replaces an object.
Lasting(old, new) ==
  /\ old.exists => new.exists /\ new.uid = old.uid
  /\ new.exists => ~ new.deleting

Grows == \A c \in Clusters : Api(c).exists => Api(c)'.exists /\ Api(c)'.uid = Api(c).uid

LEMMA AppendSteady ==
  ASSUME NEW h \in Seq(DatabaseCluster), Len(h) > 0, Steady(h),
         NEW o \in DatabaseCluster, Lasting(Latest(h), o)
  PROVE  Steady(Append(h, o))
<1> DEFINE g == Append(h, o)
<1>1. /\ Len(g) = Len(h) + 1 /\ g[Len(h) + 1] = o /\ Latest(g) = o
      /\ \A i \in 1..Len(h) : g[i] = h[i]
  BY AppendElements DEF Latest
<1>2. ASSUME NEW i \in 1..Len(g), g[i].exists
      PROVE  ~ g[i].deleting /\ o.exists /\ g[i].uid = o.uid
  <2>1. CASE i = Len(h) + 1
    BY <1>1, <1>2, <2>1 DEF Lasting
  <2>2. CASE i \in 1..Len(h)
    BY <1>1, <1>2, <2>2 DEF Steady, Lasting
  <2> QED
    BY <1>1, <2>1, <2>2
<1> QED
  BY <1>1, <1>2 DEF Steady

LEMMA SameHistories ==
  ASSUME Histories, UNCHANGED versions
  PROVE  Histories' /\ Grows
BY DEF Histories, Grows, Api

LEMMA WriteHistories ==
  ASSUME VersionsType, Histories, NEW c \in Clusters, NEW o \in DatabaseCluster,
         Write(c, o), Lasting(Api(c), o)
  PROVE  Histories' /\ Grows /\ Api(c)' = o
<1>1. CASE o = Api(c)
  <2>1. UNCHANGED versions
    BY <1>1 DEF Write
  <2> QED
    BY <1>1, <2>1, SameHistories DEF Api
<1>2. CASE o # Api(c)
  <2>1. /\ versions[c] \in Seq(DatabaseCluster) /\ Len(versions[c]) > 0
        /\ versions'[c] = Append(versions[c], o) /\ Api(c)' = o
        /\ \A d \in Clusters \ {c} : versions'[d] = versions[d] /\ Api(d)' = Api(d)
    BY <1>2, WriteAppends
  <2>2. Steady(versions'[c])
    BY <2>1, AppendSteady DEF Histories, Api, Latest
  <2> QED
    BY <2>1, <2>2 DEF Histories, Grows, Lasting
<1> QED
  BY <1>1, <1>2

LEMMA SyncHistories ==
  ASSUME VersionsType, Histories, NEW c \in Clusters, Sync(c)
  PROVE  Histories' /\ Grows
<1>1. versions[c] \in Seq(DatabaseCluster) /\ Len(versions[c]) > 1
  BY DEF VersionsType, Sync
<1>2. versions'[c] = Tail(versions[c]) /\ \A d \in Clusters \ {c} : versions'[d] = versions[d]
  BY DEF VersionsType, Sync
<1>3. /\ Len(Tail(versions[c])) = Len(versions[c]) - 1
      /\ \A i \in 1..(Len(versions[c]) - 1) : Tail(versions[c])[i] = versions[c][i + 1]
  BY <1>1, TailElements
<1>4. Latest(Tail(versions[c])) = Latest(versions[c])
  BY <1>1, <1>3 DEF Latest
<1>5. Steady(versions'[c])
  BY <1>1, <1>2, <1>3, <1>4 DEF Histories, Steady
<1>6. \A d \in Clusters : Api(d)' = Api(d)
  BY <1>2, <1>4 DEF Api, Latest
<1> QED
  BY <1>2, <1>5, <1>6 DEF Histories, Grows

-----------------------------------------------------------------------------
(* Steps that leave the ConfigMaps alone.                                  *)

SameMaps ==
  \A c \in Clusters :
    live'[c].configMap = live[c].configMap /\ seen'[c].configMap = seen[c].configMap

Unspent ==
  \/ UNCHANGED budget
  \/ \E kind \in BudgetKinds \ {"delete", "child"} : Spend(kind)

LEMMA UnspentSpared ==
  ASSUME BudgetType, Spared, Unspent
  PROVE  Spared'
BY DEF BudgetType, Spared, Unspent, Spend, BudgetKinds

LEMMA OwnedKept ==
  ASSUME Owned, Grows, SameMaps
  PROVE  Owned'
BY DEF Owned, Grows, SameMaps

\* The worker stands still while others act.
LEMMA Elsewhere ==
  ASSUME TypeOK, OrderInvariant, Histories', Grows, SameMaps, Unspent, UNCHANGED worker
  PROVE  OrderInvariant'
<1>1. Spared' /\ Owned'
  BY UnspentSpared, OwnedKept DEF TypeOK, BudgetType, OrderInvariant
<1>2. key \in Clusters /\ key' = key /\ pc' = pc /\ cluster' = cluster
  BY DEF TypeOK, worker
<1>3. WorkerReady'
  BY <1>2 DEF OrderInvariant, WorkerReady, Grows, SameMaps, Api
<1> QED
  BY <1>1, <1>3 DEF OrderInvariant

\* The worker gives up, or goes on with the stored object.
LEMMA WorkerMoves ==
  ASSUME TypeOK, OrderInvariant, pc # "idle", Histories', Grows, SameMaps, Unspent,
         key' = key,
         \/ pc' = "idle"
         \/ /\ cluster'.uid = Api(key)'.uid
            /\ pc' \in Mounting => pc \in Mounting
  PROVE  OrderInvariant'
<1>1. Spared' /\ Owned'
  BY UnspentSpared, OwnedKept DEF TypeOK, BudgetType, OrderInvariant
<1>2. key \in Clusters /\ Api(key).exists
  BY DEF TypeOK, OrderInvariant, WorkerReady
<1>3. Api(key)'.exists
  BY <1>2 DEF Grows, Api
<1>4. WorkerReady'
  BY <1>2, <1>3 DEF OrderInvariant, WorkerReady, SameMaps, Api, Mounting
<1> QED
  BY <1>1, <1>4 DEF OrderInvariant

-----------------------------------------------------------------------------
(* The steps of a reconcile.                                               *)

LEMMA OtherKinds ==
  ASSUME LiveType, NEW c \in Clusters, NEW kind \in Kinds \ {"configMap"}, NEW o,
         Store(c, kind, o)
  PROVE  \A d \in Clusters : live'[d].configMap = live[d].configMap
<1>1. live[c] \in ChildObjects
  BY DEF LiveType
<1>2. [live[c] EXCEPT ![kind] = o].configMap = live[c].configMap
  BY <1>1 DEF ChildObjects, Kinds
<1> QED
  BY <1>2 DEF Store, LiveType

LEMMA CreateOrUpdateUnspent ==
  ASSUME NEW kind, NEW built, NEW mutated, NEW next, CreateOrUpdate(kind, built, mutated, next)
  PROVE  Unspent
BY DEF CreateOrUpdate, Answered, Lost, Refused, Unspent, BudgetKinds

LEMMA LaterChildren ==
  ASSUME TypeOK, OrderInvariant, pc \in Mounting,
         NEW kind \in Kinds \ {"configMap"}, NEW built, NEW mutated,
         NEW next, CreateOrUpdate(kind, built, mutated, next)
  PROVE  OrderInvariant'
<1>1. Moves(next) /\ UNCHANGED <<versions, seen, key>> /\ Unspent
  BY CreateOrUpdateMoves, CreateOrUpdateUnspent DEF CreateOrUpdate
<1>2. SameMaps
  <2>1. key \in Clusters /\ LiveType
    BY DEF TypeOK, LiveType
  <2>2. UNCHANGED live \/ Store(key, kind, built) \/ Store(key, kind, mutated)
    BY DEF CreateOrUpdate
  <2> QED
    BY <1>1, <2>1, <2>2, OtherKinds DEF SameMaps
<1>3. Histories' /\ Grows
  BY <1>1, SameHistories DEF OrderInvariant
<1>4. pc # "idle"
  BY DEF Mounting
<1>5. cluster.uid = Api(key).uid /\ Api(key)' = Api(key)
  BY <1>1, <1>4 DEF OrderInvariant, WorkerReady, Api
<1> QED
  BY <1>1, <1>2, <1>3, <1>4, <1>5, WorkerMoves DEF Moves

\* The step that matters: after it the ConfigMap is stored, or the worker has
\* given up.
LEMMA ConfigMapStep ==
  ASSUME TypeOK, OrderInvariant, ReconcileConfigMap
  PROVE  OrderInvariant'
<1> DEFINE cached == seen[key].configMap
<1>1. PICK data \in buildConfigMap(cluster.spec) :
        CreateOrUpdate("configMap", ConfigMap(cluster.uid, data),
                       [cached EXCEPT !.data = data], "service")
  BY DEF ReconcileConfigMap
<1> DEFINE wanted == IF cached.exists THEN [cached EXCEPT !.data = data]
                     ELSE ConfigMap(cluster.uid, data)
           stored == live[key].configMap
<1>2. /\ Moves("service") /\ UNCHANGED <<versions, seen, key>> /\ Unspent /\ pc = "configMap"
  BY <1>1, CreateOrUpdateMoves, CreateOrUpdateUnspent DEF CreateOrUpdate, ReconcileConfigMap
<1>3. /\ key \in Clusters /\ live \in [Clusters -> ChildObjects]
      /\ live[key] \in ChildObjects /\ seen[key] \in ChildObjects
      /\ Api(key).exists /\ cluster.uid = Api(key).uid
  BY <1>2 DEF TypeOK, OrderInvariant, WorkerReady
<1>4. /\ wanted.exists /\ wanted.owner = Api(key).uid
      /\ cached.exists => stored.exists
      /\ stored.exists => stored.owner = Api(key).uid
      /\ cached.exists => cached.owner = Api(key).uid
  BY <1>3 DEF OrderInvariant, Owned, ConfigMap, ChildObjects
<1>5. \/ UNCHANGED live /\ (wanted = cached \/ pc' = "idle")
      \/ live' = [live EXCEPT ![key]["configMap"] = wanted]
  BY <1>1, <1>3 DEF CreateOrUpdate, Store, Return, Refused, Lost
<1>6. /\ \A c \in Clusters \ {key} : live'[c] = live[c]
      /\ live'[key].configMap.exists => live'[key].configMap.owner = Api(key).uid
      /\ cached.exists => live'[key].configMap.exists /\ cached.owner = Api(key).uid
      /\ stored.exists \/ pc' # "idle" => live'[key].configMap.exists
  <2>1. CASE UNCHANGED live /\ (wanted = cached \/ pc' = "idle")
    BY <1>3, <1>4, <2>1 DEF OrderInvariant, Owned
  <2>2. CASE live' = [live EXCEPT ![key]["configMap"] = wanted]
    <3>1. live'[key].configMap = wanted /\ \A c \in Clusters \ {key} : live'[c] = live[c]
      BY <1>3, <2>2 DEF ChildObjects
    <3> QED
      BY <1>4, <2>2, <3>1
  <2> QED
    BY <1>5, <2>1, <2>2
<1>7. \A c \in Clusters : Api(c)' = Api(c)
  BY <1>2 DEF Api
<1>8. Owned'
  BY <1>2, <1>3, <1>6, <1>7 DEF OrderInvariant, Owned
<1>9. WorkerReady'
  BY <1>2, <1>3, <1>6 DEF WorkerReady, Moves, Mounting, Api
<1>10. Spared' /\ Histories'
  BY <1>2, UnspentSpared, SameHistories DEF OrderInvariant, TypeOK, BudgetType
<1> QED
  BY <1>8, <1>9, <1>10 DEF OrderInvariant

LEMMA PatchOrder ==
  ASSUME TypeOK, OrderInvariant, pc # "idle", NEW allowed, NEW patched \in DatabaseCluster,
         NEW sent, NEW next, Patch(allowed, patched, sent, next),
         Api(key).exists => Lasting(Api(key), patched),
         pc' \in Mounting => pc \in Mounting
  PROVE  OrderInvariant'
<1>1. /\ UNCHANGED <<children, key>> /\ Unspent
  BY DEF Patch, Answered, Lost, Refused, Unspent, BudgetKinds
<1>2. SameMaps
  BY <1>1 DEF SameMaps, children
<1>3. VersionsType /\ key \in Clusters
  BY DEF TypeOK, VersionsType
<1>4. CASE UNCHANGED versions /\ pc' = "idle"
  BY <1>1, <1>2, <1>4, SameHistories, WorkerMoves DEF OrderInvariant
<1>5. CASE /\ Api(key).exists /\ Write(key, patched)
           /\ \/ pc' = "idle"
              \/ pc' = next /\ cluster' = Decode(patched, sent)
  <2>1. Histories' /\ Grows /\ Api(key)' = patched
    BY <1>1, <1>3, <1>5, WriteHistories DEF OrderInvariant, Api
  <2>2. Decode(patched, sent).uid = patched.uid
    BY DEF Decode, DatabaseCluster
  <2> QED
    BY <1>1, <1>2, <1>5, <2>1, <2>2, WorkerMoves
<1> QED
  BY <1>4, <1>5, PatchOutcome

\* No stored object is marked for deletion.
LEMMA NotDeleting ==
  ASSUME TypeOK, OrderInvariant, NEW c \in Clusters, Api(c).exists
  PROVE  ~ Api(c).deleting
<1>1. Len(versions[c]) \in 1..Len(versions[c])
  BY DEF TypeOK
<1> QED
  BY <1>1 DEF OrderInvariant, Histories, Steady, Api, Latest

LEMMA StatusPatchOrder ==
  ASSUME TypeOK, OrderInvariant, pc # "idle", NEW status \in DatabaseClusterStatus, NEW next,
         StatusPatch(status, next), pc' \in Mounting => pc \in Mounting
  PROVE  OrderInvariant'
<1> DEFINE patched == [Api(key) EXCEPT !.status = PatchStatus(@, cluster.status, status)]
<1>1. Api(key) \in DatabaseCluster /\ key \in Clusters /\ cluster \in DatabaseCluster
  BY ApiType DEF TypeOK, VersionsType
<1>2. PatchStatus(Api(key).status, cluster.status, status) \in DatabaseClusterStatus
  BY <1>1, PatchStatusType DEF DatabaseCluster
<1>3. patched \in DatabaseCluster
  BY <1>1, <1>2 DEF DatabaseCluster
<1>4. Api(key).exists => Lasting(Api(key), patched)
  BY <1>1, NotDeleting DEF Lasting, DatabaseCluster
<1> QED
  BY <1>3, <1>4, PatchOrder DEF StatusPatch

LEMMA FinalizerPatchOrder ==
  ASSUME TypeOK, OrderInvariant, pc # "idle", NEW finalizers \in SUBSET Finalizers,
         NEW next \in {"idle", "provision"}, FinalizerPatch(finalizers, next)
  PROVE  OrderInvariant'
<1> DEFINE set == PatchField(Api(key).finalizers, cluster.finalizers, finalizers)
           patched == Settled([Api(key) EXCEPT !.finalizers = set])
<1>1. Api(key) \in DatabaseCluster /\ key \in Clusters
  BY ApiType DEF TypeOK, VersionsType
<1>2. [Api(key) EXCEPT !.finalizers = set] \in DatabaseCluster
  BY <1>1 DEF PatchField, DatabaseCluster
<1>3. patched \in DatabaseCluster
  BY <1>2, SettledType
<1>4. Api(key).exists => Lasting(Api(key), patched)
  BY <1>1, NotDeleting DEF Lasting, Settled, DatabaseCluster
<1>5. pc' \notin Mounting
  BY PatchOutcome DEF FinalizerPatch, Mounting
<1> QED
  BY <1>3, <1>4, <1>5, PatchOrder DEF FinalizerPatch

LEMMA StatusPatchNext ==
  ASSUME NEW status, NEW next, StatusPatch(status, next)
  PROVE  pc' \in {"idle", next}
BY PatchOutcome DEF StatusPatch

LEMMA StepOrder ==
  ASSUME TypeOK, OrderInvariant, Step
  PROVE  OrderInvariant'
<1>1. pc # "idle"
  BY DEF Step, InitialPhase, ReconcileConfigMap, ReconcileService, MarkUpgrading,
     ReconcileStatefulSet, Observe, AddFinalizer, ProvisionBucket, RecordBucket, UpdateStatus,
     DeleteBucket, RemoveFinalizer
<1>2. cluster \in DatabaseCluster /\ cluster.finalizers \in SUBSET Finalizers
  BY DEF TypeOK, DatabaseCluster
<1>3. CASE ReconcileService \/ ReconcileStatefulSet
  BY <1>3, LaterChildren DEF ReconcileService, ReconcileStatefulSet, Mounting, Kinds
<1>4. CASE InitialPhase \/ MarkUpgrading \/ RecordBucket \/ UpdateStatus
  <2>1. PICK status \in DatabaseClusterStatus, next \in {"idle", "statefulSet", "updateStatus"} :
          StatusPatch(status, next)
    BY <1>4, StatusSteps
  <2>2. pc' \in Mounting => pc \in Mounting
    <3>1. CASE MarkUpgrading
      BY <3>1 DEF MarkUpgrading, Mounting
    <3>2. CASE InitialPhase \/ RecordBucket \/ UpdateStatus
      BY <3>2, StatusPatchNext DEF InitialPhase, RecordBucket, UpdateStatus, Mounting
    <3> QED
      BY <1>4, <3>1, <3>2
  <2> QED
    BY <1>1, <2>1, <2>2, StatusPatchOrder
<1>5. CASE AddFinalizer \/ RemoveFinalizer
  <2>1. /\ cluster.finalizers \cup {FinalizerName} \in SUBSET Finalizers
        /\ cluster.finalizers \ {FinalizerName} \in SUBSET Finalizers
    BY <1>2 DEF Finalizers
  <2> QED
    BY <1>1, <1>5, <2>1, FinalizerPatchOrder DEF AddFinalizer, RemoveFinalizer
<1>6. CASE Observe \/ ProvisionBucket \/ DeleteBucket
  <2>1. /\ UNCHANGED <<versions, children, key, budget>>
        /\ pc' = "idle" \/ (pc' \notin Mounting /\ cluster' = cluster)
    BY <1>6 DEF Observe, BackupStep, ProvisionBucket, DeleteBucket, Goto, Return, Refused, Mounting
  <2>2. Histories' /\ Grows /\ SameMaps /\ Unspent
    BY <2>1, SameHistories DEF OrderInvariant, SameMaps, Unspent, children
  <2>3. cluster.uid = Api(key).uid /\ Api(key)' = Api(key)
    BY <1>1, <2>1 DEF OrderInvariant, WorkerReady, Api
  <2> QED
    BY <1>1, <2>1, <2>2, <2>3, WorkerMoves
<1> QED
  BY <1>3, <1>4, <1>5, <1>6, ConfigMapStep DEF Step

-----------------------------------------------------------------------------
(* Everybody else's.                                                       *)

LEMMA ReconcileOrder ==
  ASSUME TypeOK, OrderInvariant, NEW c \in Clusters, Reconcile(c)
  PROVE  OrderInvariant'
<1>1. UNCHANGED <<versions, live, seen, budget>> /\ key' = c
  BY DEF Reconcile, children
<1>2. Spared' /\ Histories' /\ Owned'
  BY <1>1 DEF OrderInvariant, Spared, Histories, Owned, Api
<1>3. pc' \notin Mounting
  BY DEF Reconcile, FirstStep, Mounting
<1>4. CASE pc' = "idle"
  BY <1>2, <1>3, <1>4 DEF WorkerReady, OrderInvariant
<1>5. CASE pc' # "idle"
  <2>1. Cached(c).exists /\ cluster' = Cached(c)
    BY <1>5 DEF Reconcile, FirstStep
  <2>2. Cached(c) = versions[c][1] /\ 1 \in 1..Len(versions[c])
    BY DEF TypeOK, Cached
  <2>3. Api(c).exists /\ Cached(c).uid = Api(c).uid
    BY <2>1, <2>2 DEF OrderInvariant, Histories, Steady, Api, Latest
  <2>4. WorkerReady'
    BY <1>1, <1>3, <2>1, <2>3 DEF WorkerReady, Api
  <2> QED
    BY <1>2, <2>4 DEF OrderInvariant
<1> QED
  BY <1>4, <1>5

LEMMA RestartOrder ==
  ASSUME TypeOK, OrderInvariant, Restart
  PROVE  OrderInvariant'
<1>1. \A c \in Clusters : versions'[c] = <<Api(c)>> /\ Api(c)' = Api(c)
  BY DEF Restart, Api
<1>2. Histories'
  <2>1. ASSUME NEW c \in Clusters
        PROVE  Steady(<<Api(c)>>)
    BY NotDeleting DEF Steady, Latest
  <2> QED
    BY <1>1, <2>1 DEF Histories
<1>3. Owned'
  BY <1>1 DEF Restart, OrderInvariant, Owned
<1>4. Spared'
  BY UnspentSpared DEF Restart, TypeOK, BudgetType, OrderInvariant, Unspent, BudgetKinds
<1>5. WorkerReady'
  BY DEF Restart, WorkerReady, Mounting
<1> QED
  BY <1>2, <1>3, <1>4, <1>5 DEF OrderInvariant

LEMMA UserOrder ==
  ASSUME TypeOK, OrderInvariant, NEW c \in Clusters,
         \/ UserCreates(c) \/ UserEdits(c) \/ UserDeletes(c)
         \/ ForeignFinalizerAdded(c) \/ ForeignFinalizerRemoved(c)
  PROVE  OrderInvariant'
<1>1. Api(c) \in DatabaseCluster /\ VersionsType
  BY ApiType DEF TypeOK, VersionsType
<1>2. /\ UNCHANGED <<children, worker>>
      /\ Unspent
      /\ ~ UserDeletes(c)
  <2>1. ~ UserDeletes(c)
    BY DEF UserDeletes, Spend, OrderInvariant, Spared
  <2>2. UNCHANGED budget \/ Spend("create") \/ Spend("edit") \/ Spend("foreign")
    BY <2>1 DEF UserCreates, UserEdits, ForeignFinalizerAdded, ForeignFinalizerRemoved
  <2>3. UNCHANGED <<children, worker>>
    BY <2>1 DEF UserCreates, UserEdits, ForeignFinalizerAdded, ForeignFinalizerRemoved,
       unaffected
  <2> QED
    BY <2>1, <2>2, <2>3 DEF Unspent, BudgetKinds
<1>3. PICK o : o \in DatabaseCluster /\ Write(c, o) /\ Lasting(Api(c), o)
  <2>1. CASE UserCreates(c)
    <3>1. PICK spec \in UserSpecs : Write(c, Created(Api(c).uid + 1, spec)) /\ ~ Api(c).exists
      BY <2>1 DEF UserCreates
    <3>2. Created(Api(c).uid + 1, spec) \in DatabaseCluster
      BY <1>1, <3>1, CreatedType, UserSpecsAssumption DEF DatabaseCluster
    <3> QED
      BY <3>1, <3>2 DEF Lasting, Created
  <2>2. CASE UserEdits(c)
    <3>1. PICK spec \in UserSpecs :
            Write(c, [Api(c) EXCEPT !.spec = spec, !.generation = @ + 1]) /\ Api(c).exists
      BY <2>2 DEF UserEdits
    <3>2. [Api(c) EXCEPT !.spec = spec, !.generation = @ + 1] \in DatabaseCluster
      <4>1. Api(c).generation + 1 \in Nat
        BY <1>1 DEF DatabaseCluster
      <4> QED
        BY <1>1, <3>1, <4>1, UserSpecsAssumption DEF DatabaseCluster
    <3> QED
      BY <1>1, <3>1, <3>2, NotDeleting DEF Lasting, DatabaseCluster
  <2>3. CASE ForeignFinalizerAdded(c)
    <3>1. [Api(c) EXCEPT !.finalizers = @ \cup {ForeignFinalizer}] \in DatabaseCluster
      BY <1>1 DEF DatabaseCluster, Finalizers
    <3> QED
      BY <1>1, <2>3, <3>1 DEF ForeignFinalizerAdded, Lasting, DatabaseCluster
  <2>4. CASE ForeignFinalizerRemoved(c)
    <3> DEFINE left == [Api(c) EXCEPT !.finalizers = @ \ {ForeignFinalizer}]
    <3>1. left \in DatabaseCluster /\ Api(c).exists /\ ~ Api(c).deleting
      BY <1>1, <2>4, NotDeleting DEF ForeignFinalizerRemoved, DatabaseCluster
    <3>2. Settled(left) = left /\ Lasting(Api(c), left)
      BY <1>1, <3>1 DEF Settled, Lasting, DatabaseCluster
    <3> QED
      BY <2>4, <3>1, <3>2 DEF ForeignFinalizerRemoved
  <2> QED
    BY <1>2, <2>1, <2>2, <2>3, <2>4
<1>4. Histories' /\ Grows
  BY <1>1, <1>3, WriteHistories DEF OrderInvariant
<1>5. SameMaps
  BY <1>2 DEF SameMaps, children
<1> QED
  BY <1>2, <1>4, <1>5, Elsewhere

LEMMA ChildOrder ==
  ASSUME TypeOK, OrderInvariant, NEW c \in Clusters, NEW kind \in Kinds,
         \/ ChildDeleted(c, kind) \/ CollectGarbage(c, kind)
         \/ PodBecomesReady(c) \/ PodStopped(c) \/ PodFails(c)
  PROVE  OrderInvariant'
<1>1. UNCHANGED <<versions, seen, worker>> /\ Unspent /\ ~ ChildDeleted(c, kind)
  BY DEF ChildDeleted, CollectGarbage, PodBecomesReady, PodStopped, PodFails, SetPods,
     unaffected, Spend, Unspent, BudgetKinds, OrderInvariant, Spared
<1>2. SameMaps
  <2>1. \E k \in Kinds \ {"configMap"} : \E o : Store(c, k, o)
    <3>1. CASE CollectGarbage(c, kind)
      <4>1. kind # "configMap"
        BY <3>1 DEF CollectGarbage, OrderInvariant, Owned
      <4> QED
        BY <3>1, <4>1 DEF CollectGarbage
    <3>2. CASE PodBecomesReady(c) \/ PodStopped(c) \/ PodFails(c)
      BY <3>2 DEF PodBecomesReady, PodStopped, PodFails, SetPods, Kinds
    <3> QED
      BY <1>1, <3>1, <3>2
  <2> QED
    BY <1>1, <2>1, OtherKinds DEF SameMaps, TypeOK, LiveType
<1>3. Histories' /\ Grows
  BY <1>1, SameHistories DEF OrderInvariant
<1> QED
  BY <1>1, <1>2, <1>3, Elsewhere

LEMMA CacheOrder ==
  ASSUME TypeOK, OrderInvariant, NEW c \in Clusters, NEW kind \in Kinds, SyncChild(c, kind)
  PROVE  OrderInvariant'
<1>1. UNCHANGED <<versions, live, worker, budget>>
  BY DEF SyncChild
<1>2. \A d \in Clusters : seen'[d].configMap \in {seen[d].configMap, live[d].configMap}
  BY DEF SyncChild, TypeOK, ChildObjects, Kinds
<1>3. Owned'
  BY <1>1, <1>2 DEF OrderInvariant, Owned, Api
<1> QED
  BY <1>1, <1>3 DEF OrderInvariant, Spared, Histories, WorkerReady, Api, worker

LEMMA OrderInit ==
  ASSUME NoDeletions, Init
  PROVE  OrderInvariant
<1>1. Spared
  BY DEF Init, NoDeletions, Spared
<1>2. \A c \in Clusters : Steady(versions[c])
  BY DEF Init, Steady, NoObject
<1>3. Owned
  BY DEF Init, Owned, NoChildren, NoConfigMap
<1>4. WorkerReady
  BY DEF Init, WorkerReady, Mounting
<1> QED
  BY <1>1, <1>2, <1>3, <1>4 DEF OrderInvariant, Histories

LEMMA OrderNext == TypeOK /\ OrderInvariant /\ [Next]_vars => OrderInvariant'
<1> SUFFICES ASSUME TypeOK, OrderInvariant, [Next]_vars PROVE OrderInvariant'
  OBVIOUS
<1>1. CASE UNCHANGED vars
  <2>1. Histories' /\ Grows /\ SameMaps /\ Unspent /\ UNCHANGED worker
    BY <1>1, SameHistories DEF OrderInvariant, SameMaps, Unspent, vars, children
  <2> QED
    BY <2>1, Elsewhere
<1>2. ASSUME NEW c \in Clusters, Sync(c) \/ TimerFires(c)
      PROVE  OrderInvariant'
  <2>1. Histories' /\ Grows
    BY <1>2, SyncHistories, SameHistories
       DEF OrderInvariant, TypeOK, VersionsType, TimerFires
  <2>2. SameMaps /\ Unspent /\ UNCHANGED worker
    BY <1>2 DEF Sync, TimerFires, SameMaps, Unspent, children
  <2> QED
    BY <2>1, <2>2, Elsewhere
<1> QED
  BY <1>1, <1>2, StepOrder, RestartOrder, ReconcileOrder, UserOrder, ChildOrder, CacheOrder
     DEF Next, Kinds

-----------------------------------------------------------------------------
(* The step that creates the StatefulSet.                                  *)

MountsExist ==
  \A c \in Clusters :
    live'[c].statefulSet.exists => live[c].statefulSet.exists \/ live[c].configMap.exists

\* Stores of other kinds, and of a StatefulSet that is there.
LEMMA StoreMounts ==
  ASSUME LiveType, NEW c \in Clusters, NEW kind \in Kinds, NEW o, Store(c, kind, o),
         kind = "statefulSet" /\ o.exists => live[c].statefulSet.exists \/ live[c].configMap.exists
  PROVE  MountsExist
<1>1. live[c] \in ChildObjects
  BY DEF LiveType
<1>2. [live[c] EXCEPT ![kind] = o].statefulSet \in {live[c].statefulSet} \cup
        (IF kind = "statefulSet" THEN {o} ELSE {})
  BY <1>1 DEF ChildObjects, Kinds
<1>3. /\ live'[c] = [live[c] EXCEPT ![kind] = o]
      /\ \A d \in Clusters \ {c} : live'[d] = live[d]
  BY DEF Store, LiveType
<1>4. live'[c].statefulSet.exists => live[c].statefulSet.exists \/ live[c].configMap.exists
  <2>1. CASE kind = "statefulSet" /\ live'[c].statefulSet = o
    BY <2>1
  <2>2. CASE live'[c].statefulSet = live[c].statefulSet
    BY <2>2
  <2> QED
    BY <1>2, <1>3, <2>1, <2>2
<1> QED
  BY <1>3, <1>4 DEF MountsExist

LEMMA StepMounts ==
  ASSUME TypeOK, OrderInvariant, Step
  PROVE  MountsExist
<1>1. LiveType /\ key \in Clusters
  BY DEF TypeOK, LiveType
<1>2. CASE UNCHANGED live
  BY <1>2 DEF MountsExist
<1>3. CASE ReconcileConfigMap \/ ReconcileService
  <2>1. UNCHANGED live \/ \E kind \in Kinds \ {"statefulSet"} : \E o : Store(key, kind, o)
    BY <1>3 DEF ReconcileConfigMap, ReconcileService, CreateOrUpdate, Kinds
  <2> QED
    BY <1>1, <1>2, <2>1, StoreMounts
<1>4. CASE ReconcileStatefulSet
  <2>1. UNCHANGED live \/ \E o : Store(key, "statefulSet", o)
    BY <1>4 DEF ReconcileStatefulSet, CreateOrUpdate
  <2>2. live[key].configMap.exists
    BY <1>4 DEF ReconcileStatefulSet, OrderInvariant, WorkerReady, Mounting
  <2> QED
    BY <1>1, <1>2, <2>1, <2>2, StoreMounts DEF Kinds
<1>5. CASE ~ ReconcileConfigMap /\ ~ ReconcileService /\ ~ ReconcileStatefulSet
  <2>1. UNCHANGED live
    BY <1>5 DEF Step, InitialPhase, MarkUpgrading, Observe, AddFinalizer, ProvisionBucket,
       RecordBucket, UpdateStatus, DeleteBucket, RemoveFinalizer, StatusPatch, FinalizerPatch,
       Patch, children
  <2> QED
    BY <1>2, <2>1
<1> QED
  BY <1>3, <1>4, <1>5

LEMMA ChildMounts ==
  ASSUME TypeOK, NEW c \in Clusters, NEW kind \in Kinds,
         \/ ChildDeleted(c, kind) \/ CollectGarbage(c, kind)
         \/ PodBecomesReady(c) \/ PodStopped(c) \/ PodFails(c)
  PROVE  MountsExist
<1>1. LiveType
  BY DEF TypeOK, LiveType
<1>2. CASE ChildDeleted(c, kind) \/ CollectGarbage(c, kind)
  <2>1. Store(c, kind, NoChildren[kind])
    BY <1>2 DEF ChildDeleted, CollectGarbage
  <2>2. ~ NoChildren["statefulSet"].exists
    BY DEF NoChildren, NoStatefulSet
  <2> QED
    BY <1>1, <2>1, <2>2, StoreMounts
<1>3. CASE PodBecomesReady(c) \/ PodStopped(c) \/ PodFails(c)
  <2>1. PICK updated, outdated :
          Store(c, "statefulSet", [live[c].statefulSet EXCEPT !.updated = updated,
                                                              !.outdated = outdated])
    BY <1>3 DEF PodBecomesReady, PodStopped, PodFails, SetPods
  <2>2. live[c].statefulSet
          \in [exists : BOOLEAN, owner : Nat, replicas : Nat,
               version : Versions \cup {NoVersion}, updated : Nat, outdated : Nat]
    BY <1>1 DEF LiveType, ChildObjects
  <2>3. [live[c].statefulSet EXCEPT !.updated = updated, !.outdated = outdated].exists
          = live[c].statefulSet.exists
    BY <2>2
  <2> QED
    BY <1>1, <2>1, <2>3, StoreMounts DEF Kinds
<1> QED
  BY <1>2, <1>3

\* The StatefulSet is created after the ConfigMap its pods mount, from however
\* stale a cache, through failing calls, restarts and the loss of pods, if
\* nobody deletes a cluster or a child. With deletions it is not so: the
\* ConfigMap may go while a reconcile is between the two.
\* (resources.go:92, databasecluster_controller.go:89-153)
THEOREM SettingsPrecedePods == NoDeletions => (Spec => ConfigMapFirst)
<1> SUFFICES ASSUME NoDeletions PROVE Spec => ConfigMapFirst
  OBVIOUS
<1>1. Init => TypeOK /\ OrderInvariant
  BY InitType, OrderInit
<1>2. TypeOK /\ OrderInvariant /\ [Next]_vars => TypeOK' /\ OrderInvariant'
  BY NextType, OrderNext
<1>3. TypeOK /\ OrderInvariant /\ [Next]_vars => MountsExist \/ UNCHANGED vars
  <2> SUFFICES ASSUME TypeOK, OrderInvariant, Next PROVE MountsExist
    OBVIOUS
  <2>1. CASE UNCHANGED live
    BY <2>1 DEF MountsExist
  <2>2. ASSUME NEW c \in Clusters, NEW kind \in Kinds,
               \/ Reconcile(c) \/ Sync(c) \/ TimerFires(c) \/ SyncChild(c, kind)
               \/ UserCreates(c) \/ UserEdits(c) \/ UserDeletes(c)
               \/ ForeignFinalizerAdded(c) \/ ForeignFinalizerRemoved(c)
        PROVE  UNCHANGED live
    BY <2>2 DEF Reconcile, Sync, TimerFires, SyncChild, UserCreates, UserEdits, UserDeletes,
       ForeignFinalizerAdded, ForeignFinalizerRemoved, children
  <2>3. CASE Restart
    BY <2>1, <2>3 DEF Restart
  <2> QED
    BY <2>1, <2>2, <2>3, StepMounts, ChildMounts DEF Next, Kinds
<1> QED
  BY <1>1, <1>2, <1>3, PTL DEF Spec, ConfigMapFirst, MountsExist
=============================================================================
