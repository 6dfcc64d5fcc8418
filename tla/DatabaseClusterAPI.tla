------------------------- MODULE DatabaseClusterAPI -------------------------
(***************************************************************************)
(* The DatabaseCluster resource as the reconciler sees it: the fields of   *)
(* spec and status (api/v1alpha1/databasecluster_types.go), and what the   *)
(* API server and the client library do with a merge patch.                *)
(*                                                                         *)
(* StorageSize, LastBackupTime, labels and the wording of reasons and      *)
(* messages are left out: the reconciler never reads them back.            *)
(***************************************************************************)
EXTENDS Integers, Sequences

CONSTANTS
  Versions,     \* PostgreSQL versions a spec may ask for (strings)
  MaxReplicas,  \* 10 in the CRD's validation marker
  Configs       \* the values of spec.postgresConfig

NoVersion == ""

ASSUME VersionsAssumption == Versions # {} /\ NoVersion \notin Versions
ASSUME ReplicasAssumption == MaxReplicas \in Nat \ {0}
ASSUME ConfigsAssumption == Configs # {}

FinalizerName == "databases.madmmas.dev/backup-cleanup"

\* Some other controller's finalizer: a user may add one to any object.
ForeignFinalizer == "example.com/foreign"

Finalizers == {FinalizerName, ForeignFinalizer}

\* "" is the phase of a resource no reconcile has touched. The reconciler
\* never assigns PhaseFailed.
Phases == {"", "Provisioning", "Running", "Upgrading", "Degraded"}

ConditionTypes == {"Ready", "Degraded", "Upgrading", "BackupHealthy"}

DatabaseClusterSpec ==
  [replicas : 1..MaxReplicas, version : Versions, backup : BOOLEAN, config : Configs]

\* quoted: the number of ready replicas the message quotes. It is kept because
\* two conditions that differ only there still make the patch carry the list.
Condition ==
  [status : {"Unset", "True", "False"}, generation : Nat, quoted : Nat]

Unset == [status |-> "Unset", generation |-> 0, quoted |-> 0]

DatabaseClusterStatus ==
  [phase : Phases, readyReplicas : Nat, currentVersion : Versions \cup {NoVersion},
   backupBucketProvisioned : BOOLEAN, observedGeneration : Nat,
   conditions : [ConditionTypes -> Condition]]

NoConditions == [t \in ConditionTypes |-> Unset]

NoStatus ==
  [phase |-> "", readyReplicas |-> 0, currentVersion |-> NoVersion,
   backupBucketProvisioned |-> FALSE, observedGeneration |-> 0,
   conditions |-> NoConditions]

DatabaseCluster ==
  [exists : BOOLEAN, uid : Nat, generation : Nat, deleting : BOOLEAN,
   finalizers : SUBSET Finalizers, spec : DatabaseClusterSpec,
   status : DatabaseClusterStatus]

AnySpec == CHOOSE s \in DatabaseClusterSpec : TRUE

\* A name that holds no object. The uid is that of the last object that had
\* the name, so that the next one gets a new uid.
NoObject(uid) ==
  [exists |-> FALSE, uid |-> uid, generation |-> 0, deleting |-> FALSE,
   finalizers |-> {}, spec |-> AnySpec, status |-> NoStatus]

Created(uid, spec) ==
  [exists |-> TRUE, uid |-> uid, generation |-> 1, deleting |-> FALSE,
   finalizers |-> {}, spec |-> spec, status |-> NoStatus]

\* The finalizer that says the object's bucket is still to be cleaned up.
Tracked(o) == o.exists /\ FinalizerName \in o.finalizers

-----------------------------------------------------------------------------
(* setCondition: metav1.SetStatusCondition with the object's generation.   *)

setCondition(conditions, type, status, generation, quoted) ==
  [conditions EXCEPT ![type] =
     [status |-> status, generation |-> generation, quoted |-> quoted]]

-----------------------------------------------------------------------------
(* client.MergeFrom(base) sends the fields in which the modified copy      *)
(* differs from base, whatever the server holds by then: no resource       *)
(* version goes with it, and a list is sent whole.                         *)

PatchField(live, base, new) == IF new = base THEN live ELSE new

PatchStatus(live, base, new) ==
  [phase |-> PatchField(live.phase, base.phase, new.phase),
   readyReplicas |-> PatchField(live.readyReplicas, base.readyReplicas, new.readyReplicas),
   currentVersion |-> PatchField(live.currentVersion, base.currentVersion, new.currentVersion),
   backupBucketProvisioned |->
     PatchField(live.backupBucketProvisioned, base.backupBucketProvisioned,
                new.backupBucketProvisioned),
   observedGeneration |->
     PatchField(live.observedGeneration, base.observedGeneration, new.observedGeneration),
   conditions |-> PatchField(live.conditions, base.conditions, new.conditions)]

-----------------------------------------------------------------------------
(* The response of a patch is decoded into the caller's object: the whole  *)
(* of it, spec included, becomes what the server holds now. A field with   *)
(* omitempty that is zero on the server is absent from the response, and   *)
(* the caller keeps its own value.                                         *)

Received(resp, into, zero) == IF resp = zero THEN into ELSE resp

DecodeStatus(resp, into) ==
  [phase |-> Received(resp.phase, into.phase, ""),
   readyReplicas |-> Received(resp.readyReplicas, into.readyReplicas, 0),
   currentVersion |-> Received(resp.currentVersion, into.currentVersion, NoVersion),
   backupBucketProvisioned |-> resp.backupBucketProvisioned \/ into.backupBucketProvisioned,
   observedGeneration |-> Received(resp.observedGeneration, into.observedGeneration, 0),
   conditions |-> Received(resp.conditions, into.conditions, NoConditions)]

\* postgresConfig merges key by key; the reconciler never reads it after a
\* patch, so it is taken as sent.
Decode(resp, into) ==
  [resp EXCEPT !.deleting = @ \/ into.deleting,
               !.finalizers = Received(@, into.finalizers, {}),
               !.spec.backup = @ \/ into.spec.backup,
               !.status = DecodeStatus(@, into.status)]
=============================================================================
