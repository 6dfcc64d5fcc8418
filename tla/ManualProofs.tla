---------------------------- MODULE ManualProofs ----------------------------
(***************************************************************************)
(* Proofs about ManualOperator, for any names, versions, replicas and urls.*)
(***************************************************************************)
EXTENDS ManualOperator, TLAPS

Typed ==
  /\ clusters \in [Names -> Cluster \cup {None}]
  /\ broken \subseteq Names

\* What the proof needs of an operation that writes the entry of one name: a
\* name whose upgrade fails, or failed before, is not left running.
Writes(n, entry) ==
  /\ entry \in Cluster
  /\ clusters' = [clusters EXCEPT ![n] = entry]
  /\ \/ broken' = broken \ {n}
     \/ broken' = broken /\ (entry.status = "Running" => clusters[n].status = "Running")
     \/ broken' = broken \cup {n} /\ entry.status = "Failed"

LEMMA WritesKeep ==
  ASSUME Typed, FailedUpgradeShows, NEW n \in Names, NEW entry, Writes(n, entry),
         Known(n) \/ broken' = broken \ {n}
  PROVE  Typed' /\ FailedUpgradeShows'
<1>1. Typed'
  BY DEF Typed, Writes
<1>2. ASSUME NEW m \in Names, m \in broken'
      PROVE  Known(m)' /\ clusters'[m].status # "Running"
  <2>1. CASE m = n
    <3>1. clusters'[m] = entry /\ entry # None
      BY <2>1, NoneAssumption DEF Writes, Typed
    <3>2. entry.status # "Running"
      BY <1>2, <2>1 DEF Writes, FailedUpgradeShows
    <3> QED
      BY <3>1, <3>2 DEF Known
  <2>2. CASE m # n
    <3>1. clusters'[m] = clusters[m] /\ m \in broken
      BY <1>2, <2>2 DEF Writes, Typed
    <3> QED
      BY <3>1 DEF FailedUpgradeShows, Known
  <2> QED
    BY <2>1, <2>2
<1> QED
  BY <1>1, <1>2 DEF FailedUpgradeShows

LEMMA NothingWritten ==
  ASSUME Typed, FailedUpgradeShows, UNCHANGED <<clusters, broken>>
  PROVE  Typed' /\ FailedUpgradeShows'
BY DEF Typed, FailedUpgradeShows, Known

LEMMA ProvisionKeeps ==
  ASSUME Typed, FailedUpgradeShows, NEW n \in Names, Provision(n)
  PROVE  Typed' /\ FailedUpgradeShows'
<1>1. CASE Fails
  BY <1>1, NothingWritten DEF Fails
<1>2. CASE ~ Fails
  <2>1. PICK replicas \in 1..MaxReplicas, version \in Versions :
          /\ clusters' = [clusters EXCEPT ![n] =
                            [replicas |-> replicas, version |-> version, backupURL |-> None,
                             status |-> "Running"]]
          /\ broken' = broken \ {n}
    BY <1>2 DEF Provision
  <2>2. [replicas |-> replicas, version |-> version, backupURL |-> None,
         status |-> "Running"] \in Cluster
    BY ReplicasAssumption DEF Cluster, Statuses
  <2> QED
    BY <2>1, <2>2, WritesKeep DEF Writes
<1> QED
  BY <1>1, <1>2

LEMMA CheckHealthKeeps ==
  ASSUME Typed, FailedUpgradeShows, NEW n \in Names, CheckHealth(n)
  PROVE  Typed' /\ FailedUpgradeShows'
<1>1. Known(n) /\ clusters[n] \in Cluster /\ broken' = broken
  BY DEF CheckHealth, Typed, Known
<1>2. PICK status \in {clusters[n].status, "Degraded"} :
        clusters' = [clusters EXCEPT ![n].status = status]
  BY DEF CheckHealth
<1> DEFINE entry == [clusters[n] EXCEPT !.status = status]
<1>3. entry \in Cluster /\ entry.status = status
  BY <1>1 DEF Cluster, Statuses
<1>4. clusters' = [clusters EXCEPT ![n] = entry]
  BY <1>2
<1> QED
  BY <1>1, <1>3, <1>4, WritesKeep DEF Writes

LEMMA ScaleUpKeeps ==
  ASSUME Typed, FailedUpgradeShows, NEW n \in Names, ScaleUp(n)
  PROVE  Typed' /\ FailedUpgradeShows'
<1>1. Known(n) /\ clusters[n] \in Cluster /\ broken' = broken
  BY DEF ScaleUp, Typed, Known
<1>2. PICK additional \in 1..(MaxReplicas - clusters[n].replicas) :
        clusters' = [clusters EXCEPT ![n].replicas = @ + additional]
  BY DEF ScaleUp
<1> DEFINE entry == [clusters[n] EXCEPT !.replicas = @ + additional]
<1>3. entry \in Cluster /\ entry.status = clusters[n].status
  BY <1>1, ReplicasAssumption DEF Cluster
<1>4. clusters' = [clusters EXCEPT ![n] = entry]
  BY <1>2
<1> QED
  BY <1>1, <1>3, <1>4, WritesKeep DEF Writes

LEMMA ScheduleBackupKeeps ==
  ASSUME Typed, FailedUpgradeShows, NEW n \in Names, ScheduleBackup(n)
  PROVE  Typed' /\ FailedUpgradeShows'
<1>1. Known(n) /\ clusters[n] \in Cluster /\ broken' = broken
  BY DEF ScheduleBackup, Typed, Known
<1>2. PICK url \in Urls : clusters' = [clusters EXCEPT ![n].backupURL = url]
  BY DEF ScheduleBackup
<1> DEFINE entry == [clusters[n] EXCEPT !.backupURL = url]
<1>3. entry \in Cluster /\ entry.status = clusters[n].status
  BY <1>1 DEF Cluster
<1>4. clusters' = [clusters EXCEPT ![n] = entry]
  BY <1>2
<1> QED
  BY <1>1, <1>3, <1>4, WritesKeep DEF Writes

LEMMA UpgradeKeeps ==
  ASSUME Typed, FailedUpgradeShows, NEW n \in Names, UpgradeFails(n) \/ UpgradeSucceeds(n)
  PROVE  Typed' /\ FailedUpgradeShows'
<1>1. Known(n) /\ clusters[n] \in Cluster
  BY DEF UpgradeFails, UpgradeSucceeds, Typed, Known
<1>2. CASE UpgradeFails(n)
  <2> DEFINE entry == [clusters[n] EXCEPT !.status = "Failed"]
  <2>1. entry \in Cluster /\ entry.status = "Failed"
    BY <1>1 DEF Cluster, Statuses
  <2>2. clusters' = [clusters EXCEPT ![n] = entry] /\ broken' = broken \cup {n}
    BY <1>2 DEF UpgradeFails
  <2> QED
    BY <1>1, <2>1, <2>2, WritesKeep DEF Writes
<1>3. CASE UpgradeSucceeds(n)
  <2>1. PICK version \in Versions :
          clusters' = [clusters EXCEPT ![n].status = "Running", ![n].version = version]
    BY <1>3 DEF UpgradeSucceeds
  <2> DEFINE entry == [clusters[n] EXCEPT !.status = "Running", !.version = version]
  <2>2. entry \in Cluster
    BY <1>1 DEF Cluster, Statuses
  <2>3. clusters' = [clusters EXCEPT ![n] = entry] /\ broken' = broken \ {n}
    BY <1>3, <2>1 DEF UpgradeSucceeds, Typed
  <2> QED
    BY <1>1, <2>2, <2>3, WritesKeep DEF Writes
<1> QED
  BY <1>2, <1>3

LEMMA StepKeeps ==
  Typed /\ FailedUpgradeShows /\ [Next]_vars => Typed' /\ FailedUpgradeShows'
<1> SUFFICES ASSUME Typed, FailedUpgradeShows, [Next]_vars
             PROVE  Typed' /\ FailedUpgradeShows'
  OBVIOUS
<1>1. CASE UNCHANGED vars
  BY <1>1, NothingWritten DEF vars
<1>2. ASSUME NEW n \in Names, NotFound(n) \/ CheckUnknown(n)
      PROVE  Typed' /\ FailedUpgradeShows'
  BY <1>2, NothingWritten DEF NotFound, Fails, CheckUnknown
<1> QED
  BY <1>1, <1>2, ProvisionKeeps, CheckHealthKeeps, ScaleUpKeeps, ScheduleBackupKeeps,
     UpgradeKeeps DEF Next

\* A failed upgrade is never covered up, however many clusters there are and
\* whatever is done to them, until an upgrade or a new provisioning succeeds.
\* (manual_operator.go:76-81, :123-128)
THEOREM FailuresShow == Spec => []FailedUpgradeShows
<1>1. Init => Typed /\ FailedUpgradeShows
  BY DEF Init, Typed, FailedUpgradeShows
<1> QED
  BY <1>1, StepKeeps, PTL DEF Spec

-----------------------------------------------------------------------------
VersionKept(n) == Known(n) => clusters'[n].version = clusters[n].version

VersionReached(n) == answer' = "ok" /\ clusters'[n].status = "Running"

LEMMA VersionSteps ==
  ASSUME Typed, Next, NEW m \in Names
  PROVE  VersionKept(m) \/ VersionReached(m)
<1>1. PICK n \in Names :
        \/ Provision(n) \/ NotFound(n)
        \/ CheckHealth(n) \/ CheckUnknown(n)
        \/ ScaleUp(n) \/ ScheduleBackup(n)
        \/ UpgradeFails(n) \/ UpgradeSucceeds(n)
  BY DEF Next
<1>2. \A e \in Cluster : DOMAIN e = {"replicas", "version", "backupURL", "status"}
  BY DEF Cluster
<1>3. clusters[n] \in Cluster \cup {None} /\ clusters \in [Names -> Cluster \cup {None}]
  BY DEF Typed
<1>4. CASE Fails \/ CheckUnknown(n)
  BY <1>4 DEF Fails, CheckUnknown, VersionKept
<1>5. CASE Provision(n) /\ ~ Fails
  BY <1>3, <1>5 DEF Provision, VersionKept, VersionReached
<1>6. CASE CheckHealth(n) \/ ScaleUp(n) \/ ScheduleBackup(n) \/ UpgradeFails(n)
  <2>1. clusters[n] \in Cluster
    BY <1>6 DEF CheckHealth, ScaleUp, ScheduleBackup, UpgradeFails, Typed, Known
  <2>2. \E status, replicas, backupURL :
          \/ clusters' = [clusters EXCEPT ![n].status = status]
          \/ clusters' = [clusters EXCEPT ![n].replicas = replicas]
          \/ clusters' = [clusters EXCEPT ![n].backupURL = backupURL]
    BY <1>6 DEF CheckHealth, ScaleUp, ScheduleBackup, UpgradeFails
  <2> QED
    BY <1>2, <1>3, <2>1, <2>2 DEF VersionKept
<1>7. CASE UpgradeSucceeds(n)
  <2>1. clusters[n] \in Cluster
    BY <1>7 DEF UpgradeSucceeds, Typed, Known
  <2> QED
    BY <1>2, <1>3, <1>7, <2>1 DEF UpgradeSucceeds, VersionKept, VersionReached
<1> QED
  BY <1>1, <1>4, <1>5, <1>6, <1>7 DEF NotFound

\* The inventory never names a version that was not reached: it changes only in
\* a step that succeeds and leaves the cluster running.
\* (manual_operator.go:123-128)
THEOREM VersionsAreTrue == Spec => VersionsAreReached
<1>1. Init => Typed /\ FailedUpgradeShows
  BY DEF Init, Typed, FailedUpgradeShows
<1>2. Typed /\ FailedUpgradeShows /\ [Next]_vars => Typed' /\ FailedUpgradeShows'
  BY StepKeeps
<1>3. Typed /\ Next => \A n \in Names :
        Known(n) /\ clusters'[n].version # clusters[n].version => VersionReached(n)
  BY VersionSteps DEF VersionKept
<1> QED
  BY <1>1, <1>2, <1>3, PTL DEF Spec, VersionsAreReached, VersionReached
=============================================================================
