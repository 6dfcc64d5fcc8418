--------------------------- MODULE ManualOperator ---------------------------
(***************************************************************************)
(* internal/problem/manual_operator.go: an inventory of clusters that an   *)
(* engineer keeps by hand, with steps that fail at random and a status     *)
(* that is only as good as the last look at it. One thread, so an          *)
(* operation is a step; cmd/why-operators runs some of them in one order,  *)
(* here they come in any.                                                  *)
(***************************************************************************)
EXTENDS Integers

CONSTANTS
  Names,
  Versions,
  MaxReplicas,  \* bound on the replicas of a cluster
  Urls,         \* where backups go
  None          \* no cluster of that name, no backup

ASSUME ReplicasAssumption == MaxReplicas \in Nat

VARIABLES
  clusters,  \* the inventory
  answer,    \* what the last operation returned
  broken     \* history: names whose last upgrade failed

vars == <<clusters, answer, broken>>

Statuses == {"Running", "Degraded", "Failed"}

Cluster ==
  [replicas : 0..MaxReplicas, version : Versions, backupURL : Urls \cup {None},
   status : Statuses]

ASSUME NoneAssumption == None \notin Urls /\ None \notin Cluster

Init ==
  /\ clusters = [n \in Names |-> None]
  /\ answer = "ok"
  /\ broken = {}

Known(n) == clusters[n] # None

Fails == answer' = "error" /\ UNCHANGED <<clusters, broken>>

\* Every other operation looks the name up first.
NotFound(n) == ~ Known(n) /\ Fails

\* A name that is in the inventory gets a new entry, without a backup.
Provision(n) ==
  \/ Fails
  \/ \E replicas \in 1..MaxReplicas, version \in Versions :
       /\ clusters' = [clusters EXCEPT ![n] =
                         [replicas |-> replicas, version |-> version, backupURL |-> None,
                          status |-> "Running"]]
       /\ answer' = "ok"
       /\ broken' = broken \ {n}

\* Mutant: a check that finds nothing wrong clears the status.
CheckHealthClears(n) ==
  /\ Known(n)
  /\ \E status \in {"Running", "Degraded"} :
       /\ clusters' = [clusters EXCEPT ![n].status = status]
       /\ answer' = status
  /\ UNCHANGED broken

\* A check may find drift; it never finds that things are well again.
CheckHealth(n) ==
  /\ Known(n)
  /\ \E status \in {clusters[n].status, "Degraded"} :
       /\ clusters' = [clusters EXCEPT ![n].status = status]
       /\ answer' = status
  /\ UNCHANGED broken

CheckUnknown(n) == ~ Known(n) /\ answer' = "Unknown" /\ UNCHANGED <<clusters, broken>>

ScaleUp(n) ==
  /\ Known(n)
  /\ \E additional \in 1..(MaxReplicas - clusters[n].replicas) :
       clusters' = [clusters EXCEPT ![n].replicas = @ + additional]
  /\ answer' = "ok"
  /\ UNCHANGED broken

ScheduleBackup(n) ==
  /\ Known(n)
  /\ \E url \in Urls : clusters' = [clusters EXCEPT ![n].backupURL = url]
  /\ answer' = "ok"
  /\ UNCHANGED broken

\* Mutant: the version is recorded before the rolling restart.
UpgradeFailsRecorded(n) ==
  /\ Known(n)
  /\ \E version \in Versions :
       clusters' = [clusters EXCEPT ![n].status = "Failed", ![n].version = version]
  /\ answer' = "error"
  /\ broken' = broken \cup {n}

\* Whatever the version asked for, it is not reached.
UpgradeFails(n) ==
  /\ Known(n)
  /\ clusters' = [clusters EXCEPT ![n].status = "Failed"]
  /\ answer' = "error"
  /\ broken' = broken \cup {n}

\* Nothing looks at the health after an upgrade: drift found before is gone.
UpgradeSucceeds(n) ==
  /\ Known(n)
  /\ \E version \in Versions :
       clusters' = [clusters EXCEPT ![n].status = "Running", ![n].version = version]
  /\ answer' = "ok"
  /\ broken' = broken \ {n}

Next ==
  \E n \in Names :
    \/ Provision(n) \/ NotFound(n)
    \/ CheckHealth(n) \/ CheckUnknown(n)
    \/ ScaleUp(n) \/ ScheduleBackup(n)
    \/ UpgradeFails(n) \/ UpgradeSucceeds(n)

Spec == Init /\ [][Next]_vars

-----------------------------------------------------------------------------
\* A failed upgrade is never covered up: whatever is checked, scaled or
\* scheduled afterwards, no check reports the cluster as running until an
\* upgrade or a new provisioning has succeeded. (manual_operator.go:76-81,
\* :123-128)
FailedUpgradeShows ==
  \A n \in Names : n \in broken => Known(n) /\ clusters[n].status # "Running"

\* The version in the inventory is one the cluster has reached: it changes only
\* in a step that succeeds and leaves the cluster running. (:127)
VersionsAreReached ==
  [][\A n \in Names :
       Known(n) /\ clusters'[n].version # clusters[n].version
         => answer' = "ok" /\ clusters'[n].status = "Running"]_vars
=============================================================================
