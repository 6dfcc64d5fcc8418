-------------------------- MODULE MCDatabaseCluster --------------------------
(***************************************************************************)
(* Small instances of DatabaseClusterSystem for TLC.                       *)
(***************************************************************************)
EXTENDS BackupInvariant, TLC

\* The builder has eleven settings. Two lines make every rendering come in two
\* orders; with one line there is a single rendering, where the order does not
\* matter for what is asked.
OneSetting == [max_connections |-> 100]
TwoSettings == [max_connections |-> 100, wal_buffers |-> 16]

NoConfig == [k \in {} |-> 0]
MoreConnections == [max_connections |-> 200]

OneConfig == {NoConfig}
TwoConfigs == {NoConfig, MoreConnections}

DistinctNames == [c \in Clusters |-> c]
OneName == [c \in Clusters |-> "prod"]

\* Clusters that are model values are interchangeable: nothing orders them.
AnyOrder == Permutations(Clusters)

\* Specs that differ in the backup schedule only.
BackupOnOff == [replicas : {1}, version : {"15.4"}, backup : BOOLEAN, config : OneConfig]
BackupOn == { s \in BackupOnOff : s.backup }

\* Specs without a schedule. An edit from one of the Rollouts to the other
\* scales, upgrades and reconfigures, in either direction.
NoBackup == { s \in DatabaseClusterSpec : ~ s.backup }
Upgrades == { s \in NoBackup : s.replicas = MaxReplicas }
Rollouts ==
  { [replicas |-> 1, version |-> "15.4", backup |-> FALSE, config |-> MoreConnections],
    [replicas |-> 2, version |-> "15.5", backup |-> FALSE, config |-> NoConfig] }

SameSize == { s \in DatabaseClusterSpec : s.replicas = MaxReplicas }
BackedUp == { s \in SameSize : s.backup }

Events(create, edit, delete, foreign, child, pod, fault, restart) ==
  [create |-> create, edit |-> edit, delete |-> delete, foreign |-> foreign,
   child |-> child, pod |-> pod, fault |-> fault, restart |-> restart]

Lives     == { Events(2, 0, 1, 0, 0, 0, 0, 0), Events(1, 1, 1, 0, 0, 0, 1, 0),
               Events(1, 1, 1, 0, 0, 0, 0, 1) }
Deletions == { Events(1, 0, 1, 1, 0, 0, 0, 0), Events(1, 0, 1, 0, 0, 0, 1, 0),
               Events(1, 0, 1, 0, 0, 0, 0, 1), Events(2, 0, 1, 0, 0, 0, 0, 0) }
Damages   == { Events(1, 0, 0, 0, 1, 0, 1, 0), Events(1, 0, 0, 0, 1, 0, 0, 1),
               Events(1, 0, 0, 0, 0, 1, 1, 0), Events(1, 0, 0, 0, 0, 0, 1, 1) }
Upkeep    == Deletions \cup Damages
TwoOfThem == { Events(2, 0, 1, 0, 0, 0, 0, 0) }
OneEdit   == { Events(1, 1, 0, 0, 0, 0, 0, 0) }
Quiet     == { Events(1, 0, 0, 0, 0, 0, 0, 0) }
=============================================================================
