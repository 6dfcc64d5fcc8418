SPECIFICATION FairSpec
CONSTANTS
  Versions = {"15.4"}
  MaxReplicas = 1
  Configs <- OneConfig
  Defaults <- OneSetting
  Clusters = {"prod"}
  NameOf <- DistinctNames
  StoreDurable = TRUE
  MaxLag = 2
  Budgets <- Upkeep
  UserSpecs <- BackupOn
INVARIANT NothingLeftUndone
PROPERTIES Converges DeletionCompletes BackupProvisioned
CHECK_DEADLOCK FALSE
