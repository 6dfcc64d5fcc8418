SPECIFICATION Spec
CONSTANTS
  Versions = {"15.4"}
  MaxReplicas = 1
  Configs <- OneConfig
  Defaults <- TwoSettings
  Clusters = {"prod"}
  NameOf <- DistinctNames
  StoreDurable = TRUE
  MaxLag = 2
  Budgets <- Quiet
  UserSpecs <- NoBackup
PROPERTY ConfigMapStable
CHECK_DEADLOCK FALSE
