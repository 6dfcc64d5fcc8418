SPECIFICATION RandomSpec
CONSTANTS
  Versions = {"15.4", "15.5"}
  MaxReplicas = 2
  Configs <- TwoConfigs
  Defaults <- TwoSettings
  Clusters = {"prod"}
  NameOf <- DistinctNames
  StoreDurable = TRUE
  MaxLag = 2
  Budgets <- OneEdit
  UserSpecs <- Rollouts
INVARIANT NothingLeftUndone
PROPERTIES Converges ConfigMapFirst Settles
CHECK_DEADLOCK FALSE
