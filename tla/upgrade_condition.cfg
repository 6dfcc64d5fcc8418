SPECIFICATION FairSpec
CONSTANTS
  Versions = {"15.4", "15.5"}
  MaxReplicas = 2
  Configs <- OneConfig
  Defaults <- OneSetting
  Clusters = {"prod"}
  NameOf <- DistinctNames
  StoreDurable = TRUE
  MaxLag = 2
  Budgets <- OneEdit
  UserSpecs <- Upgrades
PROPERTY UpgradingClears
CHECK_DEADLOCK FALSE
