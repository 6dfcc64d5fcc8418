SPECIFICATION Spec
CONSTANTS
  Versions = {"15.4", "15.5"}
  MaxReplicas = 1
  Configs <- OneConfig
  Defaults <- OneSetting
  Clusters = {"prod"}
  NameOf <- DistinctNames
  StoreDurable = TRUE
  MaxLag = 3
  Budgets <- OneEdit
  UserSpecs <- SameSize
PROPERTY UpgradeAnnounced
CHECK_DEADLOCK FALSE
