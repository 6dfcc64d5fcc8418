SPECIFICATION Spec
CONSTANTS
  Versions = {"15.4"}
  MaxReplicas = 1
  Configs <- OneConfig
  Defaults <- OneSetting
  Clusters = {east, west}
  NameOf <- OneName
  StoreDurable = TRUE
  MaxLag = 2
  Budgets <- TwoOfThem
  UserSpecs <- BackupOn
INVARIANT ProvisionedHasBucket
SYMMETRY AnyOrder
CHECK_DEADLOCK FALSE
