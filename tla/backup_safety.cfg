SPECIFICATION Spec
CONSTANTS
  Versions = {"15.4"}
  MaxReplicas = 1
  Configs <- OneConfig
  Defaults <- OneSetting
  Clusters = {"prod"}
  NameOf <- DistinctNames
  StoreDurable = TRUE
  MaxLag = 2
  Budgets <- Lives
  UserSpecs <- BackupOnOff
INVARIANTS TypeOK TrackingInvariant NoOrphanBucket ProvisionedHasBucket NothingLeftUndone
PROPERTY FollowsLifecycle
CHECK_DEADLOCK FALSE
