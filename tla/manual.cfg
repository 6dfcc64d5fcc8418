SPECIFICATION Spec
CONSTANTS
  Names = {production, staging}
  Versions = {"15.3", "15.4"}
  MaxReplicas = 2
  Urls = {s3}
  None = None
INVARIANT FailedUpgradeShows
PROPERTY VersionsAreReached
SYMMETRY Interchangeable
CHECK_DEADLOCK FALSE
