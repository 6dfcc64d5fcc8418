SPECIFICATION FairSpec
CONSTANTS
  Keys = {prod, staging}
  Values <- TwoValues
  None = None
  Garbage = Garbage
  Writers = {p1}
  Watchers = {"watchLoop"}
  EventCap = 3
  MaxRevision = 3
  Versions = {"15.4", "15.5"}
  MaxReplicas = 1
  QueueCap = 3
INVARIANTS NoKeyForgotten WorkBounded
PROPERTIES IsLevelTriggered Converges
CHECK_DEADLOCK FALSE
