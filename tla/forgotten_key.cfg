SPECIFICATION Spec
CONSTANTS
  Keys = {prod, staging}
  Values <- TwoValues
  None = None
  Garbage = Garbage
  Writers = {p1}
  Watchers = {"watchLoop"}
  EventCap = 1
  MaxRevision = 3
  Versions = {"15.4", "15.5"}
  MaxReplicas = 1
  QueueCap = 1
INVARIANT NoKeyForgotten
CHECK_DEADLOCK FALSE
