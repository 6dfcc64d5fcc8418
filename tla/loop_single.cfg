SPECIFICATION FairSpec
CONSTANTS
  Keys = {prod}
  Values <- SomeValues
  None = None
  Garbage = Garbage
  Writers = {p1, p2}
  Watchers = {"watchLoop", slow}
  EventCap = 1
  MaxRevision = 3
  Versions = {"15.4", "15.5"}
  MaxReplicas = 1
  QueueCap = 1
INVARIANTS TypeOK NoKeyForgotten
PROPERTIES Converges Settles StopEnds
CHECK_DEADLOCK FALSE
