SPECIFICATION FairSpec
CONSTANTS
  a = a
  b = b
  Connections = {a, b}
  NestedRunLoops = TRUE
  MaxMessages = 2
  MaxSyncSends = 2
INVARIANTS
  ScheduledOnce
  NoDuplicates
PROPERTIES
  EverythingDispatched
CHECK_DEADLOCK FALSE
