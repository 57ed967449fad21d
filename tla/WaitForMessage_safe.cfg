SPECIFICATION Spec
CONSTANTS
  w1 = w1
  w2 = w2
  s1 = s1
  o1 = o1
  Awaited = {w1, w2}
  Syncs = {s1}
  Others = {o1}
  Interrupt = TRUE
  MaxWaits = 2
INVARIANTS
  RestInOrder
PROPERTIES
  LostOnlyWhenHandedOver
CHECK_DEADLOCK FALSE
