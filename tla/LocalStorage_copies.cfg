SPECIFICATION Spec
CONSTANTS
  p = p
  q = q
  k1 = k1
  k2 = k2
  v1 = v1
  Null = Null
  Procs = {p, q}
  Keys = {k1, k2}
  Values = {v1}
  Setters = {p, q}
  Clearers = {p}
  Quota = 1
  QueueInOrder = TRUE
  MaxOps = 3
  MaxDeletes = 1
INVARIANTS
  QuietCopiesAgree
  OwnChangeShows
  MarkersMatchAcks
CHECK_DEADLOCK FALSE
