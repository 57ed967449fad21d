SPECIFICATION FairSpec
CONSTANTS
  f = f
  g = g
  h = h
  Functions = {f, g, h}
  Dispatches <- OneDispatches
  MaxTime = 2
INVARIANTS
  RunsOnce
PROPERTIES
  EverythingRuns
  WorkerRunsTheRest
CHECK_DEADLOCK FALSE
