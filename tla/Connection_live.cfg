SPECIFICATION FairSpec
CONSTANTS
  ui = ui
  web = web
  Procs = {ui, web}
  OnlyWhenProcessing = {web}
  ExitOnFailure = {web}
  WithSecondary = {web}
  MayInvalidate = {}
  MayCrash = {ui}
  Timeouts = FALSE
  DelayedReplies = FALSE
  Unix = FALSE
  Resets = TRUE
  WireCapacity = 1
  MaxSends <- Sends12
PROPERTIES
  SyncReturnsUnlessCut
  EveryMessageDispatched
CHECK_DEADLOCK FALSE
