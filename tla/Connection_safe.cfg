SPECIFICATION Spec
CONSTANTS
  ui = ui
  web = web
  Procs = {ui, web}
  OnlyWhenProcessing = {web}
  ExitOnFailure = {web}
  WithSecondary = {web}
  MayInvalidate = {ui}
  MayCrash = {}
  Timeouts = TRUE
  DelayedReplies = TRUE
  Unix = FALSE
  Resets = TRUE
  WireCapacity = 8
  MaxSends <- Sends12
INVARIANTS
  TypeOK
  NoLostWakeup
  PendingMatchesStack
  RequestInOnePlace
  UnmarkedSyncOvertakesNothing
CHECK_DEADLOCK FALSE
