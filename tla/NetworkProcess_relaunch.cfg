SPECIFICATION NetworkSpec
CONSTANTS
  WebProcesses <- MCWebProcesses
  Loads <- MCLoads
  Owner <- MCOwner
  SerialProcesses <- MCSerialProcesses
  MaxLaunches = 2
INVARIANTS
  RepliesMatchRequests
  LoadInOnePlace
  InitializedFirst
CHECK_DEADLOCK FALSE
PROPERTIES
  RequestsAnswered
  LoadsEnd
