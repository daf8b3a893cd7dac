CONSTANTS
  p = p
  Procs = {p}
  MaxRuns = 2
  MaxLives = 1
  Environments <- AllClients
  NoProgram = NoProgram
  ForeignGeneric = ForeignGeneric
  ForeignNative = ForeignNative
  f1 = f1
  f2 = f2
  f3 = f3
  Frames = {f1, f2, f3}
  PayloadLength <- Short
  MaxPayload = 1
  Capacity = 2
  NoRecord = NoRecord
  Endless = FALSE
SPECIFICATION SystemSpec
CHECK_DEADLOCK FALSE
INVARIANTS
  FailedRunDeliveredNothing
PROPERTIES
  CapturedReachesHandler
  StopLeadsToExit
  RunHonoursStop
