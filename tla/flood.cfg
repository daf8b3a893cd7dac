CONSTANTS
  p = p
  Procs = {p}
  MaxRuns = 1
  MaxLives = 1
  Environments <- NothingFails
  NoProgram = NoProgram
  ForeignGeneric = ForeignGeneric
  ForeignNative = ForeignNative
  f1 = f1
  Frames = {f1}
  PayloadLength <- Short
  MaxPayload = 1
  Capacity = 2
  NoRecord = NoRecord
  Endless = TRUE
SPECIFICATION SystemSpec
CHECK_DEADLOCK FALSE
PROPERTIES
  StopLeadsToExit
