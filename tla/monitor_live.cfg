CONSTANTS
  p = p
  q = q
  Procs = {p, q}
  MaxRuns = 1
  MaxLives = 2
  Environments <- NothingFails
  NoProgram = NoProgram
  ForeignGeneric = ForeignGeneric
  ForeignNative = ForeignNative
SPECIFICATION FairSpec
CHECK_DEADLOCK FALSE
PROPERTIES
  OrphanIsCleared
