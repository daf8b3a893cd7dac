CONSTANTS
  p = p
  q = q
  Procs = {p, q}
  MaxRuns = 1
  MaxLives = 1
  Environments <- NothingFails
  NoProgram = NoProgram
  ForeignGeneric = ForeignGeneric
  ForeignNative = ForeignNative
SPECIFICATION Spec
CHECK_DEADLOCK FALSE
PROPERTIES
  DetachRemovesOwnProgram
