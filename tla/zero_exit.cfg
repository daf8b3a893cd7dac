CONSTANTS
  p = p
  q = q
  Procs = {p}
  MaxRuns = 1
  MaxLives = 1
  Environments <- PollMayFail
  NoProgram = NoProgram
  ForeignGeneric = ForeignGeneric
  ForeignNative = ForeignNative
SPECIFICATION Spec
CHECK_DEADLOCK FALSE
INVARIANTS
  ZeroExitMeansStopRequested
