CONSTANTS
  p = p
  q = q
  Procs = {p, q}
  MaxRuns = 2
  MaxLives = 2
  Environments <- AllEnvironments
  NoProgram = NoProgram
  ForeignGeneric = ForeignGeneric
  ForeignNative = ForeignNative
SYMMETRY AnyOrder
SPECIFICATION Spec
CHECK_DEADLOCK FALSE
INVARIANTS
  TypeOK
  NoStrayProgram
  OnlyOverwrittenLeaks
  HandlesStayValid
  NoFailureBehindZero
  ListensToOwnProgram
  CapturedForReader
PROPERTIES
  StopBringsExitNearer
  ImplementsSessions
