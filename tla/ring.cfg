CONSTANTS
  c1 = c1
  c2 = c2
  Cpus = {c1, c2}
  empty = empty
  short = short
  long = long
  Frames = {empty, short, long}
  PayloadLength <- Lengths
  MaxPayload = 2
  Capacity = 2
  MaxRecords = 4
  NoRecord = NoRecord
  Blank = Blank
SPECIFICATION FairSpec
CHECK_DEADLOCK FALSE
INVARIANTS
  TypeOK
  HandedIsCaptured
  SlotsAreExclusive
PROPERTIES
  ImplementsChannel
