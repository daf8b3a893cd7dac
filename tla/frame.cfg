CONSTANTS
  FrameSet <- AllFrames
  MaxFrames = 3
SPECIFICATION PathSpec
CHECK_DEADLOCK FALSE
INVARIANTS
  TypeOK
  ReadsInBounds
  RecordIsComplete
  HandlerSeesTheFrame
  EachRecordCountedOnce
  DumpShowsPayload
