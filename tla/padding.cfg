CONSTANTS
  FrameSet <- AckFrames
SPECIFICATION Spec
INVARIANTS
  PayloadIsApplicationData
