CONSTANTS
  FrameSet <- Fragments
SPECIFICATION Spec
INVARIANTS
  PortsAreTransportPorts
