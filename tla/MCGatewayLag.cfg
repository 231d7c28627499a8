SPECIFICATION Spec
CONSTANTS
  Conn = {c1}
  InboundCapacity = 1
  RingCapacity = 1
  Emissions = {0, 2}
  FrameKinds = {"command", "malformed", "unknown", "empty"}
  MaxFrames = 2
  MaxMessages = 4
PROPERTIES LaggedIsClosed
CHECK_DEADLOCK FALSE
