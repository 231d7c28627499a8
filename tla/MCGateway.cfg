SPECIFICATION FairSpec
CONSTANTS
  Conn = {c1, c2}
  InboundCapacity = 1
  RingCapacity = 1
  Emissions = {0, 2}
  FrameKinds = {"command", "malformed", "unknown", "empty"}
  MaxFrames = 2
  MaxMessages = 4
INVARIANTS GatewayTypeOK InOrderOnce NoSilentGap
PROPERTIES AcceptedExecuted  ImplementsFeed
CHECK_DEADLOCK FALSE
