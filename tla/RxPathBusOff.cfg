\* A node that goes bus-off and stays so.
CONSTANTS
  NoFrame = 0
  Frame = {1}
  RingLen = 3
  FifoDepth = 2
  MaxFrames = 1
  Policies = {"thread"}
SPECIFICATION PathSpec
PROPERTY
  BusOffDelivered
