\* The application of the README: one MessageRead per RECEIVE event.
CONSTANTS
  NoFrame = 0
  Frame = {1, 2}
  RingLen = 3
  FifoDepth = 2
  MaxFrames = 2
  Policies = {"one"}
SPECIFICATION PathSpec
PROPERTY
  EveryFrameReadOrLost
