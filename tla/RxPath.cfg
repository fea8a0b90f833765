\* FIFO and ring of two frames each, so that both overflow, and enough frames
\* for the one to overflow while the other drains.
CONSTANTS
  NoFrame = 0
  Frame = {1, 2, 3, 4, 5}
  RingLen = 3
  FifoDepth = 2
  MaxFrames = 5
  Policies = {"thread", "all"}
SPECIFICATION PathSpec
INVARIANTS
  PathTypeOK
  EachFrameOnceInOrder
  LossRemembered
  ReceiveNeverWaits
PROPERTIES
  ImplementsDelivery
  EveryFrameReadOrLost
  LossReported
  HandlerSettles
