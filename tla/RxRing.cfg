\* Two distinguishable frames, four slots: three frames buffered, the indices
\* wrap, and the ring fills while a MessageRead is half way.
CONSTANTS
  Frame = {f1, f2}
  NoFrame = NoFrame
  RingLen = 4
SPECIFICATION RingSpec
INVARIANTS
  RingInv
  NoTornRead
PROPERTY
  ImplementsQueue
