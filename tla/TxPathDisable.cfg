\* The event callback switches the event layer off.
CONSTANTS
  TxqDepth = 2
  HasTimeout = TRUE
  Policies = {"isr_disable"}
SPECIFICATION TxSpec
INVARIANT
  NothingRearms
