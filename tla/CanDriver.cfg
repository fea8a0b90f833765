\* Two bit rates with a solution, one without; timeouts at any wait; an
\* application that initializes a driver only while it is not powered.
CONSTANTS
  Rate = {r500k, r250k, none}
  Solvable = {r500k, r250k}
  HasTimeout = TRUE
  Reinit = FALSE
SPECIFICATION Spec
INVARIANTS
  TypeOK
  HandlerServed
  AsyncTxGated
  PublicStateAgrees
  OnIffInitialized
  LiveUnlessReported
  OffIsDown
PROPERTIES
  FdFramesInFdMode
  CallReturns
