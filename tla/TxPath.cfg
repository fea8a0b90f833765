\* A queue of two: it fills, and it empties between any two steps.
CONSTANTS
  TxqDepth = 2
  HasTimeout = TRUE
  Policies = {"nothing", "isr_disable"}
SPECIFICATION TxSpec
INVARIANTS
  TxTypeOK
  DisabledIsSilent
  CompletionArmed
PROPERTIES
  ImplementsTxQueue
  CompletionFollows
  SendReturns
