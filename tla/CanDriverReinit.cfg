CONSTANTS
  Rate = {r500k, none}
  Solvable = {r500k}
  HasTimeout = TRUE
  Reinit = TRUE
SPECIFICATION Spec
PROPERTY
  UninitializeIsDeinit
