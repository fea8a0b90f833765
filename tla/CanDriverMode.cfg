CONSTANTS
  Rate = {r500k, none}
  Solvable = {r500k}
  HasTimeout = TRUE
  Reinit = FALSE
SPECIFICATION Spec
INVARIANT
  ModeIsApplied
