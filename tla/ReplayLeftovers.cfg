SPECIFICATION Spec
CONSTANTS
  MaxLen = 3
  Event <- MCEvent
  Inputs <- MCInputs
  Scope = "p1"
INVARIANT ImpossibleLeftoversConflict
CHECK_DEADLOCK FALSE
