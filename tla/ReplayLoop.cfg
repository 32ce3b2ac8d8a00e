SPECIFICATION FairSpec
CONSTANTS
  MaxLen = 4
  Event <- MCEvent
  Inputs <- MCInputs
  Scope = "p1"
INVARIANTS
  LegalHistory
  FixedPoint
  ArrivalOrderIrrelevant
  UnacceptedEventsInert
  UnappliedRaises
  MissingIsForced
PROPERTIES
  DecisionsAreFinal
  Terminates
CHECK_DEADLOCK FALSE
