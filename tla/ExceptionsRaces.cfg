SPECIFICATION Spec
CONSTANTS
  Recorder = {r1, r2}
  Operator = {o1, o2}
  Subject = {"event"}
  CauseOf <- FewCauses
  MaxFaults = 1
  MaxRows = 2
CONSTRAINT FewRows
SYMMETRY Symmetry
INVARIANTS
  DetectedOnce
  EvidenceGap
PROPERTIES
  NeverReopened
CHECK_DEADLOCK FALSE
