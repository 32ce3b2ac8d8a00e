SPECIFICATION Spec
CONSTANTS
  Event = {"created", "recreated"}
  Payment = {"pay"}
  PaymentOf <- MCPaymentOf
  Verdict <- MCVerdict
  Snapshot <- MCSnapshot
  NoSnapshot <- MCNoSnapshot
  Request = {"c1", "n1"}
  EventOf <- MCEventOf
  Worker = {w1}
  MaxAttempts = 2
  BaseDelay = 1
  MaxDelay = 2
  Lease = 1
  Limit = 2
  Horizon = 1
  MaxFaults = 1
INVARIANTS SucceededMeansApplied ProjectionHasCause
PROPERTIES AppliedIsFinal
CHECK_DEADLOCK FALSE
VIEW View
