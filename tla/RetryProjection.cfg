SPECIFICATION Spec
CONSTANTS
  Event = {"created", "authorized", "captured", "failed"}
  Payment = {"pay"}
  PaymentOf <- MCPaymentOf
  Verdict <- MCVerdict
  Snapshot <- MCSnapshot
  NoSnapshot <- MCNoSnapshot
  Request = {"c1", "a1", "p1", "f1"}
  EventOf <- MCEventOf
  Worker = {}
  MaxAttempts = 2
  BaseDelay = 1
  MaxDelay = 2
  Lease = 1
  Limit = 2
  Horizon = 0
  MaxFaults = 0
INVARIANTS SettledProjection
CHECK_DEADLOCK FALSE
VIEW View
