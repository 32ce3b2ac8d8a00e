SPECIFICATION LiveSpec
CONSTANTS
  Event = {"created"}
  Payment = {"pay"}
  PaymentOf <- MCPaymentOf
  Verdict <- PlainVerdict
  Snapshot <- PlainSnapshot
  NoSnapshot = {}
  Request = {"c1"}
  EventOf <- MCEventOf
  Worker = {w1}
  MaxAttempts = 2
  BaseDelay = 1
  MaxDelay = 2
  Lease = 1
  Limit = 2
  Horizon = 12
  MaxFaults = 1
CHECK_DEADLOCK FALSE
PROPERTY StoredEventsSettle
