SPECIFICATION LiveSpec
CONSTANTS
  Event = {"created"}
  Payment = {"pay"}
  PaymentOf <- MCPaymentOf
  Verdict <- PlainVerdict
  Snapshot <- PlainSnapshot
  NoSnapshot = {}
  Request = {"c1", "c2"}
  EventOf <- MCEventOf
  Worker = {w1}
  MaxAttempts = 2
  BaseDelay = 1
  MaxDelay = 2
  Lease = 1
  Limit = 2
  Horizon = 6
  MaxFaults = 2

PROPERTIES RowsSettle
CHECK_DEADLOCK FALSE
