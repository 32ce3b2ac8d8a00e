SPECIFICATION TimelySpec
CONSTANTS
  Event = {"created"}
  Payment = {"pay"}
  PaymentOf <- MCPaymentOf
  Verdict <- MCVerdict
  Snapshot <- MCSnapshot
  NoSnapshot <- MCNoSnapshot
  Request = {"c1", "c2"}
  EventOf <- MCEventOf
  Worker = {w1, w2}
  MaxAttempts = 2
  BaseDelay = 1
  MaxDelay = 2
  Lease = 2
  Limit = 2
  Horizon = 3
  MaxFaults = 1
INVARIANTS SingleHolder AttemptBudget DeadLettersAgree
PROPERTIES ImplementsLifecycle
CHECK_DEADLOCK FALSE
VIEW View
SYMMETRY Workers
