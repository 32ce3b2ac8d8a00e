SPECIFICATION Spec
CONSTANTS
  ToleranceSeconds = 1
  MaxBodyBytes = 2
  MaxAmount = 8
  RazorpaySecret = TRUE
  Request = {r1, r2}
  Worker = {w1}
  Delivery = {"created", "repriced", "respelled", "coarse", "held", "reopened",
              "rzpHeld", "unfit", "huge", "thirtieth", "farAway", "forged", "stale",
              "unsigned", "misshapen", "stranger", "text", "long", "garbled",
              "unnamed", "unmapped"}
  Content <- MCContent
  Traffics <- MCTraffics
  MaxAttempts = 2
INVARIANTS
  AnswersAreTrue
  OnlyAuthenticStored
  AuditTellsOutcome
  ReceivedOnce
  DeadLettersAreRaised
  CountersBalance
PROPERTIES
  RedeliverySettles
CHECK_DEADLOCK FALSE
