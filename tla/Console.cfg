SPECIFICATION Spec
CONSTANTS
  Request = {r1, r2}
  Tab = {1, 2}
  Story <- MCStory
  Hooks <- MCHooks
  Plans <- MCPlans
  MaxWebhooks = 2
  MaxRetries = 2
  MaxAudit = 9
  TimelineLimit = 80
INVARIANTS
  AnswersGrounded
  NoEvidenceOfItsOwn
  RecordsAudited
  EvidenceSound
  PagesShowTheirOwn
  TimelinesTell
PROPERTIES
  NeverOlder
  ClicksSettle
CHECK_DEADLOCK FALSE
