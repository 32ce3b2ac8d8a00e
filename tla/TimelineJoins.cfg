SPECIFICATION Spec
CONSTANTS
  Request = {r1, r2}
  Tab = {1, 2}
  Story <- MCStory
  Hooks <- MCHooks
  Plans <- MCPair
  MaxWebhooks = 2
  MaxRetries = 2
  MaxAudit = 9
  TimelineLimit = 80
INVARIANTS
  TimelineJoinsByException
CHECK_DEADLOCK FALSE
