SPECIFICATION FairSpec
CONSTANTS
  t1 = t1
  t2 = t2
  t3 = t3
  r1 = r1
  r2 = r2
  r3 = r3
  NoToken = NoToken
  Token <- MCTokens
  Initial <- MCOne
  Request <- MCRequests
  MaxConcurrency = 1
  NodeLimit = 0
  MaxQuota = 1
  MaxRetries = 1
  Outcome <- MCPaired
  Tripping <- MCNone
  Deleting = FALSE
  AutoRemoveLimited = TRUE
  AutoRemoveInvalid = FALSE
INVARIANTS
  SlotsCounted
PROPERTIES
  EventuallyQuiet
CHECK_DEADLOCK FALSE
