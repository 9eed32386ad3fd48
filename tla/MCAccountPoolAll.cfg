SPECIFICATION Spec
CONSTANTS
  t1 = t1
  t2 = t2
  t3 = t3
  r1 = r1
  r2 = r2
  r3 = r3
  NoToken = NoToken
  Token <- MCTwo
  Initial <- MCOne
  Request <- MCRequests
  MaxConcurrency = 1
  NodeLimit = 1
  MaxQuota = 1
  MaxRetries = 1
  Outcome <- MCAll
  Tripping <- MCOne
  Deleting = TRUE
  AutoRemoveLimited = FALSE
  AutoRemoveInvalid = TRUE
SYMMETRY MCSymmetry
INVARIANTS
  SlotBound
  NoStrandedSlot
CHECK_DEADLOCK FALSE
