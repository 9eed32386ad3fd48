SPECIFICATION Spec
CONSTANTS
  t1 = t1
  t2 = t2
  t3 = t3
  r1 = r1
  r2 = r2
  r3 = r3
  NoToken = NoToken
  Token <- MCOne
  Initial <- MCOne
  Request <- MCRequests3
  MaxConcurrency = 1
  NodeLimit = 0
  MaxQuota = 1
  MaxRetries = 0
  Outcome <- MCProgress
  Tripping <- MCNone
  Deleting = FALSE
  AutoRemoveLimited = FALSE
  AutoRemoveInvalid = FALSE
SYMMETRY MCSymmetry
INVARIANTS
  LimitRespected
CHECK_DEADLOCK FALSE
