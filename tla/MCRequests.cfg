SPECIFICATION PartSpec
CONSTANTS
  r1 = r1
  r2 = r2
  r3 = r3
  r4 = r4
  k1 = k1
  k2 = k2
  w1 = w1
  w2 = w2
  a1 = a1
  f1 = f1
  Request <- MCRequest
  Streamed <- MCRequest
  Key = {k1, k2}
  KeyOf <- MCKeyOf
  Thread = {w1, w2}
  Loop = Loop
  Nobody = Nobody
  Cache = Cache
  Chunks = 2
  MaxEntries = 1
  Dedupe = TRUE
  Account = {a1}
  N = 2
  File = {f1}
  None = None
  Other = Other
  MaxRejections = 1
  MaxTls = 1
  MaxConn = 0
  MaxPoll = 0
  MaxReply = 0
  MaxRounds = 1
  Parallel = TRUE
  MessageAsError = TRUE
  CheckFirst = TRUE
  Settle = TRUE
  RemoveAfter = TRUE
  RemoveAlways = FALSE
  Failover = TRUE
CONSTRAINT
  ImagesBound
SYMMETRY
  PartSymmetry
INVARIANTS
  CallsAreShared
  AnswersAreWhole
  SlotsFollowAttempts
  
  TimeoutKeepsConversation
CHECK_DEADLOCK FALSE
