SPECIFICATION Spec
CONSTANTS
  Parts = {"limits", "stream", "keys", "log", "backups", "images", "imports"}
  w0 = w0
  w1 = w1
  w2 = w2
  i1 = i1
  i2 = i2
  i3 = i3
  k1 = k1
  k2 = k2
  p1 = p1
  p2 = p2
  a1 = a1
  a2 = a2
  Account = {a1, a2}
  History <- TwoEarlier
  Formats = {"response", "tools"}
  Tokens = {"w", "(", ")", "<", ">"}
  MaxText = 3
  Rewrites = FALSE
  Loose = FALSE
  Process = {w1, w2}
  Ip = {i1, i2, i3}
  Window = 2
  MaxIps = 1
  Options <- LimitOptions
  Key = {k1, k2}
  Worker = {w0}
  SaveFails = TRUE
  MaxLogged = 4
  Days = 3
  Retention = 1
  MaxLines = 2
  KeepLines = 1
  Writer = {w1, w2}
  RollAt = 1
  MaxRolls = 1
  Runner = {w0}
  Uploads = 4
  Keep = 1
  StateSaveFails = TRUE
  Image = {p1, p2}
  Switches = {{"local", "webdav", "both"}, {"r2", "r2_local"}}
  Import = {1, 2}
  Names = 2
  AddFails = TRUE
  ReadFails = FALSE
  SlowReader = FALSE
  Overlap = FALSE
  None = None
CONSTRAINT
  LogBound
SYMMETRY
  Symmetry
INVARIANTS
  LimitsHold
  DeltasAddUp
  BlocksWellFormed
  SameAsWhole
  KeysAreAsTold
  RewritesKeepTheRest
  CountedOnce
  VerifiedStays
  KeptIsFound
  FinishedAddsUp
CHECK_DEADLOCK FALSE
