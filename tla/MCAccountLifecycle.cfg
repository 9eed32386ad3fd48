SPECIFICATION LiveSpec
CONSTANTS
  a1 = a1
  o1 = o1
  r1 = r1
  None = None
  Account <- MCAccount
  Other <- MCOther
  Relogin <- MCRelogin
  MaxAttempts = 2
  Tokens = {"accepted", "dead"}
  Passwords = {"right"}
  MaxEvents = 1
  AutoRemove <- Either
  AutoLimited <- Either
  AutoRelogin <- Either
  AutoReplace <- Either
  Failover <- Either
INVARIANTS
  OnlyUnansweredResent
PROPERTIES
  DeadIsMarked
  WorkingIsRecovered
  GoneStaysGone
  ReloginReports
