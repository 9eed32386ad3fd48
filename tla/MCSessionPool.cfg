SPECIFICATION Spec
CONSTANTS
  k1 = k1
  k2 = k2
  s1 = s1
  s2 = s2
  s3 = s3
  u1 = u1
  u2 = u2
  u3 = u3
  NoSession = NoSession
  Key <- MCKey
  Session <- MCSession
  User <- MCUser
  MaxEntries = 1
  MinSize = 1
  Cleaning = TRUE
SYMMETRY
  MCSymmetry
INVARIANTS
  SessionsMatchKeys
  NoneForgotten
CHECK_DEADLOCK FALSE
