SPECIFICATION FairSpec
CONSTANTS
  p1 = p1
  p2 = p2
  p3 = p3
  Threads <- MCThreads2
  Threshold = 2
  MaxCalls = 2
INVARIANTS
  NoLostTrip
PROPERTIES
  OpenIsProbed
