CONSTANTS
  x = x
  y = y
  o1 = o1
  o2 = o2
  k1 = k1
  k2 = k2
  Nobody = Nobody
  Ids <- MCIds
  Objs <- MCObjs
  Calls <- MCCalls
  Ops <- MCOps
  SerialStarts = TRUE
  MaxCandidates = 1
SPECIFICATION FairSpec
INVARIANTS PollLossless
PROPERTIES WaitersWake SessionsAreFound
CHECK_DEADLOCK FALSE
