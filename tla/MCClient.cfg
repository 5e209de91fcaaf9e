CONSTANTS
  v1 = v1
  v2 = v2
  Sids <- MCTwoSids
  StaleAfter = 0
  MaxCycles = 3
SPECIFICATION WedgedSpec
INVARIANTS NoDanglingStream
PROPERTIES AbortOnlyWedged LostStreamLeft
CHECK_DEADLOCK FALSE
