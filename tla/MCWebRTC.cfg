SPECIFICATION FairSpec
CONSTANTS
  Ids = {s1}
  Batches <- MCBatches
INVARIANTS AllOrNothing SingleReconnect
PROPERTIES NoGhostConnected BrokenIsReleased KeepsPromises
CHECK_DEADLOCK FALSE
