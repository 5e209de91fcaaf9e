SPECIFICATION FairSpec
CONSTANTS
  Ids = {s1, s2}
  request = request
  stream = stream
  Calls = {request, stream}
  Live = {stream}
  None = None
INVARIANTS OpenIsOwned NamesItsSession
PROPERTIES EveryCallSettles
CHECK_DEADLOCK FALSE
