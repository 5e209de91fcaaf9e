SPECIFICATION MCSpec
CONSTANTS
  a = a
  b = b
  s1 = s1
  s2 = s2
  hub = hub
  dc = dc
  None = None
  Ids = {a}
  Sessions = {s1}
  Callbacks = {dc}
  Cameras = {}
  Ops = {"close", "reap"}
  Failures = {"offer", "timeout", "throw"}
  Closing = {"posted"}
  Scopes = {"one"}
PROPERTIES CallsReturn
CHECK_DEADLOCK FALSE
