SPECIFICATION MCSpec
CONSTANTS
  a = a
  b = b
  s1 = s1
  s2 = s2
  hub = hub
  dc = dc
  None = None
  Ids = {a, b}
  Sessions = {s1, s2}
  Callbacks = {dc}
  Cameras = {hub}
  Ops = {"close", "candidate", "reap", "camera"}
  Failures = {"offer", "timeout", "throw"}
  Closing = {"posted", "inline", "waits"}
  Scopes = {"one", "two"}
PROPERTIES MovesOnOrLocks TableHasTheLiving
CHECK_DEADLOCK FALSE
