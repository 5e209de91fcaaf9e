SPECIFICATION FairSpec
CONSTANTS
  IdleInterval = 2
  AlertFrames = 2
  MaxPerMinute = 2
  MinSaveInterval = 1
  Minute = 3
  MaxQueue = 1
  Gpu = {TRUE, FALSE}
  MaxClock = 6
INVARIANTS RateLimited
PROPERTIES FrameWakesWorker LooksAndCapturesAreDue
CHECK_DEADLOCK FALSE
