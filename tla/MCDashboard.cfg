SPECIFICATION DashboardSpec
CONSTANTS
  Loaders = {inputs, tools}
  Inputs = inputs
  FlushAt = 2
  Batches = 1
  MaxChecks = 2
  Images = {1, 2}
  PageSize = 1
  Requests = 2
  Modes <- MCModes
  Constraining = 2
INVARIANTS NeverBlind DialogIsTrue
PROPERTIES DashboardComesUp OutageNoticed DialogReachable LastPageReached SizeSettles
CHECK_DEADLOCK FALSE
