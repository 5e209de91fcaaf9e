SPECIFICATION ViewsSpec
CONSTANTS
  Numbers = {1, 2}
  Kinds = {"static", "camera", "remote_camera"}
  NoFilters = none
  Filters = {none, blur}
  Sources = {1, 2}
  Accelerators = {"cuda", "vulkan", "opencl"}
  Offered <- MCOffered
  Tunable = {"blur"}
  Low = 1
  High = 2
  Step = 1
  Default = 1
  Viewports <- MCViewports
  Targets <- MCTargets
  LastStep = 2
  Keys = {alpha, beta}
  Settings = {on, off}
  UnderWay = 3
  LastCard = 3
  ConnectionState = {"disconnected", "connecting", "connected"}
  Channels = {c1, c2}
  Requests = {r1, r2}
  MaxParts = 2
  MaxOthers = 1
  MaxInFlight = 1
  None = None
INVARIANTS SentOnce AnswersArrive OnlyUnfinishedLeak PanelMatchesSelection PanelListsOffered TooltipInView PageIsCurrent
PROPERTIES FiltersAreKept UploadUndisturbed
CHECK_DEADLOCK FALSE
