CONSTANTS
  Platforms = {"linux"}
  Delays <- OneSecond
  IdLimit = 2
  HandlersCancel = FALSE
  MaxTimers = 1
  MaxCancels = 0
SPECIFICATION FairSpec
PROPERTIES
  TimersFire
