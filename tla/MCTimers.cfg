CONSTANTS
  Platforms = {"linux", "mac"}
  Delays <- ShortAndLong
  IdLimit = 2
  HandlersCancel = FALSE
  MaxTimers = 3
  MaxCancels = 1
SPECIFICATION FairSpec
INVARIANTS
  ChannelsOwned
  BatchAlive
  CancelSticks
PROPERTIES
  OneShotOnce
  ExpiriesTaken
