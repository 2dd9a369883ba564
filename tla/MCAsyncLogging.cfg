CONSTANTS
  Null = Null
  Cap <- SmallCap
  Lengths <- ShortAndLong
  DropLimit = 3
  Keep = 2
  MaxLines = 7
  MaxStarts = 2
SPECIFICATION FairSpec
INVARIANTS
  NothingLost
  FileOrder
  BackendAsserts
  StartedRunning
PROPERTIES
  DropsOnlyBehind
  LinesWritten
  CallsReturn
CHECK_DEADLOCK FALSE
