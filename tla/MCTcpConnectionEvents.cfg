CONSTANTS
  Threads = {}
  Closers = {}
  ServerStops = FALSE
  Garbage <- NoGarbage
  SndCap = 2
  MsgLens <- ShortAndLong
  MaxBytes = 3
  MaxSends = 1
  MaxInputs = 1
  MaxSignals = 1
SPECIFICATION ReadingPeerSpec
PROPERTIES
  InputHandled
CHECK_DEADLOCK FALSE
