CONSTANTS
  Threads = {a}
  Closers = {a}
  ServerStops = TRUE
  Garbage <- AnyGarbage
  SndCap = 2
  MsgLens <- ShortAndLong
  MaxBytes = 4
  MaxSends = 2
  MaxInputs = 1
  MaxSignals = 1
SPECIFICATION ReadingPeerSpec
INVARIANTS
  TypeOK
  OutputIntact
  WriteEventIffBuffered
  CloseAssert
PROPERTIES
  ImplementsByteStream
  PeerNoticed
  OutputDrains
CHECK_DEADLOCK FALSE
