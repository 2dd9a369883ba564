CONSTANTS
  Threads = {a}
  Closers = {a}
  ServerStops = FALSE
  Garbage <- NoGarbage
  SndCap = 2
  MsgLens <- ShortAndLong
  MaxBytes = 3
  MaxSends = 1
  MaxInputs = 1
  MaxSignals = 0
SPECIFICATION Spec
INVARIANTS
  DtorAssert
CHECK_DEADLOCK FALSE
