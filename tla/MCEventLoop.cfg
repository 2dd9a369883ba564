CONSTANTS
  Callers = {a, b}
  LoopThread = loop
  MaxCalls = 2
  MaxLoops = 2
SPECIFICATION FairSpec
INVARIANTS
  NoLostWakeup
PROPERTIES
  ImplementsTaskQueue
  FunctorsRun
  QuitStops
CHECK_DEADLOCK FALSE
