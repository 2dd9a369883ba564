CONSTANTS
  RollSize = 3
  CheckEveryN = 2
  FlushInterval = 1
  Day = 3
  Lengths = {1, 4}
  OldRolls <- Rolls
  OldCounts <- Counts
  MaxTime = 6
  MaxLines = 4
SPECIFICATION Spec
INVARIANTS
  PlacedInOrder
PROPERTIES
  FlushedInTime
