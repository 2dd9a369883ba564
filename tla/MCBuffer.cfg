CONSTANTS
  Byte = {0, 1}
  Zero = 0
  CheapPrepend = 2
  InitialSize = 2
  ExtraSize = 2
  Inputs <- ShortInputs
  Widths = {1, 2}
  MaxSize = 9
SPECIFICATION Spec
INVARIANTS
  TypeOK
  IntegersComeBack
PROPERTIES
  ImplementsByteQueue
