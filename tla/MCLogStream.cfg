CONSTANTS
  Size = 16
  MaxNumeric = 7
  Texts <- SomeTexts
  Numbers <- SomeNumbers
  Addresses <- SomeAddresses
  Doubles <- SomeDoubles
  Prefix <- TimeAndLine
  MaxOperands = 3
  MaxStatements = 1
SPECIFICATION StreamSpec
INVARIANTS
  StreamTypeOK
  LineIsOperands
CHECK_DEADLOCK FALSE
