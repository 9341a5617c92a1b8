SPECIFICATION Spec
CONSTANTS
  Space = 8
  MaxMem = 6
  Size = 2
  Byte = {0, 1}
  MaxCount = 3
  Number <- BitsToNumber
  Instrs <- AllInstrs
  Starts <- AllStarts
CHECK_DEADLOCK FALSE
INVARIANTS
  WholeIterations
  CompletesExactly
PROPERTY
  UnmappedUntouched
