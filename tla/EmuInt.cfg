SPECIFICATION Spec
CONSTANTS
  Byte = 4
  Nibble = 2
  Qword = 65536
  Unit = 2
  MemSize = 48
  InstrLen = 2
  Tasks <- MCTasks
CHECK_DEADLOCK FALSE
INVARIANTS
  ConditionsOrderOperands
  WideSums
  PairsFit
  StackDiscipline
  QueriesSound
PROPERTY
  EffectsDeclared
