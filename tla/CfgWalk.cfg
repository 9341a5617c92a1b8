SPECIFICATION FairSpec
CHECK_DEADLOCK FALSE
CONSTANTS
  no_byte = no_byte
  Unmapped = no_byte
  Size = 4
  Memories <- AllPrograms
  Entries = {1}
  max_blocks = 3
  max_insns = 3
INVARIANTS
  ReportSound
  CompleteButForCuts
  SuccessorsAreBlocks
PROPERTY
  WalkEnds
