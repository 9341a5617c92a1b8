SPECIFICATION FairSpec
CONSTANTS
    HalfBits = 2
    Reg = {"a", "b"}
    Instr <- MCInstr
    Pointers <- MCPointers
    Entry = 0
    Options <- MCOptions
    max_transfers = 3
    MaxCode = 5
INVARIANTS
    FollowsExecution
    TransfersListed
PROPERTIES
    ResolutionEnds
CHECK_DEADLOCK FALSE
