SPECIFICATION Spec
CONSTANTS
    Clients = {"forms", "labels"}
    Used <- MCUsed
    Plans <- MCPlans
    MaxRead = 2
    Places <- AllPlaces
    HookSizes = {5}
INVARIANTS
    ListingMatches
    TrampolinesWork
    ReencodingKeepsMeaning
    JumpsLeadToLabels
    FramesRestore
    TextMeansCalls
CHECK_DEADLOCK FALSE
