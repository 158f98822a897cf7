SPECIFICATION Spec
CONSTANTS
    MaxPage = 2
    Entries = 2
    Window = 1
    Ticks <- MCTicks
    AllocAge = 2
    Limit = 2
    Requests <- MCRequests
    WriteSets <- MCWriteSets
    MaxVer = 2
    Faults = TRUE
    INVALID = INVALID
    None = None
    Blank = Blank
    Unfilled = Unfilled
INVARIANTS
    OkReadIsFilled
