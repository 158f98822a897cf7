SPECIFICATION Spec
CONSTANTS
    MaxPage = 2
    Entries = 2
    Window = 2
    Ticks <- MCTicks
    AllocAge = 3
    Limit = 2
    Requests <- MCRequests
    WriteSets <- MCWriteSets
    MaxVer = 2
    Faults = TRUE
    INVALID = INVALID
    None = None
    Blank = Blank
    Unfilled = Unfilled
INVARIANTS
    IInv
    BoundedStaleness
    ReadYourWrites
    UnfilledOnlyWhereLost
