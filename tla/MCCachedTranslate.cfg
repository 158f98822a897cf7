SPECIFICATION MCSpec
CONSTANTS
    PageSize = 4
    MaxPage = 2
    Entries = 2
    Window = 1
    Ticks <- MCTicks
    AllocAge = 1
    Spaces <- MCSpaces
    table_id <- OwnTables
    MaxFrame = 1
    Tables <- MCTables
    Requests <- MCRequests
    MaxRemaps = 2
    Faults = TRUE
    NotMapped = NotMapped
    NoTable = NoTable
    Width = 6
    valid_count = 3
    MaxSlots = 2
    valid_time = 2
    MaxTime = 5
INVARIANTS
    IInv
    AnsweredOnce
    SlotsExpireInTime
PROPERTIES
    ValidatorsImplementAges
