SPECIFICATION MCSpec
CONSTANTS
    Setups <- MCSetups
    GuestWrites <- MCGuestWrites
    MaxGuestWrites = 1
    None = None
    page_size = 4
    Space = 16
    MaxLen = 15
    NoBuf = NoBuf
INVARIANTS
    WorkInv
    TranslatedRight
    FailedRight
    Partition
    OnePage
PROPERTIES
    Ends
CHECK_DEADLOCK FALSE
