SPECIFICATION MCSpec
CONSTANTS
    Setups <- GapSetups
    GuestWrites <- MCGuestWrites
    MaxGuestWrites = 0
    None = None
    page_size = 4
    Space = 16
    MaxLen = 15
    NoBuf = NoBuf
INVARIANTS
    AllTranslatedRight
CHECK_DEADLOCK FALSE
