SPECIFICATION FairSpec
CONSTANTS
    MaxVM = 6
    MaxSnap = 2
    MaxUnit = 3
    Reserved = 2
    Settings <- MCSettings
INVARIANTS CreatedAsAsked GuestGetsItsData DeletedIsGone
PROPERTIES Converges
CHECK_DEADLOCK FALSE
