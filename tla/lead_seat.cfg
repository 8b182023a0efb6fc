SPECIFICATION Spec
CONSTANTS
    Tools = {a, b}
    Large = 1
    Window = 1
    MaxFacts = 5
    MaxTime = 2
    MaxDrafts = 2
    None = None
SYMMETRY Symmetry
PROPERTIES SeatKept FreezeSettled
CHECK_DEADLOCK FALSE
