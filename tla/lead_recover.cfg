SPECIFICATION Spec
CONSTANTS
    Tools = {a, b}
    Large = 2
    Window = 1
    MaxFacts = 4
    MaxTime = 4
    MaxDrafts = 1
    None = None
INVARIANT SeatRecoverable
CHECK_DEADLOCK FALSE
