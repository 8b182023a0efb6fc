SPECIFICATION RotationSpec
CONSTANTS
    Lines <- MCLines
    Segs <- MCSegs
    SegOf <- MCSegOf
    MaxRow = 5
    MaxGen = 1
    Backup = 2
    None = None
INVARIANT RoomKept
PROPERTY RotationInvisible
