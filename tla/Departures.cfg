SPECIFICATION MonitorSpec
CONSTANTS
    a = a
    b = b
    c = c
    Users <- MCUsers
    Members <- MCUsers
    Bot = a
    None = None
    SafeMissing = 1
    Threshold = 2
    Confirmations = 3
    MaxTime = 2
    MaxMoves = 3
    MaxUpsets = 1
    MaxShort = 2
INVARIANT NoticesAreTrue
PROPERTY GoneIsNoticed
PROPERTY SnapshotConverges
CHECK_DEADLOCK FALSE
