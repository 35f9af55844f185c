CONSTANTS
    Reads = {r1}
    Pumps = {p1}
    Sector = 4
    DwordLimit = 16
    FileSize = 10
    Offsets = {0, 3, 9}
    Sizes = {1, 4, 15}
SPECIFICATION Spec
INVARIANT TaskOutlivesAwaitSuspend
CHECK_DEADLOCK FALSE
