CONSTANTS
    Threads = {t1}
    Clients = {"header"}
    Capacity = 2
    MaxChanges = 3
    MaxOthers = 1
    MaxFailures = 0
    MaxRefusals = 0
    MaxMoves = 0
SPECIFICATION Spec
INVARIANT BufferStableWhileRead
CHECK_DEADLOCK FALSE
