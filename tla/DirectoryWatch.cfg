CONSTANTS
    Threads = {t1, t2}
    Clients = {"careful", "fs_changes_print", "verbose", "rxcpp_fs_changes"}
    Capacity = 2
    MaxChanges = 5
    MaxOthers = 1
    MaxFailures = 1
    MaxRefusals = 1
    MaxMoves = 2
SPECIFICATION FairSpec
INVARIANTS
    TypeOK
    BufferStableWhileRead
    OneReadAtATime
    IteratorInBounds
    DetectedAtMostOnce
PROPERTY ChangesDetected
CHECK_DEADLOCK FALSE
