CONSTANTS
    Pollers = {p1, p2}
    Coros = {c1, c2}
    Entries = {e1, e2, e3}
    Outside = Outside
    Null = Null
SPECIFICATION FairSpec
INVARIANTS
    EntryInOnePlace
    SuspendedIsQueued
    OneCoroutinePerPoller
PROPERTY EntriesMeetTasks
CHECK_DEADLOCK FALSE
