CONSTANT MaxEndpoints = 3
SPECIFICATION ConnectFairSpec
INVARIANTS
    OutlivesItsQuery
    NoStaleEntry
    FirstThatConnects
    ListFreed
PROPERTIES
    ImplementsContract
    StopEndsQuery
    ConnectsOrFails
CHECK_DEADLOCK FALSE
