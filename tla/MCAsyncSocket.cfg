CONSTANTS
    o1 = o1
    o2 = o2
    Ops = {o1, o2}
    Kinds <- MCKinds
    Pumps = {p1}
    Batch = 4
    Sockets = {s1, s2}
    Handles = {h1, h2}
    INVALID_SOCKET = INVALID_SOCKET
    MaxMakes = 2
SPECIFICATION MCSpec
INVARIANTS
    TypeOK
    OutlivesItsRequest
    NoFalseSuccess
    HandlesOwned
PROPERTIES
    ImplementsContract
    StopEndsPending
    CloseEndsPending
CHECK_DEADLOCK FALSE
