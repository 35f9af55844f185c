CONSTANTS
    Ops = {o1}
    Kinds = {"connect", "write_some", "send_to", "read_some", "read_nothing", "receive_from", "accept", "schedule"}
    Pumps = {p1}
    Batch = 4
SPECIFICATION Spec
PROPERTY NothingToCancelMeansFinished
CHECK_DEADLOCK FALSE
