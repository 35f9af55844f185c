CONSTANTS
    Threads = {p1, c1, c2}
    Producers = {p1}
    Consumers = {c1, c2}
    Items = {a, b}
    Null = Null
SPECIFICATION ClientSpec
INVARIANT DrainedWhenConsumersEnd
CHECK_DEADLOCK FALSE
