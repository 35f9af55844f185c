CONSTANTS
    Threads = {t1, t2, t3}
    Items = {a, b, c}
    Null = Null
SPECIFICATION MCSpec
INVARIANTS
    SharedListInMemory
    PrivateListInMemory
    Exclusive
    FifoUnlessDisturbed
PROPERTIES
    ImplementsPool
    LockFree
