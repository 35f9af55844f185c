CONSTANTS
    ClientWrite = ClientWrite
    ServerRead = ServerRead
    ServerWrite = ServerWrite
    ClientRead = ClientRead
    Transfers = {ClientWrite, ServerRead, ServerWrite, ClientRead}
    N = 2
    Shapes <- MCShapes
    MaxFailures = 1
    Window = 1
    Null = Null
SPECIFICATION MCSpec
INVARIANTS
    TypeOK
    BytesInOrder
    OthersGetTheirTurn
PROPERTIES
    MCTransferEnds
    MCEchoEnds
CHECK_DEADLOCK FALSE
