SPECIFICATION ClientSpec
CONSTANTS
    MaxChunks = 1
    BodyPieces = 1
    KeepAlive = 5
    SocketTimeout = 10
    MaxStalls = 0
CHECK_DEADLOCK FALSE
INVARIANTS
    SuccessMeansComplete
