SPECIFICATION FairClientSpec
CONSTANTS
    MaxChunks = 2
    BodyPieces = 2
    KeepAlive = 5
    SocketTimeout = 10
    MaxStalls = 1
CHECK_DEADLOCK FALSE
INVARIANTS
    ClientTypeOK
    TranscriptFaithful
    FailureJustified
    TimeoutJustified
PROPERTIES
    SessionEnds
