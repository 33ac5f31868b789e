SPECIFICATION Spec
CONSTANTS
    Jobs = {j1, j2, j3}
    NoJob = NoJob
    MaxSize = 2
    MaxHistory = 2
    MaxChunks = 2
    Backend = "vibevoice"
SYMMETRY Symmetry
CHECK_DEADLOCK FALSE
INVARIANTS
    TypeOK
    CapacityBound
    OneJobInService
    AudioWhileNeeded
    SentinelClosesStream
    PendingAgrees
    CleanupCoversTerminal
    CancelledNeverCompletes
PROPERTIES
    TerminalStaysTerminal
    ImplementsSerialService
