SPECIFICATION ServerSpec
CONSTANTS
    Jobs = {j1, j2}
    Readers = {j1, j2}
    NoJob = NoJob
    MaxSize = 2
    MaxHistory = 1
    MaxChunks = 2
    Backend = "vibevoice"
SYMMETRY Symmetry
CHECK_DEADLOCK FALSE
INVARIANTS
    ServerTypeOK
    ActiveJobHasOwner
    UploadHasOwner
    FinalEventHonest
    ConnectedClientIsTold
PROPERTIES
    ImplementsContract
