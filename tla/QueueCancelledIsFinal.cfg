SPECIFICATION Spec
CONSTANTS
    Jobs = {j1, j2}
    NoJob = NoJob
    MaxSize = 2
    MaxHistory = 1
    MaxChunks = 1
    Backend = "vibevoice"
CHECK_DEADLOCK FALSE
PROPERTY
    CancelledIsFinal
