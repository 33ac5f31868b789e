SPECIFICATION FairServerSpec
CONSTANTS
    Jobs = {j1, j2}
    Readers = {j1}
    NoJob = NoJob
    MaxSize = 1
    MaxHistory = 1
    MaxChunks = 1
    Backend = "groq"
CHECK_DEADLOCK FALSE
PROPERTIES
    SlotReleased
    RequestEnds
    QueuedJobFinishes
