SPECIFICATION FairServerSpec
CONSTANTS
    Jobs = {j1}
    Readers = {j1}
    NoJob = NoJob
    MaxSize = 2
    MaxHistory = 1
    MaxChunks = 1
    Backend = "groq"
CHECK_DEADLOCK FALSE
PROPERTY
    StopCompletes
