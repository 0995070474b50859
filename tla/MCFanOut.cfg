CONSTANTS
    MaxTasks = 3
    MaxConcurrency = 3
SPECIFICATION Spec
INVARIANTS
    TypeOK
    ChannelsCloseInTime
    OwnContext
    ReportTellsOutcomes
PROPERTIES
    ImplementsJobs
