CONSTANTS
    MaxTasks = 3
    MaxConcurrency = 3
SPECIFICATION Spec
INVARIANT
    SuccessRunsEveryItem
