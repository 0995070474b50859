CONSTANTS
    Files <- MCFiles
    Env <- MCEnv
    Requests = {"a", "b", "all"}
    All = "all"
    None = None
    MaxEdits = 3
SPECIFICATION Spec
INVARIANTS
    TypeOK
    RunsFollowListing
    CallsDoNotCircle
