CONSTANTS
    Projects <- MCProjects
    MaxAttempts = 2
SPECIFICATION Spec
INVARIANTS
    TypeOK
    StreamIsBracketed
    ExitStatusTellsOutcome
    ReportHoldsFailedStep
PROPERTIES
    Terminates
