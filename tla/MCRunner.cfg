CONSTANTS
    x = x
    c = c
    s1 = s1
    s2 = s2
    Workflows <- MCWorkflows
    Ids <- MCIds
    Names <- MCNames
    ReadOnly <- MCReadOnly
    Values <- MCValues
    Empty <- MCEmpty
    MaxIterations = 4
SPECIFICATION Spec
INVARIANTS
    TypeOK
    ObserverMirrorsResults
    NothingAfterFailure
    CatchChain
    ErrorBuiltinsNameFailedStep
    ControlPath
    OutcomeExplained
PROPERTIES
    FailedStepsAssignNothing
    Terminates
