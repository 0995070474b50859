CONSTANTS
    Projects <- MCProjects
    MaxAttempts = 2
SPECIFICATION Spec
INVARIANT
    FailingStepIsExplained
