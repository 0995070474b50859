CONSTANTS
    Configs <- MCConfigs
    Codes <- MCCodes
    Bodies <- MCBodies
    NoCode = NoCode
    NoBody = NoBody
SPECIFICATION Spec
INVARIANTS
    TypeOK
    HistoryTellsAttempts
    VerdictFollowsLastAttempt
    AttemptBuiltinScoped
PROPERTIES
    Terminates
