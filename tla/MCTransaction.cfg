CONSTANTS
    Steps = {"first", "second"}
    Configs <- MCConfigs
    Dsns <- MCDsns
    Variables <- MCVariables
    ReadOnly = "constant"
SPECIFICATION Spec
INVARIANTS
    TypeOK
    OnePoolPerDsn
    ReportTellsServer
    OwnTransactionSeen
