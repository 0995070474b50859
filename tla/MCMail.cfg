CONSTANTS
    Sent <- MCSent
    Readable = {"other"}
    Broken = {"broken"}
    NoMail = "no mail"
    Boxes <- MCBoxes
    ImapConfigs <- MCImapConfigs
    ImapAttempts = 2
SPECIFICATION Spec
INVARIANTS
    TypeOK
    AcceptedTellsReport
    AnswerTellsMailbox
    OnlyTakenDisappear
PROPERTIES
    PollingEnds
