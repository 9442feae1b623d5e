SPECIFICATION Spec
CONSTANTS
    RepairMayFail = FALSE
    Attachments = FALSE
    Sessionless = FALSE
    MaxTurns = 2
    MaxMessages = 5
    MaxLines = 20
INVARIANTS
    FileTellsTheRun
    AckedIsDurable
    QueueIsTheGap
PROPERTIES
    LogOnlyGrows
    QuarantineHolds
