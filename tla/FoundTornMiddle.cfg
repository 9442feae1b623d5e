SPECIFICATION Spec
CONSTANTS
    RepairMayFail = TRUE
    Attachments = FALSE
    Sessionless = FALSE
    MaxTurns = 2
    MaxMessages = 5
    MaxLines = 20
INVARIANT FileIsReadable
