SPECIFICATION FairSpec
CONSTANTS
    RepairMayFail = TRUE
    Attachments = TRUE
    Sessionless = TRUE
    MaxTurns = 2
    MaxMessages = 3
    MaxLines = 4
PROPERTIES
    EventsAreDelivered
