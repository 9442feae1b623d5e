SPECIFICATION FairSpec
CONSTANTS
    Batches <- ControlBatches
    MaxToolCalls = 2
    MaxUnknownTools = 2
    MaxIterations = 1
    MaxRetries = 1
    MaxRedirects = 1
    MaxSteers = 2
    MaxPauses = 2
    MaxShutdowns = 1
CHECK_DEADLOCK FALSE
INVARIANTS
    TypeOK
    ToolProtocol
    CallsAreHonest
    PauseCoherence
    ResultIsHonest
PROPERTIES
    ToolsObey
    ImplementsLifecycle
    CancelledTurnEnds
