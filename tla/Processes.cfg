SPECIFICATION FairSpec
CONSTANTS
    terminal = terminal
    piped = piped
    Processes <- MCProcessSet
    Kind <- MCKind
    Timed <- MCTimed
    MaxWritten <- MCMaxWritten
    Windows = TRUE
    MaxBytes = 1
    MaxProcesses = 2
    MaxFinished = 1
    MaxExpired = 1
INVARIANTS
    OutputIsWhole
    NothingRunsUnwatched
PROPERTY
    CloseEnds
CHECK_DEADLOCK FALSE
