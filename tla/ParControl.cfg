\* pause, resume and abort against two partitions whose scripts go anywhere
SPECIFICATION FairSpec
CONSTANTS
    Length = 2
    Cycles = 3
    MaxConcurrency = 2
    Rows = 4
    StopOnFailure = FALSE
    DisableSNR = FALSE
    IterationDelay = TRUE
    GlobalTimeout = TRUE
    NextRequests <- MCAnyRequest
    Failures = {TRUE, FALSE}
    Errors = {TRUE}
    CallbackThrows = {TRUE, FALSE}
    MaxPauses = 1
    MaxAborts = 1
INVARIANT OneController
INVARIANT OwnIterations
INVARIANT DoneOnce
INVARIANT CompleteRun
PROPERTY PausedIsPaused
PROPERTY KeepsContracts
PROPERTY RunEnds
\* A run that is over, or left paused by its host, takes no more steps.
CHECK_DEADLOCK FALSE
