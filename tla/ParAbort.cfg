\* abort() while two partitions execute
SPECIFICATION Spec
CONSTANTS
    Length = 2
    Cycles = 3
    MaxConcurrency = 2
    Rows = 4
    StopOnFailure = FALSE
    DisableSNR = FALSE
    IterationDelay = FALSE
    GlobalTimeout = FALSE
    NextRequests <- MCNoRequests
    Failures = {FALSE}
    Errors = {}
    CallbackThrows = {FALSE}
    MaxPauses = 0
    MaxAborts = 1
PROPERTY AbortIsFinal
\* A run that is over, or left paused by its host, takes no more steps.
CHECK_DEADLOCK FALSE
