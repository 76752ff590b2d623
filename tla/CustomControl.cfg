\* iterations started and restarted one by one, and aborted, and stopped by a host that waits
SPECIFICATION FairSpec
CONSTANTS
    Length = 2
    StopOnFailure = FALSE
    GlobalTimeout = TRUE
    NextRequests <- MCNoRequests
    Failures = {FALSE, TRUE}
    Errors = {TRUE}
    CallbackThrows = {TRUE, FALSE}
    MaxPartitions = 2
    MaxStarts = 3
    MaxStops = 1
    TrustsStop = FALSE
    MaxAborts = 1
INVARIANT AnsweredIsIdle
PROPERTY HostHears
\* A run that is over, or whose host starts nothing, takes no more steps.
CHECK_DEADLOCK FALSE
