\* stopOnError, a synchronous secret resolver, scripts that do not redirect
SPECIFICATION Spec
CONSTANTS
    Length = 3
    Cycles = 3
    StopOnError = TRUE
    StopOnFailure = FALSE
    AbortOnError = FALSE
    AbortOnFailure = FALSE
    DisableSNR = FALSE
    ItemDelay = FALSE
    IterationDelay = FALSE
    GlobalTimeout = FALSE
    SecretResolver = "sync"
    ScriptResults = {"ok", "throws", "fails"}
    NextRequests <- MCNoRequests
    Mutations = {TRUE, FALSE}
    Skips = {TRUE, FALSE}
    Failures = {TRUE, FALSE}
    InitFails = {}
    CallbackThrows = {FALSE}
    ResumesEarly = FALSE
    PausesAborted = FALSE
    MaxPauses = 1
    MaxAborts = 1
INVARIANT StoppedIsStopped
INVARIANT CompleteRun
PROPERTY ItemsInOrder
\* A run that is over, or left paused by its host, takes no more steps.
CHECK_DEADLOCK FALSE
