\* every run ends: the global timeout, secrets that resolve late, abortOnError
SPECIFICATION FairSpec
CONSTANTS
    Length = 2
    Cycles = 2
    StopOnError = FALSE
    StopOnFailure = FALSE
    AbortOnError = TRUE
    AbortOnFailure = FALSE
    DisableSNR = FALSE
    ItemDelay = TRUE
    IterationDelay = TRUE
    GlobalTimeout = TRUE
    SecretResolver = "async"
    ScriptResults = {"ok", "throws", "fails"}
    NextRequests <- MCStopRequests
    Mutations = {TRUE, FALSE}
    Skips = {TRUE, FALSE}
    Failures = {TRUE, FALSE}
    InitFails = {}
    CallbackThrows = {FALSE}
    ResumesEarly = FALSE
    PausesAborted = FALSE
    MaxPauses = 1
    MaxAborts = 2
INVARIANT OneFlow
INVARIANT DoneOnce
PROPERTY RunEnds
PROPERTY AbortEnds
\* A run that is over, or left paused by its host, takes no more steps.
CHECK_DEADLOCK FALSE
