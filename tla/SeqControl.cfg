\* pause, resume and abort against a run whose scripts go anywhere, with abortOnFailure and stopOnFailure
SPECIFICATION Spec
CONSTANTS
    Length = 3
    Cycles = 3
    StopOnError = FALSE
    StopOnFailure = TRUE
    AbortOnError = FALSE
    AbortOnFailure = TRUE
    DisableSNR = FALSE
    ItemDelay = TRUE
    IterationDelay = TRUE
    GlobalTimeout = FALSE
    SecretResolver = "none"
    ScriptResults = {"ok", "throws", "fails"}
    NextRequests <- MCAnyRequest
    Mutations = {TRUE, FALSE}
    Skips = {TRUE, FALSE}
    Failures = {TRUE, FALSE}
    InitFails = {TRUE, FALSE}
    CallbackThrows = {TRUE, FALSE}
    ResumesEarly = FALSE
    PausesAborted = TRUE
    MaxPauses = 1
    MaxAborts = 2
INVARIANT TypeOK
INVARIANT AbortIsFinal
INVARIANT IterationsInOrder
INVARIANT RequestsRestored
INVARIANT NothingThrown
PROPERTY NothingStartsAfterDone
PROPERTY KeepsContract
\* A run that is over, or left paused by its host, takes no more steps.
CHECK_DEADLOCK FALSE
