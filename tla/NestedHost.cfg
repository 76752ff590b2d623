\* a script that times out before the request it asked for is there
SPECIFICATION Spec
CONSTANTS
    RootItems = {"r"}
    Items = {"a"}
    Roots = 1
    Steps <- MCScripts
    MaxDepth = 2
    Interrupts = TRUE
    TimesOut = FALSE
    MaxCalls = 1
    MaxUses = 0
INVARIANT HostKept
\* The item ends.
CHECK_DEADLOCK FALSE
