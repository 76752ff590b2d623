\* chains of calls below one item, to their depth and beyond it
SPECIFICATION FairSpec
CONSTANTS
    RootItems = {"r"}
    Items = {"a"}
    Roots = 1
    Steps <- MCTwoScripts
    MaxDepth = 2
    Interrupts = FALSE
    TimesOut = FALSE
    MaxCalls = 3
    MaxUses = 2
INVARIANT NestingKept
INVARIANT HostKept
INVARIANT VaultConsent
PROPERTY CallsAnswered
\* The item ends.
CHECK_DEADLOCK FALSE
