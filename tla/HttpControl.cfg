\* every kind of auth against every answer of server, host and file system
SPECIFICATION FairSpec
CONSTANTS
    MaxReplay = 3
    Templates <- MCTemplates
    Aborts = {TRUE, FALSE}
    Rounds = 2
    MaxNonce = 2
INVARIANT BoundedRequests
INVARIANT Credentials
INVARIANT RequestKept
PROPERTY NothingSentAfterStart
PROPERTY ItemEnds
\* The item has been sent as often as it may be.
CHECK_DEADLOCK FALSE
