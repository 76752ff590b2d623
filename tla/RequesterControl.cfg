\* every header and every answer, on Node and in the browser
SPECIFICATION FairSpec
CONSTANTS
    Scenarios <- MCScenarios
    Names <- MCNames
    Bytes <- MCBytes
    Rounds = 2
INVARIANT HeardInOrder
INVARIANT EventsWhole
INVARIANT HeadersKept
INVARIANT DryRunComplete
PROPERTY Answered
\* A request is answered, and not sent again.
CHECK_DEADLOCK FALSE
