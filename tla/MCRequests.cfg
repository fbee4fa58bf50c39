SPECIFICATION FairSpec
CONSTANTS
    a = a
    b = b
    Callers <- MCCallers
    MaxRetries = 2
    BackoffBase = 1
    RetryWaitMax = 1
    RetryAfters <- MCRetryAfters
    MaxEvents = 4
INVARIANTS
    AtMostOnce
    SendsBounded
PROPERTIES
    RetriesSpaced
    CallsEnd
