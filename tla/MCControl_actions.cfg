SPECIFICATION Spec
CONSTANTS
    a = a
    b = b
    Callers <- MCCallers
    MaxRetries = 1
    BackoffBase = 1
    RetryWaitMax = 1
    RetryAfters <- MCRetryAfters
    MaxEvents = 1
    Limit = 1
    Window = 1
    MaxTime = 1
    MaxActions = 2
    GateRefuse = 0
    ReadyTimeout = 1
SYMMETRY MCSymmetry
INVARIANTS
    TypeOK
    StartsArePaidFor
    NoLostReady
