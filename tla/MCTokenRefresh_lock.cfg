SPECIFICATION FairSpec
CONSTANTS
    a = a
    Supervisor = supervisor
    None = None
    Requesters <- MCRequesters
    Tokens <- MCTokens
    MinInterval = 1
    Lifetime = 2
    BackoffBase = 1
    BackoffMax = 2
    GateWaits <- MCGateWaits
    MaxEvents = 2
PROPERTY WaitersGetLock
