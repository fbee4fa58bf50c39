SPECIFICATION FairSpec
CONSTANTS
    PassLength = 2
    Grace = 1
    MinDelay = 1
    MaxDelay = 2
    FreshWindow = 2
    GiveUpAfter = 2
    ParkedRetry = 3
    GateWaits <- MCGateWaits
    RetryWait = 1
    Answers <- NoFailure
    MaxEvents = 2
    None = None
PROPERTY ReachableIsConnected
