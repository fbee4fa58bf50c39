SPECIFICATION Spec
CONSTANTS
    PassLength = 2
    Grace = 1
    MinDelay = 1
    MaxDelay = 3
    FreshWindow = 3
    GiveUpAfter = 2
    ParkedRetry = 4
    GateWaits <- MCGateWaits
    RetryWait = 1
    Answers <- AnyAnswer
    MaxEvents = 4
    None = None
INVARIANTS
    TypeOK
    ParkedMeansGaveUp
    ParkedOnlineIsProbed
    RemovedStaysQuiet
    RoutedInOrder
PROPERTIES
    StartSupersedesStop
