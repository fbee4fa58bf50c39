SPECIFICATION FairSpec
CONSTANTS
    PassLength = 2
    Grace = 1
    MinDelay = 1
    MaxDelay = 3
    FreshWindow = 3
    GiveUpAfter = 2
    ParkedRetry = 4
    GateWaits <- MCGateWaits
    RetryWait = 1
    Answers <- Documented
    MaxEvents = 3
    None = None
INVARIANTS
    ReadJobExact
    LaterReadsOnline
PROPERTIES
    FreshOnlyOnline
    ReadsSettle
    ParkedHeals
