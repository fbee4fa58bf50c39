SPECIFICATION FairSpec
CONSTANTS
    ReconnectMin = 1
    ReconnectMax = 2
    ReconnectExtended = 4
    EscalateAfter = 2
    StableSeconds = 3
    ZombieAfter = 3
    AuthPoll = 1
    GateWaits <- MCGateWaits
    MaxEvents = 2
INVARIANTS
    TypeOK
    StopReachesStream
    NoStreamLeaks
    BurstBounded
PROPERTIES
    RenewalIsQuick
    FeedSpec
    StopEnds
    StreamReturns
