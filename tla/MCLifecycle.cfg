SPECIFICATION FairSpec
CONSTANTS
    prod = prod
    sim = sim
    Supervisor = supervisor
    UI = ui
    None = None
    Configs <- MCConfigs
    Simulated <- MCSimulated
    Coordinators = {k1, k2}
    MaxClients = 3
INVARIANTS
    TypeOK
    OneStream
    StreamIsCurrent
PROPERTIES
    LostAuthShown
    ClientGetsStream
