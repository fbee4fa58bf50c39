SPECIFICATION FairSpec
CONSTANTS
    prod = prod
    sim = sim
    Supervisor = supervisor
    UI = ui
    None = None
    Configs <- MCConfigs
    Simulated <- MCSimulated
    Coordinators = {k1, k2}
    MaxClients = 2
PROPERTY AuthorizedStreams
