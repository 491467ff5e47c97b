SPECIFICATION Spec
CONSTANTS
    Clusters <- MCClusters
    Remotes = {"remote"}
    CpuOf <- MCCpuOf
    MaxCPU <- MCMaxCPU
    EnergyBias <- MCEnergyBias
    Runs <- MCRuns
    Usages = {0, 50, 95}
    Error = Error
    None = None
INVARIANTS
    ReceivedIsDecided
    ChoiceIsBest
    RoundRobinServesAll
PROPERTIES
    DispatchEnds
