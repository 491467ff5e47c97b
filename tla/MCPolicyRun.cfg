SPECIFICATION RunSpec
CONSTANTS
    MCJobs = {"small", "wide", "gpu"}
    MCBatchSizes = {2}
    MCSubmitTimes = {0, 1}
    MCDurations = {0, 1, 4}
    MaxClock = 30
    Jobs <- MCJobs
    Nodes <- MCNodes
    NodeIndex <- MCNodeIndex
    Capacity <- MCCapacity
    Demand <- MCDemand
    Load <- MCLoad
    NeedsGpu <- MCNeedsGpu
    GpuNodes <- MCGpuNodes
    SubmitTimes <- MCSubmitTimes
    Durations <- MCDurations
    BatchSizes <- MCBatchSizes
    File <- MCFile
    HourLen = 2
    NoCI = NoCI
    Bad = Bad
    PowerCurve <- MCPowerCurve
    SmoothStep = 1
    NodeInfo <- MCNodeInfo
    JobInfo <- MCJobInfo
    PenaltyRoot <- MCPenaltyRoot
    DefaultRuntime = 4
    Scale = 100
    NoNode = 0
    Kind <- MCKind
    Weights <- MCWeights
    NameIndex <- MCNameIndex
    Warmups = {0, 1, 9}
INVARIANTS
    WaitOrderIsCurrent
    QueueSignalIsLoad
    LookupIsExpected
    CarbonIsCounted
    PolicyPlacesAll
    CfpBetweenJobs
