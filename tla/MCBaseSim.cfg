SPECIFICATION FairSpec
CONSTANTS
    MCJobs = {"small", "wide", "gpu"}
    MCBatchSizes = {0, 2}
    MCSubmitTimes = {0, 1, 3}
    MCDurations = {0, 2, 5}
    MaxClock = 30
    Jobs <- MCJobs
    Nodes <- MCNodes
    NodeIndex <- MCNodeIndex
    Capacity <- MCCapacity
    Demand <- MCDemand
    Load <- MCLoad
    NeedsGpu <- MCNeedsGpu
    GpuNodes <- MCGpuNodes
    SubmitTimes <- MCSubmitTimes
    Durations <- MCDurations
    BatchSizes <- MCBatchSizes
INVARIANTS
    TypeOK
    Conservation
    ExactlyOnce
    LogFeasible
    LedgerMatchesLog
    GreedyRound
    TracesMatchLog
PROPERTIES
    ImplementsSchedule
    RunReturns
