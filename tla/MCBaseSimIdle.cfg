SPECIFICATION Spec
CONSTANTS
    MCJobs = {"small", "wide"}
    MCBatchSizes = {0}
    MCSubmitTimes = {0, 3}
    MCDurations = {2, 5}
    MaxClock = 30
    Jobs <- MCJobs
    Nodes <- MCNodes
    NodeIndex <- MCNodeIndex
    Capacity <- MCCapacity
    Demand <- MCDemand
    Load <- MCLoad
    NeedsGpu <- MCNeedsGpu
    GpuNodes <- MCGpuNodes
    SubmitTimes <- MCSubmitTimes
    Durations <- MCDurations
    BatchSizes <- MCBatchSizes
PROPERTIES
    IdleStopsAtSubmit
