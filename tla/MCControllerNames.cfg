SPECIFICATION Spec
CONSTANTS
    None = None
    MCPods = {"small", "tall"}
    MCNodes = {"n2"}
    Workers = {w1, w2}
    Doomed = {"small", "tall"}
    SameName = TRUE
    CanDefer = TRUE
    MaxDeferral = 1
    MaxFaults = 1
    MaxRestarts = 1
    MaxNotes = 1
    Pods <- MCPods
    Nodes <- MCNodes
    Keys <- MCKeys
    KeyOf <- MCKeyOf
    Capacity <- MCCapacity
    Demand <- MCDemand
    Load <- MCLoad
    Slack <- MCSlack
CHECK_DEADLOCK FALSE
SYMMETRY WorkerSymmetry
INVARIANTS
    TypeOK
    NoLostPod
    MarkedIsBound
PROPERTY
    ImplementsService
