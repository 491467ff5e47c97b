SPECIFICATION Spec
CONSTANTS
    None = None
    MCPods = {"small", "twin", "third"}
    MCNodes = {"n1"}
    Workers = {w1, w2}
    Doomed = {}
    SameName = FALSE
    CanDefer = FALSE
    MaxDeferral = 0
    MaxFaults = 0
    MaxRestarts = 0
    MaxNotes = 1
    Pods <- MCPods
    Nodes <- MCNodes
    Keys <- MCKeys
    KeyOf <- MCKeyOf
    Capacity <- MCCapacity
    Demand <- MCDemand
    Load <- MCLoad
    Slack <- MCSlack
CHECK_DEADLOCK FALSE
SYMMETRY WorkerSymmetry
INVARIANTS
    OvercommitBounded
