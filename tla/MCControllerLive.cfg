SPECIFICATION FairSpec
CONSTANTS
    None = None
    MCPods = {"small", "tall"}
    MCNodes = {"n2"}
    Workers = {w1, w2}
    Doomed = {}
    SameName = FALSE
    CanDefer = FALSE
    MaxDeferral = 0
    MaxFaults = 1
    MaxRestarts = 1
    MaxNotes = 1
    Pods <- MCPods
    Nodes <- MCNodes
    Keys <- MCKeys
    KeyOf <- MCKeyOf
    Capacity <- MCCapacity
    Demand <- MCDemand
    Load <- MCLoad
    Slack <- MCSlack
CHECK_DEADLOCK FALSE
PROPERTIES
    EventuallyBound
    EndsObserved
