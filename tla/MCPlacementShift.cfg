SPECIFICATION Spec
CONSTANTS
    Nodes = {1, 3}
    SiteKnown = {1, 3}
    Alloc <- MCAlloc
    CINorm <- MCCINorm
    Pods = {"job", "a"}
    Job = "job"
    Demand <- MCDemand
    Load <- MCLoad
    Length <- MCLength
    Slack = 0
    Shift = 1
    Threshold = 60
    NodeCaps = {0}
    Policies = {"carbonscaler"}
    None = None
INVARIANTS
    ShiftingHonoured
