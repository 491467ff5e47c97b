SPECIFICATION Spec
CONSTANTS
    Nodes = {1, 2, 3}
    SiteKnown = {1, 3}
    Alloc <- MCAlloc
    CINorm <- MCCINorm
    Pods = {"job", "a"}
    Job = "job"
    Demand <- MCDemand
    Load <- MCLoad
    Length <- MCLength
    Slack = 0
    Shift = 1
    Threshold = 40
    NodeCaps = {0, 1}
    Policies = {"ecokube", "carbonscaler", "k8s"}
    None = None
INVARIANTS
    ChoiceFitsKnown
    RejectedOnlyIfFull
PROPERTIES
    BoundIfRoom
