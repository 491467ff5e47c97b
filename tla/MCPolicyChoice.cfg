SPECIFICATION ChoiceSpec
CONSTANTS
    Scale = 1200
    NoNode = 0
    Cases <- MCCases
    Lists <- MCLists
    Inf = Inf
INVARIANTS
    SelectionIsLeast
    Undominated
    InfeasibleIrrelevant
    OrderIrrelevant
    EpsilonKept
