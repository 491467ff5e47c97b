\* Three jobs in waves of two; beyond a GPU share of 75 the class shares do not add up.
CONSTANTS
    JobsFlag = 3
    BatchFlag = 2
    GpuShares = {0, 15, 75, 90}
    UniformDraws = {0, 60, 80, 99}
    DurationDraws = {0, 240}
    IntervalDraws = {20, 2500}
SPECIFICATION Spec
INVARIANTS SomeNodeFits GpuHintsAgree
