\* Two job counts, two carbon weights, two batch sizes, two repetitions.
CONSTANTS
    Bad = Bad
    NoSite = NoSite
    Template <- MCTemplate
    JobCountFlag <- MCJobCounts
    RateFlag <- MCRates
    CIWeightFlag <- MCCIWeights
    BatchFlag <- MCBatchSizes
    ModeFlag <- MCModes
    WeightFlag <- MCWeights
    Overrides <- MCOverrides
    DrawKinds <- MCDraws
    BurstMult = 2
    StaleFiles <- MCStale
    Repetitions = 2
SPECIFICATION Spec
INVARIANTS SameArrivals PreferencesKept RowHasItsFile
