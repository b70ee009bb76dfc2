SPECIFICATION FairSpec
CONSTANTS
    NUnits = 2
    MaxCycle = 5
    Yield <- MixedYield
    Target = 6
    Batch = 3
    MaxStreak = 2
    NoCkpt = NoCkpt
    MaxRuns = 4
    MaxCrashes = 1
    MaxRaises = 1
    MaxFaults = 1
INVARIANTS TypeOK ProducedInOrder LossIsBounded
PROPERTIES ImplementsProduction EventuallyExact
