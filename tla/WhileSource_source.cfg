SPECIFICATION FairSpec
CONSTANTS
    NUnits = 3
    MaxCycle = 3
    Yield <- MixedYield
    Target = 3
    UnitWorkers = {1, 2}
    MaxStreak = 2
    NoCkpt = NoCkpt
    MaxRuns = 5
    MaxCrashes = 1
    MaxRaises = 2
    MaxFaults = 1
INVARIANTS TypeOK StoresNested NeverOvershoots WindowFollowsLoop LossIsBounded StreakEndsStage LastFailureListed
PROPERTIES ImplementsProduction AbortNeedsStreak EventuallyExact
