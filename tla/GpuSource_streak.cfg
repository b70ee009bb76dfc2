SPECIFICATION Spec
CONSTANTS
    NUnits = 2
    MaxCycle = 4
    Yield <- OneEach
    Target = 6
    Batch = 2
    MaxStreak = 2
    NoCkpt = NoCkpt
    MaxRuns = 1
    MaxCrashes = 0
    MaxRaises = 2
    MaxFaults = 0
INVARIANT StreakEndsStage
