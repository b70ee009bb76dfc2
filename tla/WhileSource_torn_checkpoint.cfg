SPECIFICATION Spec
CONSTANTS
    NUnits = 2
    MaxCycle = 3
    Yield <- OneEach
    Target = 6
    UnitWorkers = {1}
    MaxStreak = 5
    NoCkpt = NoCkpt
    MaxRuns = 2
    MaxCrashes = 1
    MaxRaises = 0
    MaxFaults = 0
INVARIANT NoUnitLost
