SPECIFICATION Spec
CONSTANTS
    Stages <- ChainStages
    Deps <- Chain
    Order <- ChainOrder
    Items = {1}
    Workers = {w1}
    NoItem = NoItem
    MaxRuns = 3
    MaxCrashes = 1
    MaxRaises = 1
    MaxFaults = 0
    MaxSkipAlls = 1
INVARIANT SkippedStops
