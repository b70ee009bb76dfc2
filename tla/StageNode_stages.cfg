SPECIFICATION FairSpec
CONSTANTS
    Stages <- DiamondStages
    Deps <- Diamond
    Order <- DiamondOrder
    Items = {1, 2}
    Workers = {w1, w2}
    NoItem = NoItem
    MaxRuns = 5
    MaxCrashes = 1
    MaxRaises = 1
    MaxFaults = 1
    MaxSkipAlls = 1
INVARIANTS TypeOK UpstreamFirst WorkIsExclusive OutcomeIsUnique
PROPERTIES ImplementsLedger EventuallySettled
