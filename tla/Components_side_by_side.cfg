SPECIFICATION PartsSpec
CONSTANTS
    Stages <- TwoStages
    Crop = crop
    Filter = filter
    Items = {1, 2, 3}
    Score <- Scores
    NKeep = 2
    MaxTroubles = 2
    MaxOrphans = 1
    Shapes <- OneStagePools
    NInputs = 3
    MaxErrors = 2
    Graphs <- SmallGraphs
    Keeps = {1}
    Base = 2
    Padded = 3
    MaxName = 5
    MaxFinished = 3
    MaxRunFaults = 2
    MaxRunCrashes = 1
    Axes = {x, y}
    Lengths = {3, 4, 6}
    MaxCalls = 4
    TotalIters = 7
    EpochBatches = 3
    CheckpointFreq = 2
    MaxTrainings = 3
    UpdatesWanted = 6
    AccStep = 2
    SavePeriod = 2
    MaxKills = 3
INVARIANTS
    TypeOK PartsTypeOK OnlyRankedItems OutputsWhole SortIsSound CurrentIsWhole RunsKept
    EvenGridsKept TrainingIsWhole DriftIsBounded
PROPERTIES
    RestSeesWholeRanking FilterEventually OneStageMapEnds
