\* Two GPUs (or one, in place), three items in two tasks.
SPECIFICATION FairSpec
CONSTANTS
    Stages = {gpu}
    Stage = gpu
    Items = {0, 1, 2}
    Kinds = {"camera", "blur"}
    PhotoOf <- TwoPhotos
    Unopenable = {}
    ChunkSize = 2
    NDevices = 2
    MaxDeaths = 1
    MaxRuns = 2
    MaxTroubles = 1
INVARIANTS TypeOK StoredBeforeDone OneProcessPerItem DevicesExclusive
PROPERTIES ReturnAccountsForAll EventuallyDone
