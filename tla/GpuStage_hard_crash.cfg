\* Two GPUs; one process is killed.
SPECIFICATION FairSpec
CONSTANTS
    Stages = {gpu}
    Stage = gpu
    Items = {0, 1}
    Kinds = {"camera"}
    PhotoOf <- OnePhotoEach
    Unopenable = {}
    ChunkSize = 1
    NDevices = 2
    MaxDeaths = 1
    MaxRuns = 1
    MaxTroubles = 0
PROPERTIES RunsEnd
