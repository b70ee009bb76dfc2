\* One photo of two cannot be opened.
SPECIFICATION FairSpec
CONSTANTS
    Stages = {gpu}
    Stage = gpu
    Items = {0, 1}
    Kinds = {"blur"}
    PhotoOf <- OnePhotoEach
    Unopenable = {1}
    ChunkSize = 1
    NDevices = 1
    MaxDeaths = 0
    MaxRuns = 3
    MaxTroubles = 0
PROPERTIES AllAttempted
