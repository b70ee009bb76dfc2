SPECIFICATION PipelineSpec
CONSTANTS
    Shapes <- TwoStagePools
    NInputs = 3
    MaxErrors = 0
PROPERTY MapEnds
CHECK_DEADLOCK FALSE
