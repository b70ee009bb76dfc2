SPECIFICATION GridSpec
CONSTANTS
    Axes = {x}
    Lengths = {5}
    MaxCalls = 4
INVARIANT ValuesAtPositions
CHECK_DEADLOCK FALSE
