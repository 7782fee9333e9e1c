SPECIFICATION MCSpec
CONSTANTS
    NoiseSamples = 1
    TurnSamples = 1
    RetrySamples = 2
    Widths = {1, 2, 3}
    Calls = 2
    Hold = 1
    Patience = 2
    AcrossFlips = FALSE
PROPERTIES ProvenBeforePhoto
CHECK_DEADLOCK FALSE
