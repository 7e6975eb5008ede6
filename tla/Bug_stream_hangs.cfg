SPECIFICATION GenFairSpec
CONSTANTS
    Letters = 2
    Surrogates = {1}
    MaxRetries = 1
PROPERTY GenerationEnds
CHECK_DEADLOCK FALSE
