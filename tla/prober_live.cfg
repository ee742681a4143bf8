SPECIFICATION LiveSpec
CONSTANTS
    Timeout = 1
    Silence = 2
    MinRun = 2
    Slots = 1
    MaxSends = 2
    MaxSeconds = 1
    MaxFaults = 1
    MaxRepeats = 1
    MaxBoots = 2
    MaxFlips = 2
PROPERTIES
    EverySeqResolves
    TokenRenewed
