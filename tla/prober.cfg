SPECIFICATION Spec
CONSTANTS
    Timeout = 1
    Silence = 2
    MinRun = 2
    Slots = 1
    MaxSends = 4
    MaxSeconds = 3
    MaxFaults = 1
    MaxRepeats = 1
    MaxBoots = 1
    MaxFlips = 0
INVARIANTS
    FreezesExact
    SecondsExact
