CONSTANTS
    FailN = 2
    OkN = 3
    MaxCount = 3
    RTT = {1, 2, 5}
    LoadedRTT = 9
    Window = 3
    Glance = 2
    Bucket = 4
    Percent = 60
    MaxSamples = 7
SPECIFICATION HSpec
INVARIANTS
    MatchesHistory
    DatedAtRunStart
    BurstsExact
    WindowExact
    
