CONSTANTS
    t1 = t1
    Target = {t1}
    QueueCap = 1
    Minute = 1
    Hour = 2
    KeepRaw = 4
    Keep1m = 4
    MaxTime = 7
    MaxSamples = 2
    MaxFaults = 1
    MaxCrashes = 1
    MaxStops = 1
SPECIFICATION LiveSpec
INVARIANTS
    UnrolledIsKept
PROPERTIES
    HourlyNeverShrinks
    SubmittedIsSettled
    StoredIsRolled
