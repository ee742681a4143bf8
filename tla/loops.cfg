CONSTANTS
    t1 = t1
    t2 = t2
    h1 = h1
    h2 = h2
    a = a
    b = b
    NoMachine = NoMachine
    NoRow = NoRow
    Keep = Keep
    FailN = 1
    OkN = 1
    MaxCount = 1
    MaxCrashes = 0
    Target = {t1}
    Handler = {h1, h2}
    SpecKey = {a, b}
    MaxTime = 2
    MaxEvents = 1
    MaxFaults = 1
    MaxRequests = 3
    MaxLoops = 4
SPECIFICATION TLiveSpec
INVARIANTS
    OneLiveLoop
    RunningMatchesRows
    TableAgrees
PROPERTIES
    DeletedGoesQuiet
    EnabledIsSampled
\* Once its targets are deleted and the requests are served the program idles.
CHECK_DEADLOCK FALSE
