CONSTANTS
    t1 = t1
    t2 = t2
    Target = {t1, t2}
    NoMachine = NoMachine
    FailN = 2
    OkN = 2
    MaxCount = 2
    MaxTime = 3
    MaxEvents = 3
    MaxFaults = 1
    MaxCrashes = 2
SYMMETRY Symmetry
SPECIFICATION Spec
INVARIANTS
    TypeOK
    OpenIDsTracked
    DurationsSane
    DowntimeExact
PROPERTIES
    ImplementsLog
