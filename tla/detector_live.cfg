CONSTANTS
    t1 = t1
    Target = {t1}
    NoMachine = NoMachine
    FailN = 2
    OkN = 2
    MaxCount = 2
    MaxTime = 3
    MaxEvents = 3
    MaxFaults = 0
    MaxCrashes = 2
    MaxFlips = 4
SPECIFICATION LSpec
PROPERTIES
    
    SilenceIsRecorded
\* With its only target deleted and the network settled the model has no step left.
CHECK_DEADLOCK FALSE
