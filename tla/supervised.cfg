CONSTANTS
    Interval = 3
    MaxDelay = 8
    MaxTime = 20
    Base = 1
    MaxBackoff = 3
    Healthy = 12
    MaxExits = 4
SPECIFICATION SSpec
INVARIANTS
    OnGrid
    BackoffExact
PROPERTIES
    RestartsUntilCancelled
\* A supervision that has ended, and the bound on the clock, end a behaviour.
CHECK_DEADLOCK FALSE
