CONSTANTS
    a = a
    b = b
    h1 = h1
    h2 = h2
    Value = {a, b}
    Handler = {h1, h2}
    NoValue = NoValue
    MaxUpdates = 3
    MaxFaults = 1
    MaxRestarts = 3
SPECIFICATION Spec
INVARIANTS
    EditsWin
    SafeInForce
\* After the last restart allowed by the bound a crash is final.
CHECK_DEADLOCK FALSE
