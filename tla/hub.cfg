CONSTANTS
    c1 = c1
    c2 = c2
    Client = {c1, c2}
    BufSize = 2
    MaxFrames = 4
SPECIFICATION Spec
INVARIANTS
    NoPanic
    NoGap

    
\* With every client gone and the last frame sent nothing is left to do.
CHECK_DEADLOCK FALSE
