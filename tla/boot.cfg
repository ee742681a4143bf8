CONSTANTS
    gateway = gateway
    anchor = anchor
    x = x
    y = y
    r1 = r1
    r2 = r2
    Key = {gateway, anchor}
    Label = {x, y}
    Host = {r1, r2}
    NoRow = NoRow
    Lists <- MCLists
    Defaults <- MCDefaults
    Reflectors <- MCReflectors
    MaxBoots = 3
    MaxEdits = 2
    MaxRows = 3
SPECIFICATION Spec
INVARIANTS
    EditsSurvive
    ConfigInForce
\* After the last start allowed by the bound a stop is final.
CHECK_DEADLOCK FALSE
