SPECIFICATION LiveSpec
CONSTANTS
    Client = {c1, c2}
    MaxUnsaved = 2
    MaxPanics = 1
INVARIANTS
    FlaggedOnlyUnderTest
    AcceptedAccounted
    
PROPERTIES
    TriggerTaken
    RunEnds
