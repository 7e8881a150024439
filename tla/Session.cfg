CONSTANTS
    Blank = Blank
    Torn = Torn
    MaxPanes = 3
    MaxMoves = 3
    MaxStarts = 3
    MaxFailures = 1
    MaxOutputs = 2
SPECIFICATION Spec
CHECK_DEADLOCK FALSE
INVARIANTS
    OwnScrollback
PROPERTIES
    RestoredWhole
    ActiveTabComesBack
