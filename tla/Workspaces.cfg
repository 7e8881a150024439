CONSTANTS
    MaxName = 3
    MaxGroup = 2
    MaxEdits = 3
    MaxMoves = 3
    MaxChanges = 3
    MaxFailures = 1
    MaxFaults = 2
SPECIFICATION Spec
CHECK_DEADLOCK FALSE
INVARIANT SettingsAgree
INVARIANT SpawnOpensAtHome
INVARIANT QuietIsSettled
PROPERTY EditMovesOneThing
