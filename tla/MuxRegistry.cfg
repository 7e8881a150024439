SPECIFICATION FairSpec
CONSTANTS
    Spawns = 2
    MaxQueue = 2
INVARIANTS
    TabsListedOnce
PROPERTIES
    LivePanesStay
    OnlyLateTabsStray
    QuitLosesNoOldPane
    LeftoversLeave
    EmptyMuxQuits
CHECK_DEADLOCK FALSE
