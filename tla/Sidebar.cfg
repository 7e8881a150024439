CONSTANTS
    Nothing = Nothing
    Panes = {p1}
    MaxAgents = 1
    MaxFailures = 1
    MaxMoves = 1
SPECIFICATION SidebarSpec
CHECK_DEADLOCK FALSE
INVARIANTS
    CardsAreCurrent
PROPERTIES
    ReapsOnlyDeparted
    RefreshStarts
    DepartedIsReaped
