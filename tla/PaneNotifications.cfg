SPECIFICATION Spec
CONSTANTS
    a = a
    b = b
    c = c
    d = d
    t1 = t1
    t2 = t2
    t3 = t3
    w1 = w1
    w2 = w2
    ws1 = ws1
    ws2 = ws2
    Panes = {a, b, c, d}
    Tabs = {t1, t2, t3}
    Windows = {w1, w2}
    Workspaces = {ws1, ws2}
    Texts = {x}
    NoTab = NoTab
    NoPane = NoPane
    Leaves <- MCLeaves
    TabList <- MCTabList
    WorkspaceOf <- MCWorkspaceOf
    InitialWorkspace = ws1
    Talkers = {b, d}
    MaxNotifications = 2
    MaxEnded = 1
    MaxQueue = 3
    MaxToasts = 1
INVARIANT BadgesInPlace
PROPERTY WatchedStaysRead
PROPERTY ReadOnlyWhenSeen
PROPERTY FocusSettles
CHECK_DEADLOCK FALSE
