SPECIFICATION Spec
CONSTANTS
    Panes = {p1, p2}
    Workspaces = {alpha, beta}
    Texts = {done, asking}
    MaxNotifications = 3
INVARIANT CountsMatchRecords
INVARIANT BadgeIffJumpTarget
PROPERTY ImplementsLedger
