CONSTANTS
    Panes = {p1, p2, p3, p4}
    None = None
    First = p1
    Sizes <- MCSizes
    Start <- MCStart
    Deltas <- MCDeltas
    MaxMoves = 6
SPECIFICATION Spec
SYMMETRY Symmetry
CHECK_DEADLOCK FALSE
PROPERTIES
    TilingSurvives
    PtysFollowSlots
    ActiveStays
    PruneMissesOnlyTwins
