SPECIFICATION Spec
CONSTANTS
    NoTab = NoTab
    TabIds = {t1, t2, t3, t4}
INVARIANT ActiveInRange
PROPERTY CloseKeepsActiveOrNeighbour
