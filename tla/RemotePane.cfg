CONSTANTS
    Height = 2
    FirstTop = 0
    MaxTop = 1
    MaxOutputs = 2
    MaxEvents = 1
    MaxRequests = 1
    MaxPushes = 1
    AltModes = {1047, 1049}
SPECIFICATION Spec
INVARIANT RestingViewIsCurrent
PROPERTY ViewCatchesUp
