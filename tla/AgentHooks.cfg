SPECIFICATION FairSpec
CONSTANTS
    Pane = p1
    Panes = {p1}
    Messages = {output1, output2, label}
    None = None
    Fields = {"background_tasks_count"}
    Values = {v1}
    StickySeconds = 3
    GenerationSpan = 2
    Label = label
    output1 = output1
    output2 = output2
    Outputs <- MCOutputs
    MaxTurns = 2
    MaxNotices = 2
INVARIANT DialogShowsNeedsInput
INVARIANT QuietTurnShowsOutput
PROPERTY WorkingEnds
CHECK_DEADLOCK FALSE
