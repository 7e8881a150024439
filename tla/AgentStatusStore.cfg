SPECIFICATION StoreSpec
CONSTANTS
    Panes = {p1}
    Messages = {m1, m2, m3}
    None = None
    Fields = {"tool", "subagent_count", "background_tasks_count"}
    Values = {v1, v2}
    StickySeconds = 3
    GenerationSpan = 2
INVARIANT CardShowsTurnOutput
PROPERTY GenerationTracksCards
