CONSTANTS
    Subagents = {a1, a2}
    Patience = 1
    HookTimeout = 2
    MaxKills = 2
SPECIFICATION CounterFairSpec
CHECK_DEADLOCK FALSE
INVARIANT CountIsExact
INVARIANT LockIsNotOrphaned
PROPERTY EveryHookEnds
