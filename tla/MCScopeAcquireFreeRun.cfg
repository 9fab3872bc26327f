SPECIFICATION Spec
CONSTANTS
    MaxCalls = 1
    NumChannels = 2
    ArmBudget = 2
    TriggerBudget = 3
    Settle = 1
    Window = 1
    Latency = 1
    Realloc = 3
INVARIANT FreeRunAlwaysFresh
