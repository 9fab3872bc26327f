\* The order of the code's times: the settling latency of a free run is the shortest, the
\* arm wait is longer, the trigger wait longest, and a memory depth change may outlast
\* the arm wait.
SPECIFICATION FairSpec
CONSTANTS
    MaxCalls = 2
    NumChannels = 2
    ArmBudget = 2
    TriggerBudget = 3
    Settle = 1
    Window = 1
    Latency = 1
    Realloc = 3
INVARIANTS
    TypeOK
    FrameHonest
PROPERTIES
    EventDelivered
    CallEnds
