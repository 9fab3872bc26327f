SPECIFICATION FairSpec
CONSTANTS
    Configs <- MCOneConfig
    Phases = {}
    Waves = {}
    Slots = {}
    Limits <- MCLimits
    Pairs <- MCPairs
    MaxCuts = 0
    MaxCalls = 3
PROPERTY OutputUndisturbed
CHECK_DEADLOCK FALSE
