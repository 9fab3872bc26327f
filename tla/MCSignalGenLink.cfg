SPECIFICATION FairSpec
CONSTANTS
    Configs <- MCConfigs
    Phases = {1234, 3601}
    Waves <- MCWaves
    Slots = {1, 3}
    Limits <- MCLimits
    Pairs <- MCPairs
    MaxCuts = 1
    MaxCalls = 2
INVARIANTS
    TypeOK
    AgreesWithSimulated
PROPERTIES
    QuietOutputUndisturbed
    QuietAcknowledgedMeansDone
    OperationEnds
CHECK_DEADLOCK FALSE
