SPECIFICATION FairSpec
CONSTANTS
    Level <- MCLevel
    BootPattern = "uart"
    WordSamples = 2
    FifoDepth = 2
    MaxCalls = 2
    MaxLate = 1
INVARIANT TypeOK
PROPERTIES
    Seamless
    QuietAcknowledgedMeansDone
    CommandsTakeEffect
CHECK_DEADLOCK FALSE
