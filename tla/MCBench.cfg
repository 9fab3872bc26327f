SPECIFICATION BenchSpec
CONSTANTS
    Signals <- MCSignals
    Setups <- MCSetups
    Triggers <- MCTriggers
    Noises <- MCNoises
    Points = 24
    ArmPolls = 2
    TriggerPolls = 2
    DefaultDt = 2
    ViewBins = {5, 31}
    MaxCalls = 3
    LoopSignals <- MCLoopSignals
    LoopSetups <- MCLoopSetups
    Probe = 10
    WideScale = 500000
    MaxWiden = 3
    MaxIterations = 8
    U32Max = 1000000
    Calls <- MCCalls
    Framings <- MCFramings
    Starts = {0, 3, 6, 8, 11, 17, 23, 29, 36, 42, 48, 52, 55, 58}
    Lengths = {120}
    Rates <- MCRates
    EdgeVolts = {9, 15, 21}
INVARIANTS
    TypeOK
    OneShotHonest
    TriggerCentred
    TriageRight
    FeaturesRight
    LoopTypeOK
    EndsUsable
    SerialRight
    PatternsRight
PROPERTY ZoomStaysInView
