SPECIFICATION FairSessionSpec
CONSTANTS
    good = good
    large = large
    Frames <- MCFrames
    FrameBytes <- MCFrameBytes
    Labels <- MCNoLabels
    Clipped <- MCClipped
    Triggered <- MCTriggered
    Settled <- MCSettled
    Budget = 2
    OwnBudget = 1
    MaxPuts = 3
    MaxWiden = 1
    MaxIterations = 1
PROPERTY FinalFrameAddressable
