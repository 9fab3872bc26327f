SPECIFICATION Spec
CONSTANTS
    f1 = f1
    f2 = f2
    f3 = f3
    f4 = f4
    Frames <- MCFrames
    FrameBytes <- MCFrameBytes
    Labels <- MCLabels
    Budget = 3
    MaxPuts = 4
INVARIANTS TypeOK OneWorkingFrame WithinBudget
PROPERTIES HandleStable KeptNeverSilentlyLost RefusalIsHonest ImplementsArchive
