SPECIFICATION Spec
CONSTANTS
    NumChannels = 2
    RawChunk = 2
    Screen = 2
    Records = {3}
    MemoryDepths <- MCMemoryDepths
    Switched = {2}
    Newlines = {2}
    MaxCalls = 3
    MaxTimeouts = 1
    MaxFrames = 1
    MaxWire = 1
INVARIANTS
    TypeOK
    Framed
    FrameRight
    NeverStale
    DepthTaken
