CONSTANTS
    NumFrames = 8
    MaxB = 2
    GopSize = 4
    ClosedGop = TRUE
    MaxForces = 1
    MaxRenegs = 1
    MaxEos = 1
    MaxStops = 1
    FrameSize = 4
    SampleRate = 3
    GST_SECOND = 10
    BufferSizes = {1, 3, 8, 10}
    Gaps = {2}
    MaxPos = 40
    NumPads = 3
    MaxTime = 2
    MaxBuffers = 2
SPECIFICATION MCSpec
INVARIANTS VideoInv KeyframesInTime AudioInv MuxInv
PROPERTY InOrder
CHECK_DEADLOCK FALSE
