CONSTANTS
    BufferSizes = {1, 3}
    ReadSizes = {2}
    MaxBuffers = 3
    MaxEvents = 1
    MaxFlushes = 1
    MaxStops = 1
    MaxFrames = 1
    s1 = s1
    s2 = s2
    Streams = {s1, s2}
    Unknown = {s2}
    DownstreamFlow = {"OK", "NOT_LINKED", "WRONG_STATE"}
SPECIFICATION Spec
INVARIANTS PipeInv NotBothAsleep
PROPERTIES ChainReturns EosEndsTask StopEndsStreaming
CHECK_DEADLOCK FALSE
