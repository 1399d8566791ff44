CONSTANTS
    Packets <- MCPackets
    Index <- MCIndex
    IndexKinds = {"present", "absent", "cut", "unreadable"}
    Pull = 4
    SeekRequests <- MCRequests
    DownstreamFlow = {"OK", "NOT_LINKED", "ERROR"}
    MaxSeeks = 2
    MaxStarts = 2
    SeqSize = 6
    MaxTime = 18
SPECIFICATION MCSpec
INVARIANTS RMInv NothingBeforeSeek ShownOnTime
PROPERTY Progress
CHECK_DEADLOCK FALSE
