CONSTANTS
    s1 = s1
    s2 = s2
    p1 = p1
    p2 = p2
    Streams = {s1, s2}
    Unknown = {}
    File <- MCFile
    StartTime = 1
    Seekers = {p1, p2}
    SeekRequests <- MCRequests
    DownstreamFlow = {"OK", "NOT_LINKED"}
    MaxSeeks = 2
    MaxStarts = 1
SPECIFICATION Spec
INVARIANTS PullInv NoStaleData DiscontAfterSeek
PROPERTY Progress
CHECK_DEADLOCK FALSE
