CONSTANTS
    p1 = p1
    p2 = p2
    Duration = 3
    Seekers = {p1, p2}
    SeekRequests <- MCRequests
    MaxSeeks = 2
    MaxStarts = 2
SPECIFICATION Spec
INVARIANT MusepackInv
PROPERTY SeekReturns
CHECK_DEADLOCK FALSE
