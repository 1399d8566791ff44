CONSTANTS
    SeqMod = 8
    DataTypes = 7
    FirstPacket = 6
    LastPacket = 7
    Stream <- MCStream
    MaxArrivals = 2
    MaxRestarts = 0
SPECIFICATION Spec
INVARIANT EosAfterData
CHECK_DEADLOCK FALSE
