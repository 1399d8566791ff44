CONSTANTS
    SeqMod = 8
    DataTypes = 7
    FirstPacket = 5
    LastPacket = 7
    Stream <- MCStream
    MaxArrivals = 3
    MaxRestarts = 1
SPECIFICATION Spec
INVARIANTS MInv NoLostWakeup NothingLost
PROPERTIES StopCompletes Delivered DiscontMarked
CHECK_DEADLOCK FALSE
