CONSTANTS
    SeqMod = 16
    DataTypes = 14
    Stream <- MCStream
    MaxOld = 3
    MaxPackets = 2
    Lengths <- MCLengths
    Words <- MCWords
    MaxInBuffer = 3
SPECIFICATION MCSpec
INVARIANTS DepayInv GapMarked VisitsEveryPacket
PROPERTY OldDropped
CHECK_DEADLOCK FALSE
