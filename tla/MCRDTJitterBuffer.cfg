CONSTANTS
    SeqMod = 16
    DataTypes = 14
    LastPacket = 20
    Stream <- MCStream
    MAX_WINDOW = 3
    MAX_TIME = 30
    GST_SECOND = 20
    Unit = 10
    LastRtpTime = 3
    LastTime = 1
    RtpTimes <- MCRtpTimes
    Times <- MCTimes
SPECIFICATION MCSpec
INVARIANTS JInv SkewInv
PROPERTIES ImplementsReorderBuffer SkewApproachesMin
