SPECIFICATION FairSpec
CONSTANTS
    Files <- MCFiles
    Streams <- MCStreams
    Limits <- MCLimits
    OneThread = FALSE
    MaySeekFail = FALSE
    MaxSeeks = 0
INVARIANT
    PacketForPacket
