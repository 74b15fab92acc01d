CONSTANTS
    Channels <- MCChannels
    Scrambled <- MCScrambled
    Layout <- MCLayout
    PacketUnits = 2
    ChunkUnits = 3
    BufUnits = 4
    MaxUnits = 10
    MaxOpens = 2
SPECIFICATION Spec
INVARIANT TypeOK NextPacketReadsWindow
CHECK_DEADLOCK FALSE
