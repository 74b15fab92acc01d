\* A channel is opened, its multicast falls silent, and the monitor asks
\* for a rejoin; every thread of the handler is scheduled fairly and the
\* network is free to stay silent.
CONSTANTS
    NBuf = 2
    ChunkSize = 3
    PayloadSizes <- MCPayloadSizes
    BufferSize = 4
    LostAfter = 1
    ReconfAfter = 2
    Uris <- MCUris
    MaxPackets = 1
    MaxTicks = 3
    MaxOutages = 1
    MaxOpens = 1
    MaxRoutes = 0
SPECIFICATION FairSpec
PROPERTY RejoinCompletes
CHECK_DEADLOCK FALSE
