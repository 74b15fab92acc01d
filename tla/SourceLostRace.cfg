\* The published source-lost state against the flag and the counter, with
\* datagrams arriving while the monitor declares the source lost.
CONSTANTS
    NBuf = 2
    ChunkSize = 3
    PayloadSizes <- MCPayloadSizes
    BufferSize = 4
    LostAfter = 1
    ReconfAfter = 2
    Uris <- MCUris
    MaxPackets = 2
    MaxTicks = 3
    MaxOutages = 1
    MaxOpens = 1
    MaxRoutes = 0
SPECIFICATION Spec
INVARIANT SrcLostPublished
CHECK_DEADLOCK FALSE
