\* Listener, consumer loop, data monitor, message loop and two calls of
\* open (a channel, then the same channel again or no channel) over two
\* buffers, with one silence of the multicast and one route change, every
\* thread scheduled fairly.  The run ends when the bounds are spent and
\* every thread waits for input.
CONSTANTS
    NBuf = 2
    ChunkSize = 3
    PayloadSizes <- MCPayloadSizes
    BufferSize = 4
    LostAfter = 1
    ReconfAfter = 2
    Uris <- MCOneUri
    MaxPackets = 2
    MaxTicks = 3
    MaxOutages = 1
    MaxOpens = 2
    MaxRoutes = 1
SPECIFICATION FairSpec
INVARIANT TypeOK BuffersConserved ChunkAccounting
PROPERTY ListenerGetsBuffer
CHECK_DEADLOCK FALSE
