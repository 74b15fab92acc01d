---------------------------- MODULE SourceHandler ----------------------------
(***************************************************************************)
(* MediaSourceHandler with its BufferQueue (mFccBufferQueue) and the RTP  *)
(* source listener that feeds it.                                         *)
(*                                                                         *)
(* Threads:                                                               *)
(*   listener - RtpStreamListener::readLoop: under mLock, recvfrom, then  *)
(*              pushBuffertoBQ (acquireBuffer, queue, reportTSBuffer-     *)
(*              Queued);                                                  *)
(*   consumer - consumerLoop: consume, cut into chunks, post, release;   *)
(*   monitor  - dataMonitorLoop: every BUFFER_CHECK_PERIOD_MS, set the    *)
(*              source-lost flag and inject null TS buffers, or ask the   *)
(*              message loop to reconnect;                                *)
(*   messages - messageLoop: NO_MULTICAST, NO_GATEWAY, NEW_GATEWAY;       *)
(*   control  - open(uri), called on a channel change.                    *)
(* open and the message loop reach RtpStreamListener::setup through the   *)
(* demuxer; setup swaps the socket under the same mLock that readLoop    *)
(* holds across recvfrom.  connect and disconnect do nothing in the RTP   *)
(* and UDP demuxers and are left out.                                     *)
(*                                                                         *)
(* The flag mBufferSourceLost is an atomic; the MVar kBufferSrcLost0 is   *)
(* written under the registry lock, but the value written is built from   *)
(* the flag and mSourceLostCounter before that, outside any lock.         *)
(*                                                                         *)
(* Time is counted in monitor periods: each wake-up of the monitor is one *)
(* BUFFER_CHECK_PERIOD_MS.  idle is the number of periods since           *)
(* mLastValidBufferTimeMs, saturated above ReconfAfter.  Byte counts are  *)
(* in abstract units; a chunk is ChunkSize of them.  Each datagram the    *)
(* listener receives is taken to be in order (the reorder cache is the    *)
(* subject of RtpReassembler).                                            *)
(***************************************************************************)
EXTENDS Integers, Sequences, FiniteSets

CONSTANTS
    NBuf,         \* FEIP_DEFAULT_BUFFER_COUNT: buffers, and the queue depth
    ChunkSize,    \* BUFFER_CHUNK_SIZE
    PayloadSizes, \* sizes of the buffers a listener queues
    BufferSize,   \* FEIP_BUFFER_SIZE: the size a buffer is allocated with
    LostAfter,    \* NO_BUFFER_RECEIVED_THRESHOLD_MS in periods
    ReconfAfter,  \* NO_BUFFER_RECEIVED_RECONFIGURE_THRESHOLD_MS in periods
    Uris,         \* channel URIs open may be called with
    MaxPackets,   \* bound: datagrams the listener receives
    MaxTicks,     \* bound: monitor periods
    MaxOutages,   \* bound: times the multicast goes silent
    MaxOpens,     \* bound: calls of open
    MaxRoutes     \* bound: default-route changes

ASSUME /\ NBuf \in Nat \ {0} /\ ChunkSize \in Nat \ {0}
       /\ PayloadSizes \subseteq Nat \ {0} /\ BufferSize \in Nat \ {0}
       /\ LostAfter \in Nat /\ ReconfAfter \in Nat /\ LostAfter < ReconfAfter

Buffers == 1..NBuf
NoBuf == 0
NoUri == ""               \* mCurrentUri before any channel; mFd == 0
NoChannel == "0.0.0.0"    \* NO_CHANNEL_URL, opened on NO_GATEWAY
Groups == Uris \cup {NoUri, NoChannel}
Messages == {"NO_MULTICAST", "NO_GATEWAY", "NEW_GATEWAY"}

VARIABLES
    free,       \* producerQueue: buffers a listener may acquire
    filled,     \* consumerQueue: queued buffers, in order
    size,       \* size[b]: bytes in buffer b
    up,         \* the multicast the socket has joined delivers datagrams
    idle,       \* periods since mLastValidBufferTimeMs
    lost,       \* mBufferSourceLost
    counter,    \* mSourceLostCounter
    mvar,       \* kBufferSrcLost0: [lost, n] as published
    msgs,       \* mMessageHandler's queue
    cur,        \* mCurrentUri (and mCurrentChannelConfig)
    joined,     \* the group of the listener's socket mFd
    feip,       \* holder of mFeipConfMutex: "none", "open" or "msg"
    pcL, lbuf, lmsg,   \* listener: pc, its buffer, the value it publishes
    pcM, mbuf, mmsg,   \* monitor: pc, its buffer, the value it publishes
    pcC, cbuf,         \* consumer: pc, its buffer
    offset,     \* consumerLoop's offset into the current chunk
    consumed,   \* bytes the consumer loop has taken in
    posted,     \* chunks posted to the stream processor
    pcO, uriO,  \* control thread in open, and its uri
    pcG, gUri,  \* message loop, and the group it is setting up
    nPackets, nTicks, nOutages, nOpens, nRoutes

qVars == <<free, filled, size>>
flagVars == <<lost, counter, mvar>>
lVars == <<pcL, lbuf, lmsg, nPackets>>
mVars == <<pcM, mbuf, mmsg, nTicks>>
cVars == <<pcC, cbuf, offset, consumed, posted>>
oVars == <<pcO, uriO, nOpens>>
gVars == <<pcG, gUri>>
envVars == <<up, nOutages, nRoutes>>
vars == <<qVars, flagVars, lVars, mVars, cVars, oVars, gVars, envVars,
          idle, msgs, cur, joined, feip>>

\* srcStateToMVar: the published value, built from the flag and the counter.
SrcState(l, n) == [lost |-> l, n |-> n]

\* readLoop holds mLock from before recvfrom until the datagram is queued.
ListenerHoldsLock == pcL /= "idle"

-----------------------------------------------------------------------------
(* BufferQueue.  The depth equals the buffer count, so queue and release  *)
(* never wait; acquire and consume wait for a non-empty queue.            *)

\* Mutant of ReleaseBuffer: the buffer goes back twice.
ReleaseBufferTwice(q, b) == q \o <<b, b>>

\* BufferQueue::queue: push onto consumerQueue.  The wait for room never
\* blocks, since the queue is as deep as there are buffers.
QueueBuffer(q, b) == Append(q, b)

\* Mutant of ReleaseBuffer: the buffer is not handed back.
ReleaseBufferDropped(q, b) == q

\* BufferQueue::release: push onto producerQueue.
ReleaseBuffer(q, b) == Append(q, b)

\* BufferQueue::acquire and consume: wait until the queue is not empty
\* (isProducerQueueEmpty, isConsumerQueueEmpty), then front() and pop().
Take(q, b) == q /= <<>> /\ b' = Head(q) /\ q' = Tail(q)

-----------------------------------------------------------------------------
(* The listener.                                                          *)

\* while (mFd == 0) sleep; then lock_guard(mLock).
ListenerLock ==
    /\ pcL = "idle" /\ joined /= NoUri /\ nPackets < MaxPackets
    /\ pcL' = "recv"
    /\ UNCHANGED <<qVars, flagVars, lbuf, lmsg, nPackets, mVars, cVars, oVars, gVars,
                   envVars, idle, msgs, cur, joined, feip>>

\* recvfrom returns a datagram; processRtpPacket passes it to
\* pushBuffertoBQ, which starts with acquireBuffer.
ListenerRecv ==
    /\ pcL = "recv" /\ up
    /\ nPackets' = nPackets + 1 /\ pcL' = "acquire"
    /\ UNCHANGED <<qVars, flagVars, lbuf, lmsg, mVars, cVars, oVars, gVars,
                   envVars, idle, msgs, cur, joined, feip>>

\* acquireBuffer: wait for a free buffer and take the oldest.
ListenerAcquire ==
    /\ pcL = "acquire" /\ Take(free, lbuf)
    /\ pcL' = "queue"
    /\ UNCHANGED <<filled, size, flagVars, lmsg, nPackets, mVars, cVars, oVars, gVars,
                   envVars, idle, msgs, cur, joined, feip>>

\* cBuf->size = len and MediaSourceHandler::pushBuffertoBQ: queue it for
\* the consumer loop.
ListenerQueue ==
    /\ pcL = "queue"
    /\ \E n \in PayloadSizes : size' = [size EXCEPT ![lbuf] = n]
    /\ filled' = QueueBuffer(filled, lbuf) /\ lbuf' = NoBuf
    /\ pcL' = "report"
    /\ UNCHANGED <<free, flagVars, lmsg, nPackets, mVars, cVars, oVars, gVars,
                   envVars, idle, msgs, cur, joined, feip>>

\* reportTSBufferQueued: stamp mLastValidBufferTimeMs; if the source was
\* lost, clear the flag, else the datagram is done and mLock is released.
ListenerReport ==
    /\ pcL = "report"
    /\ idle' = 0
    /\ IF lost THEN lost' = FALSE /\ pcL' = "build"
               ELSE UNCHANGED lost /\ pcL' = "idle"
    /\ UNCHANGED <<qVars, counter, mvar, lbuf, lmsg, nPackets, mVars, cVars, oVars, gVars,
                   envVars, msgs, cur, joined, feip>>

\* srcStateToMVar(mBufferSourceLost): read the flag and the counter.
ListenerBuild ==
    /\ pcL = "build"
    /\ lmsg' = SrcState(lost, counter) /\ pcL' = "publish"
    /\ UNCHANGED <<qVars, flagVars, lbuf, nPackets, mVars, cVars, oVars, gVars,
                   envVars, idle, msgs, cur, joined, feip>>

\* *mBufferSrcLostMVar = ...: the write, under the registry lock; then
\* mLock is released.
ListenerPublish ==
    /\ pcL = "publish"
    /\ mvar' = lmsg /\ pcL' = "idle"
    /\ UNCHANGED <<qVars, lost, counter, lbuf, lmsg, nPackets, mVars, cVars, oVars, gVars,
                   envVars, idle, msgs, cur, joined, feip>>

-----------------------------------------------------------------------------
(* The consumer loop.                                                     *)

Smaller(a, b) == IF a < b THEN a ELSE b

\* Mutant of Slice: the copy ignores the bytes already in the chunk.
RECURSIVE SliceIgnoringOffset(_, _, _)
SliceIgnoringOffset(off, rem, n) ==
    IF rem = 0 THEN [offset |-> off, posted |-> n]
    ELSE LET copy == Smaller(ChunkSize, rem)
         IN  SliceIgnoringOffset((off + copy) % ChunkSize, rem - copy,
                                 IF copy + off = ChunkSize THEN n + 1 ELSE n)

\* Mutant of Slice: the offset is not wrapped when a chunk is posted, so
\* the unsigned chunk.size() - offset wraps round and the copy takes all.
RECURSIVE SliceNoWrap(_, _, _)
SliceNoWrap(off, rem, n) ==
    IF rem = 0 THEN [offset |-> off, posted |-> n]
    ELSE LET copy == IF off >= ChunkSize THEN rem ELSE Smaller(ChunkSize - off, rem)
         IN  SliceNoWrap(off + copy, rem - copy,
                         IF copy + off = ChunkSize THEN n + 1 ELSE n)

\* The inner loop of consumerLoop over one producer buffer of rem bytes,
\* starting off bytes into the chunk: copy what fits, post the chunk when
\* it is full, carry the offset on.  Returns the final offset and the
\* number of chunks posted.
RECURSIVE Slice(_, _, _)
Slice(off, rem, n) ==
    IF rem = 0 THEN [offset |-> off, posted |-> n]
    ELSE LET copy == Smaller(ChunkSize - off, rem)
         IN  Slice((off + copy) % ChunkSize, rem - copy,
                   IF copy + off = ChunkSize THEN n + 1 ELSE n)

\* consume(&tmpBuf, 1s): take the oldest queued buffer.  A timeout only
\* loops, so it is no step.
ConsumerConsume ==
    /\ pcC = "wait" /\ Take(filled, cbuf)
    /\ pcC' = "slice"
    /\ UNCHANGED <<free, size, flagVars, lVars, mVars, offset, consumed, posted,
                   oVars, gVars, envVars, idle, msgs, cur, joined, feip>>

\* Cut the buffer into chunks, post the full ones, release the buffer.
ConsumerSlice ==
    /\ pcC = "slice"
    /\ LET r == Slice(offset, size[cbuf], 0)
       IN  /\ offset' = r.offset
           /\ posted' = posted + r.posted
    /\ consumed' = consumed + size[cbuf]
    /\ free' = ReleaseBuffer(free, cbuf) /\ cbuf' = NoBuf
    /\ pcC' = "wait"
    /\ UNCHANGED <<filled, size, flagVars, lVars, mVars,
                   oVars, gVars, envVars, idle, msgs, cur, joined, feip>>

-----------------------------------------------------------------------------
(* The data monitor.                                                      *)

\* Sleep one period; if a channel is configured (destinationIp != 0),
\* compare the time since the last valid buffer with the two thresholds.
\* Above the reconfigure threshold: push NO_MULTICAST and sleep again;
\* above the loss threshold: go on to the flag and the injection.
MonitorWake ==
    /\ pcM = "sleep" /\ nTicks < MaxTicks
    /\ nTicks' = nTicks + 1
    /\ idle' = Smaller(idle + 1, ReconfAfter + 1)
    /\ IF cur /= NoUri /\ idle' > ReconfAfter
          THEN msgs' = Append(msgs, "NO_MULTICAST") /\ UNCHANGED pcM
       ELSE IF cur /= NoUri /\ idle' > LostAfter
          THEN pcM' = "check" /\ UNCHANGED msgs
       ELSE UNCHANGED <<pcM, msgs>>
    /\ UNCHANGED <<qVars, flagVars, lVars, mbuf, mmsg, cVars,
                   oVars, gVars, envVars, cur, joined, feip>>

\* if (!mBufferSourceLost) { set it; mSourceLostCounter++; publish }.
MonitorCheck ==
    /\ pcM = "check"
    /\ IF ~lost
          THEN lost' = TRUE /\ counter' = counter + 1 /\ pcM' = "build"
          ELSE UNCHANGED <<lost, counter>> /\ pcM' = "inject"
    /\ UNCHANGED <<qVars, mvar, lVars, mbuf, mmsg, nTicks, cVars,
                   oVars, gVars, envVars, idle, msgs, cur, joined, feip>>

\* srcStateToMVar(mBufferSourceLost), read after the set.
MonitorBuild ==
    /\ pcM = "build"
    /\ mmsg' = SrcState(lost, counter) /\ pcM' = "publish"
    /\ UNCHANGED <<qVars, flagVars, lVars, mbuf, nTicks, cVars,
                   oVars, gVars, envVars, idle, msgs, cur, joined, feip>>

MonitorPublish ==
    /\ pcM = "publish"
    /\ mvar' = mmsg /\ pcM' = "inject"
    /\ UNCHANGED <<qVars, lost, counter, lVars, mbuf, mmsg, nTicks, cVars,
                   oVars, gVars, envVars, idle, msgs, cur, joined, feip>>

\* injectNullBuffers: acquireBuffer(0) ...
MonitorAcquire ==
    /\ pcM = "inject" /\ Take(free, mbuf)
    /\ pcM' = "fill"
    /\ UNCHANGED <<filled, size, flagVars, lVars, mmsg, nTicks, cVars,
                   oVars, gVars, envVars, idle, msgs, cur, joined, feip>>

\* ... overwrite its buf->size bytes with null packets (the size is the one
\* the buffer last had) and pushBuffertoBQ, without reportTSBufferQueued.
MonitorQueue ==
    /\ pcM = "fill"
    /\ filled' = QueueBuffer(filled, mbuf) /\ mbuf' = NoBuf
    /\ pcM' = "sleep"
    /\ UNCHANGED <<free, size, flagVars, lVars, mmsg, nTicks, cVars,
                   oVars, gVars, envVars, idle, msgs, cur, joined, feip>>

-----------------------------------------------------------------------------
(* Joining a group: RtpDemuxer::open builds the ChannelConfig and calls   *)
(* RtpStreamListener::setup, which creates, binds and joins a socket      *)
(* without a lock (any failure closes it and returns, the old socket      *)
(* staying in use), then under mLock closes the old mFd and installs the  *)
(* new one.  Whether the new group delivers is up to the network.         *)

\* The outcome of setup's socket, bind and IP_ADD_MEMBERSHIP for a group.
JoinOutcomes(g) == IF g \in Uris THEN {"joined", "failed"} ELSE {"failed"}

\* The lock_guard(mLock) block of setup: swap the socket.
SwapSocket(g) ==
    /\ joined' = g
    /\ up' \in (IF g \in Uris THEN BOOLEAN ELSE {FALSE})

-----------------------------------------------------------------------------
(* The control thread: open(uri, demuxer).                                *)

\* lock mFeipConfMutex; the same uri returns -1.  Otherwise record the
\* ChannelConfig and mCurrentUri, disconnect (onEndOfStream),
\* notifyStreamSwitched; an empty uri goes to finish, any other is opened
\* on the demuxer.
OpenStart ==
    /\ pcO = "idle" /\ nOpens < MaxOpens /\ feip = "none"
    /\ nOpens' = nOpens + 1
    /\ \E u \in Uris \cup {NoUri} :
         IF u = cur
            THEN UNCHANGED <<pcO, uriO, cur, feip>>
            ELSE /\ feip' = "open" /\ cur' = u /\ uriO' = u
                 /\ pcO' = IF u = NoUri THEN "finish" ELSE "join"
    /\ UNCHANGED <<qVars, flagVars, lVars, mVars, cVars, gVars, envVars,
                   idle, msgs, joined>>

\* feip->mDemuxer->open(uri): setup's socket, bind and join.
OpenJoin ==
    /\ pcO = "join"
    /\ \E r \in JoinOutcomes(uriO) : pcO' = IF r = "joined" THEN "swap" ELSE "finish"
    /\ UNCHANGED <<qVars, flagVars, lVars, mVars, cVars, uriO, nOpens, gVars, envVars,
                   idle, msgs, cur, joined, feip>>

\* setup's lock_guard(mLock): install the new socket.
OpenSwap ==
    /\ pcO = "swap" /\ ~ListenerHoldsLock
    /\ SwapSocket(uriO) /\ pcO' = "finish"
    /\ UNCHANGED <<qVars, flagVars, lVars, mVars, cVars, uriO, nOpens, gVars,
                   nOutages, nRoutes, idle, msgs, cur, feip>>

\* onOpen, stamp mLastValidBufferTimeMs, release mFeipConfMutex.
OpenFinish ==
    /\ pcO = "finish"
    /\ idle' = 0 /\ feip' = "none" /\ pcO' = "idle"
    /\ UNCHANGED <<qVars, flagVars, lVars, mVars, cVars, uriO, nOpens, gVars, envVars,
                   msgs, cur, joined>>

-----------------------------------------------------------------------------
(* The message loop.                                                      *)

\* waitForMessage.  NO_GATEWAY opens NO_CHANNEL_URL on "lo"; NO_MULTICAST
\* stamps mLastValidBufferTimeMs and reopens mCurrentUri, without
\* mFeipConfMutex; NEW_GATEWAY first takes mFeipConfMutex.
MessageTake ==
    /\ pcG = "wait" /\ msgs /= <<>>
    /\ msgs' = Tail(msgs)
    /\ CASE Head(msgs) = "NO_GATEWAY" ->
              gUri' = NoChannel /\ pcG' = "join" /\ UNCHANGED idle
         [] Head(msgs) = "NO_MULTICAST" ->
              gUri' = cur /\ pcG' = "join" /\ idle' = 0
         [] Head(msgs) = "NEW_GATEWAY" ->
              UNCHANGED <<gUri, idle>> /\ pcG' = "gateway"
    /\ UNCHANGED <<qVars, flagVars, lVars, mVars, cVars, oVars, envVars,
                   cur, joined, feip>>

\* NEW_GATEWAY: lock mFeipConfMutex, stamp mLastValidBufferTimeMs, reopen
\* mCurrentUri on the new interface.
MessageGatewayLock ==
    /\ pcG = "gateway" /\ feip = "none"
    /\ feip' = "msg" /\ idle' = 0 /\ gUri' = cur /\ pcG' = "join"
    /\ UNCHANGED <<qVars, flagVars, lVars, mVars, cVars, oVars, envVars,
                   msgs, cur, joined>>

\* Releasing mFeipConfMutex if this message took it.
FeipAfterMessage == IF feip = "msg" THEN "none" ELSE feip

MessageJoin ==
    /\ pcG = "join"
    /\ \E r \in JoinOutcomes(gUri) :
         IF r = "joined" THEN pcG' = "swap" /\ UNCHANGED feip
                         ELSE pcG' = "wait" /\ feip' = FeipAfterMessage
    /\ UNCHANGED <<qVars, flagVars, lVars, mVars, cVars, oVars, gUri, envVars,
                   idle, msgs, cur, joined>>

MessageSwap ==
    /\ pcG = "swap" /\ ~ListenerHoldsLock
    /\ SwapSocket(gUri) /\ pcG' = "wait" /\ feip' = FeipAfterMessage
    /\ UNCHANGED <<qVars, flagVars, lVars, mVars, cVars, oVars, gUri,
                   nOutages, nRoutes, idle, msgs, cur>>

-----------------------------------------------------------------------------
(* The network.                                                           *)

SourceStops ==
    /\ up /\ nOutages < MaxOutages
    /\ up' = FALSE /\ nOutages' = nOutages + 1
    /\ UNCHANGED <<qVars, flagVars, lVars, mVars, cVars, oVars, gVars, nRoutes,
                   idle, msgs, cur, joined, feip>>

SourceResumes ==
    /\ ~up /\ joined \in Uris /\ up' = TRUE
    /\ UNCHANGED <<qVars, flagVars, lVars, mVars, cVars, oVars, gVars, nOutages, nRoutes,
                   idle, msgs, cur, joined, feip>>

\* NetworkRouteObserver::defaultRouteChanged: no interface gives
\* NO_GATEWAY, any other NEW_GATEWAY.
RouteChanged ==
    /\ nRoutes < MaxRoutes
    /\ nRoutes' = nRoutes + 1
    /\ \E m \in {"NO_GATEWAY", "NEW_GATEWAY"} : msgs' = Append(msgs, m)
    /\ UNCHANGED <<qVars, flagVars, lVars, mVars, cVars, oVars, gVars, up, nOutages,
                   idle, cur, joined, feip>>

-----------------------------------------------------------------------------
\* The constructor: every buffer released to the producer queue at
\* FEIP_BUFFER_SIZE, the flag clear and published, the threads started; no
\* channel yet, and the listener waiting for a socket.
Init ==
    /\ free = [i \in Buffers |-> i] /\ filled = <<>>
    /\ size = [b \in Buffers |-> BufferSize]
    /\ up = FALSE /\ idle = 0
    /\ lost = FALSE /\ counter = 0 /\ mvar = SrcState(FALSE, 0)
    /\ msgs = <<>> /\ cur = NoUri /\ joined = NoUri /\ feip = "none"
    /\ pcL = "idle" /\ lbuf = NoBuf /\ lmsg = SrcState(FALSE, 0)
    /\ pcM = "sleep" /\ mbuf = NoBuf /\ mmsg = SrcState(FALSE, 0)
    /\ pcC = "wait" /\ cbuf = NoBuf
    /\ offset = 0 /\ consumed = 0 /\ posted = 0
    /\ pcO = "idle" /\ uriO = NoUri /\ pcG = "wait" /\ gUri = NoUri
    /\ nPackets = 0 /\ nTicks = 0 /\ nOutages = 0 /\ nOpens = 0 /\ nRoutes = 0

Listener == ListenerLock \/ ListenerRecv \/ ListenerAcquire \/ ListenerQueue
            \/ ListenerReport \/ ListenerBuild \/ ListenerPublish
Consumer == ConsumerConsume \/ ConsumerSlice
Monitor == MonitorWake \/ MonitorCheck \/ MonitorBuild \/ MonitorPublish
           \/ MonitorAcquire \/ MonitorQueue
Control == OpenJoin \/ OpenSwap \/ OpenFinish
MessageLoop == MessageTake \/ MessageGatewayLock \/ MessageJoin \/ MessageSwap
Network == SourceStops \/ SourceResumes \/ RouteChanged

Next == Listener \/ Consumer \/ Monitor \/ OpenStart \/ Control \/ MessageLoop \/ Network

Spec == Init /\ [][Next]_vars

\* Every thread the handler starts is scheduled while it can run; a call
\* of open, once made, runs on.  The network and the caller's choice to
\* call open get no fairness: a multicast may stay silent.
FairSpec == Spec /\ WF_vars(Listener) /\ WF_vars(Consumer) /\ WF_vars(Monitor)
                 /\ WF_vars(Control) /\ WF_vars(MessageLoop)

-----------------------------------------------------------------------------
(* Properties.                                                            *)

Held == SelectSeq(<<lbuf, mbuf, cbuf>>, LAMBDA b : b /= NoBuf)
Everywhere == free \o filled \o Held
MaxCounter == MaxTicks

TypeOK ==
    /\ free \in Seq(Buffers) /\ filled \in Seq(Buffers)
    /\ size \in [Buffers -> PayloadSizes \cup {BufferSize}]
    /\ up \in BOOLEAN /\ idle \in 0..ReconfAfter + 1
    /\ lost \in BOOLEAN /\ counter \in 0..MaxCounter
    /\ {mvar, lmsg, mmsg} \subseteq [lost : BOOLEAN, n : 0..MaxCounter]
    /\ msgs \in Seq(Messages)
    /\ cur \in Uris \cup {NoUri} /\ {joined, uriO, gUri} \subseteq Groups
    /\ feip \in {"none", "open", "msg"}
    /\ pcL \in {"idle", "recv", "acquire", "queue", "report", "build", "publish"}
    /\ pcM \in {"sleep", "check", "build", "publish", "inject", "fill"}
    /\ pcC \in {"wait", "slice"}
    /\ pcO \in {"idle", "join", "swap", "finish"}
    /\ pcG \in {"wait", "gateway", "join", "swap"}
    /\ {lbuf, mbuf, cbuf} \subseteq Buffers \cup {NoBuf}
    /\ offset \in 0..ChunkSize - 1 /\ consumed \in Nat /\ posted \in Nat

\* Buffer ownership across BufferQueue and the three threads that borrow
\* from it (acquire in the listener and in injectNullBuffers, consume and
\* release in consumerLoop): every one of the FEIP_DEFAULT_BUFFER_COUNT
\* buffers is in exactly one place - the producer queue, the consumer
\* queue, or the hands of one thread.  A buffer in two places is written
\* by one thread while another reads it.
BuffersConserved ==
    /\ Len(Everywhere) = NBuf
    /\ {Everywhere[i] : i \in 1..Len(Everywhere)} = Buffers

\* consumerLoop's chunking is independent of the producer buffer boundary
\* (the offset carries over from one buffer to the next): the chunks posted
\* and the bytes pending in the current chunk account for every byte the
\* loop has taken in.
ChunkAccounting == posted * ChunkSize + offset = consumed

\* kBufferSrcLost0 publishes mBufferSourceLost and mSourceLostCounter: when
\* neither reportTSBufferQueued nor dataMonitorLoop is between changing the
\* flag and writing the MVar, the MVar holds the flag and the counter.
SrcLostPublished ==
    (pcL \notin {"build", "publish"} /\ pcM \notin {"build", "publish"})
        => mvar = SrcState(lost, counter)

\* A listener waiting in acquireBuffer for a free buffer eventually gets
\* one and queues its datagram: the consumer loop returns every buffer it
\* consumes to the producer queue, so injectNullBuffers, which draws from
\* the same FEIP_DEFAULT_BUFFER_COUNT buffers, cannot starve the listener.
ListenerGetsBuffer == (pcL = "acquire") ~> (pcL = "report")

\* A socket that open or the message loop (NO_MULTICAST, NEW_GATEWAY) has
\* joined is eventually installed by setup's lock_guard(mLock), so the
\* rejoin that dataMonitorLoop asks for after a silence, and a channel
\* change, complete.
RejoinCompletes ==
    /\ (pcO = "swap") ~> (pcO = "finish")
    /\ (pcG = "swap") ~> (pcG = "wait")

=============================================================================
