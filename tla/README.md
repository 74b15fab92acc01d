# TLA+ models of rdk-streamfs_fcc

This directory holds TLA+ models of the fast-channel-change (FCC) streaming
engine in `src/`. It also holds the TLC configurations that check those
models. Module names follow the C++ classes they model, and definitions keep
the source's names where possible. `PROJECT.json` maps every definition that
models code to the source lines it translates. It also lists every run, every
mutant and every hazard.

## The system

A live MPEG-TS stream goes through these stages:

1. **Listeners** (`3rdparty/rtp`, `udp`, `dvb`, `HttpDemuxerImpl`): a reader
   thread per source reads datagrams and hands payloads to the
   `MediaSourceHandler` (`acquireBuffer`, `pushBuffertoBQ`,
   `reportTSBufferQueued`).
   - The RTP listener (`RtpStreamListener`) also restores the sender's order.
   - It keeps a sorted reorder cache of at most `MAX_RTP_BUFFER_CACHE`
     datagrams.
   - It gives up on a missing sequence number when the cache is full.
   - On a jump larger than `MAX_SEQNUM_DIFF_FOR_DISCONTINUITY`, it flushes
     the cache.
2. **BufferQueue** (`include/BufferQueue.h`): a pair of blocking queues of
   buffer pointers, one of free buffers and one of filled buffers.
3. **MediaSourceHandler** has three threads:
   - The *consumer loop* slices filled buffers into chunks for the ring
     buffer and the stream processor.
   - The *data monitor loop* detects a lost source and injects null TS
     packets. It publishes the loss through a monitored variable.
   - The *message loop* serves open, close and channel-switch requests.
4. **StreamProcessor** fans chunks out to two consumers:
   - the **TimeShiftBufferConsumer** (TSB), which also uses the
     **BufferIndexer**;
   - the **PSIParser**.
5. **TimeShiftBufferConsumer** maps the player's position in the ring buffer
   to a time. It handles seek, pause and trick play:
   - a `CyclicEventTimer` moves the trick-play position;
   - a `TimeoutWatchdog` ends a pause after a timeout.
6. **BufferIndexer**: an index of sampled byte offsets and timestamps. It
   bisects between time and offset and keeps a one-entry memo.
7. **PSIParser**: a thread fed through a queue. It parses PAT, PMT and ECM
   sections and publishes the protection data when complete.
8. **Monitored variables (MVar)**: a registry of named values with watcher
   callbacks. It carries state between the parts above and to
   `FCCPlugin`'s FUSE files.
9. **FCCPlugin**: the FUSE front. Reads come from the ring buffer, and
   config files drive seek, trick play, player state and channel selection.
10. **NetworkRouteMonitor**: a singleton thread on a `NETLINK_ROUTE`
    socket that mirrors the kernel's default routes. When the interface of
    the best route changes, it calls the `NetworkRouteObserver` that
    `MediaSourceHandler` registered. The observer pushes `NO_GATEWAY` or
    `NEW_GATEWAY(interface)` to the message loop, which reopens every
    demuxer on that interface (or on `lo`).

These parts interact through:

- Buffer handoff: listener → queue → consumer loop.
- The source-lost flag, shared by the listener's `reportTSBufferQueued` and
  the data monitor.
- The trick-play timer and the watchdog callbacks into the TSB consumer.
- MVar notifications.
- Route changes: the kernel → the route poll thread → the observer → the
  message loop.

## Modules

| Module | Models | Status |
|---|---|---|
| `RtpReassembler` | `RtpStreamListener::processRtpPacket`, `processCachedBuffers`, `pushBuffertoBQ`, `diffSequenceNumber`, `readLoop` | done |
| `OrderedDelivery` | what the reorder stage promises its consumer; `RtpReassembler` implements it | done |
| `MCRtpReassembler` | constants for TLC | done |
| `TrickPlay` | `TrickPlayRequestHandler::writeConfig` (the `int16_t` speed); `TimeShiftBufferConsumer::setTrickPlaySpeed`, `updateTrickPlayPosition`, `setSeekTime`, `reset`, `onEndOfStream`, `onOpen`, `post`; `CyclicEventTimer` | done |
| `MCTrickPlay` | constants for TLC | done |
| `PauseWatchdog` | `TimeShiftBufferConsumer::setPlayerState`, `readData`, `release`, `setSeekTime`, `post` (pause compensation); `TimeoutWatchdog`; `TimeIntervalMonitor` (`mPauseTimeMonitor`); `FCCPlugin::read` and `release` of the stream file | done |
| `MCPauseWatchdog` | constants for TLC | done |
| `BufferIndex` | `BufferIndexer` (`registerBufferCount`, `clear`, `getByteOffsetFromTimeUs`, `getTimeUsFromByteOffset`, the front and size helpers); `setSeekTime`'s lookup and `getSeekTime` | done |
| `MCBufferIndex` | constants for TLC | done |
| `SourceHandler` | `MediaSourceHandler` (`acquireBuffer`, `pushBuffertoBQ`, `reportTSBufferQueued`, `consumerLoop`, `dataMonitorLoop`, `injectNullBuffers`, `messageLoop`, `open`); `BufferQueue`; `RtpStreamListener::readLoop` and `setup` | done |
| `MCSourceHandler` | constants for TLC | done |
| `PSIParser` | `PSIParser` (`post`, `threadLoop`, `processChunk`, `parseTsPacket`, `parsePat`, `parsePmt`, `parseEcm`, `onOpen`, `notifyConfigurationChanged`); `TSStream`; `HttpDemuxerImpl::write` and `open`; the switch sequence of `MediaSourceHandler::open` | done |
| `MCPSIParser` | constants for TLC | done |
| `RouteMonitor` | `NetworkRouteMonitor` (`start`, `routePollThread`, `sendRouteDumpRequest`, `getRouteInfo`, `dispatchDefaultRouteChange`, `stop`); `NetworkRouteObserver::defaultRouteChanged`; the gateway branches of `MediaSourceHandler::messageLoop` | done |
| `MCRouteMonitor` | constants for TLC | done |
| `NokiaHandler` | `NokiaSocketCbHandler` (`openLoop`, `parseSections`, `isCaDescriptorPresentInPMT`, `notifyStreamSwitched`); `MVar::operator=` on `kEcm0` with its watcher; composed into `PSIParser` | done |

### RtpReassembler

The listener thread reads one datagram under `mLock` and runs
`processRtpPacket` to completion. One datagram is therefore one atomic step
(`Receive`). A datagram is abstracted to its sequence number and its
payload's identity: the k-th datagram sent carries payload `k`.

The receiver state and its source:

- `expected` is `mNextSequenceNumber`, with -1 meaning "nothing yet".
- `cache` is `mBufferCache`, a sorted sequence.
- `out` is the sequence of payloads given to `pushBuffertoBQ`.
- `aborted` records that `abort()` was called.

The operators follow the code line by line:

- `Process` covers the three branches: in order, discontinuity flush, and
  insert or abort.
- `Insert` is the sorted-insertion loop.
- `FlushAll` is the discontinuity flush.
- `Drain` and `Pass` are the do-while and the for loop of
  `processCachedBuffers`, including the cache-full skip.
- `Push` is the wrap of the expected number.

The network is the environment:

- `Send` emits datagrams. It may also restart the sender's numbering by a
  jump in `JumpBy`, which starts a new *epoch*.
- `Lose` drops a datagram.
- `Receive` delivers datagram `k` only when:
  - `k` is less than `Lateness` positions behind the highest one delivered;
  - every datagram of earlier epochs is delivered or lost.
- `Duplicates` lets the network deliver a datagram again.
- With `ReorderInWindow`, a datagram more than `MaxDiff` from the receiver's
  expected number arrives only once every earlier datagram has arrived or
  been lost (`OutsideWindow`). Burst losses still cause discontinuities,
  but no straggler from inside the gap follows. This is the window that
  section 5 of the spec promises ordering within. The window is measured
  from the expected number, which stays on a lost datagram until the
  cache fills.
- `DropMalformed` is a datagram rejected by the header checks (lines
  180-193). It changes nothing.
- With `HeadFirst`, no datagram of an epoch arrives before the earliest
  unlost datagram of that epoch. The receiver then starts, and restarts after
  a discontinuity, at the head of the stream.

**Refinement** (`OrderedDelivery`). The abstract spec has two variables:
the set of payloads that arrived, and the output. In one step a payload
arrives, and any run of arrived payloads may be appended to the output.
Each payload in the run must be later in the sender's order than the last
one output. `RtpReassembler` maps `delivered` to the arrived set and `out`
to the output. `Receive` is one abstract step, even when `Drain` or
`FlushAll` push several payloads. `Send`, `Lose` and `DropMalformed` are
stuttering steps. `DeliversInOrder == Delivery!Spec` is the run's
PROPERTY. It replaces the earlier invariant that `out` is sorted, and also
says that nothing pushed is rewritten and nothing is pushed before it was
received.

**Bounds** (`MCRtpReassembler`): the sequence space is scaled from 2^16 to
32, `MAX_SEQNUM_DIFF` from 10 to 4, and the cache from 5 to 3. The sender
emits 9 datagrams starting at 29, so the numbering wraps. With 7, no
datagram got far enough ahead of the expected number to reach the
out-of-window case below, so the ordering claim held by the bound alone. These numbers keep
the code's ratios:

- The jump in `MCJumpBy` (16) exceeds `MaxDiff` plus the lag, so a restart
  is seen as a discontinuity. The code would see a real restart the same way:
  with 2^16 numbers, a random restart almost never lands within 10 of the
  expected number.
- `Lateness` 3 with losses fills the 3-entry cache, so the cache-full skip
  and the abort branch are reachable.

### TrickPlay

Five threads share the consumer's three mutexes and the timer's mutex:

- the timer thread (`CyclicEventTimer::threadLoop`), which calls
  `updateTrickPlayPosition` every `TRICK_PLAY_RATE_MS`;
- the trick-play config handler (`setTrickPlaySpeed`);
- the seek config handler (`setSeekTime`);
- the channel switch (`onEndOfStream` → `reset`, then `onOpen`);
- the stream (`post`, which adds index samples).

`owner[l]` is the thread holding lock `l`. Each lock acquisition is a step of
its own. The work a thread does while it holds its locks and takes no other
lock belongs to that step. Positions are counted in index samples: `seek` is
the seek position behind live, and `MaxSeekTime` is the index's span. The
time/offset conversion of the indexer is taken as exact here.

Correspondence:

- `TimerLockTrick`, `TimerGetSeek` and `TimerSetSeek` are the three lock
  steps of `updateTrickPlayPosition`. `NextSeek` is its arithmetic
  (rewind and fast forward, and the stop at either end).
- `WriterSetSpeed` and `WriterStartTimer` are `setTrickPlaySpeed` and
  `CyclicEventTimer::start`. The request arrives through
  `TrickPlayRequestHandler::writeConfig`, which stores `std::stoi`'s `int`
  in an `int16_t`: `Int16` is that conversion.
- `SeekLookup` and `SeekWrite` are `setSeekTime`.
- `SwitchBegin`, `SwitchLockTrick`, `SwitchStopTimer` and `SwitchOpen` are
  `onEndOfStream`, `reset` and `onOpen`.
- `Notify` sets `signal` only if the timer thread is blocked in `wait`: a
  `notify_one` reaches no one otherwise. `TimerWake(TRUE)` is a spurious
  wakeup.

Fairness (`FairSpec`): weak fairness for every step of a thread that is
running. Spurious wakeups and the issuing of new requests get none. The
scheduler runs every runnable thread, but nothing obliges a user to send a
request.

Bounds (`MCTrickPlay`): written speeds `{-2, 0, 1, 2, 65538}`, which cover
rewind, an invalid 0, normal speed, fast forward, and a value the
`int16_t` turns into 2; an index of 6 samples; up to 2 speed
requests, 1 seek and 1 switch, chosen per cfg. Two requests are enough to
start, stop and restart the timer. One switch is enough to race `reset`
against each step of the timer and the seeker.

### PauseWatchdog

The pause path has no common lock. The watchdog keeps its flags in atomics
and waits on a condition variable with a mutex that is local to its own
thread. The model's threads:

- the watchdog thread (`WdCheck` … `WdExpire`), one step per point where
  another thread can see a difference;
- `setPlayerState`: `PlayerPause`, and `PlayerPlay` → `PlayerStopWatchdog` →
  `PlayerPlaying`, so an expiry can fall between `stop()` and
  `mIsPaused = false`;
- `PluginRead` (`FCCPlugin::read`: `readData` when
  `MediaSourceHandler::isChannelActive`, else 0 with nothing changed) and
  `Release` (`FCCPlugin::release` → `TimeShiftBufferConsumer::release`),
  for the player's file handle;
- `SeekRequest`, which is `setSeekTime`;
- `PostRegister`, then `PostCompensate` → `PostIncHandle` → `PostMoveSeek`
  for `post`'s compensation while PAUSED. The compensation holds only
  `mParamMtx`, which `readData`, `release` and `setSeekTime` do not take. So
  the model cuts it where those threads can step in: after deltaBytes is
  computed from the handle (lines 78-87), after `incReadOffset` (line 89),
  and after the seek offset is moved and capped (lines 91-97). `SeekRequest`
  draws its offset from `0..IndexBytes`: the requested time is truncated to
  the index span and looked up, and that lookup is modelled and checked in
  `BufferIndex`. `target` is a history variable. It holds the player's
  position (`handle - seek`) as the seek, the reads and the compensation
  intend it.

Offsets are counted in chunks. `live` is the total posted, `handle` the
player's read offset (`NoHandle` when `mHandles` is empty) and `seek` is
`mSeekByteOffset`. The index samples every `Ratio` chunks and holds at most
`CapSamples` (the `boost::circular_buffer` capacity). `IndexBytes` is
`getIndexSizeInBytes`. `ub` records that `post` dereferenced
`mHandles.begin()` of an empty map, which is undefined behaviour. After
it, `post` may stop or extend the pause interval.

`mPauseTimeMonitor` is a `TimeIntervalMonitor`. It holds `timRunning`,
`timInit`, `timLast` and `timDelta` (`mRunning`, `mInitTime`, `mLastTime`,
`mDeltaTime`). `TimReset`, `TimStop` and `TimUpdate` are its three methods,
called inside the actions that call them in the code:
- `setSeekTime` resets it;
- `setPlayerState(PLAYING)` stops it;
- `post` while PAUSED stops the interval when the handle lagged live, and
  extends it otherwise or when not `mIsPaused`.

`PauseTime` is `getAccumulatedTimeInMicroSeconds`.
`high_resolution_clock::now()` is the variable `now`, advanced by `Tick`.
The model takes the clock as steady: `high_resolution_clock` need not be,
and a step back is not modelled. `resetAt` is a history variable: the clock at the
last reset.

The pause runs check safety only, so they assume no fairness.

Bounds (`MCPauseWatchdog`): `Ratio` 2 and `CapSamples` 2. The passing run
posts 5 chunks, so the index fills and the cap in the compensation is taken.
The run reaches 14,400,674 states in about 2 minutes.
It also allows 2 reads, 2 state requests, 1 seek, 1 release and 2 clock
ticks. Two ticks are enough for an interval to close at one reading and a
new one to open at a later reading. Three ticks and a larger index multiply
the states by 2 to 6 and bring the run near 5 minutes.

### BufferIndex

`buf` is `mBufInd`, a sequence of `[t, b]` samples: a timestamp and the
accumulated byte count.
- `PushBack` overwrites the oldest entry once the `BufCap` entries of the
  `boost::circular_buffer` are full.
- The index proper is the newest `IndexCap` (`mTsbSize`) entries:
  `IndexSize`, `FrontIndex` and `Front` are `getIndexSize`, `getFrontIndex`
  and `getFront`.
- `memoB` and `memoT` are the two one-entry memos.

Each public method holds `mIndexMutex` for its whole body, so each is one
step:
- `Register` is `post`'s `registerBufferCount`.
- `Clear` is `reset`'s `clear`.
- `SeekLimit` and `SeekLookup` are the two indexer calls of `setSeekTime`:
  the span, then the lookup. Other steps can fall between them.
- `ReportSeekTime` is `getSeekTime`.

The conversions are operators that return the return code, the output
value and the memo afterwards:
- `std::upper_bound` is `Search`, defined by what it returns on the
  sorted index: the first entry from the front whose key exceeds the
  target (a library algorithm, so no property checks its halving).
- The fractional index `i - x/d` truncates to `i - 1` (`InterpIndex`).
- The float product of `getTimeUsFromByteOffset` truncates to the floor,
  or to one less when the exact value is whole (`FloatTrunc`). The model
  allows both outcomes.

Units: bytes are counted in chunks and time in milliseconds. At that unit
`setSeekTime`'s ms/us conversions are exact. Chunks arrive 1 or 2 ms apart
(`Gaps`), so two channels can differ in bitrate.

Bounds: `Ratio` 2, a buffer of 3 samples of which the newest 2 are the
index, and 7 chunks. The index therefore wraps, so the tail entry exists
and the front differs from `buf[1]`. The run allows 2 seeks and 1 clear,
seek times up to 5 (beyond any span) and offsets up to 3 (beyond any index).

### SourceHandler

The module follows one buffer of `mFccBufferQueue` from the listener to the
consumer loop and back. It also follows the source-lost state and the
socket swaps of a channel change or a reconnect. Its threads:

- the listener: `RtpStreamListener::readLoop` takes `mLock` and blocks in
  `recvfrom`, then runs `pushBuffertoBQ`. That is `acquireBuffer`, the queue
  push and `reportTSBufferQueued`. `ListenerLock` … `ListenerPublish` are its
  steps, one step per point where another thread can see a difference.
- the consumer loop: `ConsumerConsume` takes a filled buffer.
  `ConsumerSlice` cuts it into `BUFFER_CHUNK_SIZE` chunks, carrying the
  offset into the next buffer, and releases the buffer. `Slice` is the
  arithmetic.
- the data monitor: `MonitorWake` is one `BUFFER_CHECK_PERIOD_MS`.
  `MonitorCheck`, `MonitorBuild` and `MonitorPublish` set the source-lost
  flag and publish it. `MonitorAcquire` and `MonitorQueue` are
  `injectNullBuffers`.
- the message loop: `MessageTake`, `MessageGatewayLock`, `MessageJoin` and
  `MessageSwap` serve `NO_MULTICAST`, `NO_GATEWAY` and `NEW_GATEWAY`.
- `open(uri)`: `OpenStart`, `OpenJoin`, `OpenSwap` and `OpenFinish`. The swap
  is `setup`'s `lock_guard(mLock)`, which `readLoop` holds across
  `recvfrom`.
- the network: `SourceStops`, `SourceResumes` and `RouteChanged`.

`mBufferSourceLost` is an atomic. The MVar `kBufferSrcLost0` is written under
the registry lock, but both writers build the value from the flag and
`mSourceLostCounter` earlier, outside any lock. The `build` and `publish`
steps of the listener and the monitor model that gap.

Fairness (`FairSpec`, used by `source_handler` and `rejoin_blocked`): weak
fairness for every thread the handler starts and for a call of `open` once
made. Each is a `std::thread` that loops until stopped, so once a step is
enabled it stays enabled until the thread takes it. The network gets none,
because a multicast may stay silent forever. Under it `ListenerGetsBuffer`
holds: a listener waiting in `acquireBuffer` gets a buffer. The consumer loop
releases every buffer it consumes, so `injectNullBuffers` cannot keep the
pool empty. `BufferQueue::queue` never waits, because the queues are
`FEIP_DEFAULT_BUFFER_COUNT` deep, as deep as there are buffers.

Bounds (`MCSourceHandler`): 2 buffers, so the queues empty and fill. Chunks
are 3 units and datagrams 1 or 2 units, so a chunk straddles buffers.
Null buffers are allocated at 4 units. The `source_handler` run uses one
channel, "A", and up to 2 opens: first `open` of "A", then "A" again
(returns -1) or "" (closes). With two channels the liveness check took 13
minutes. The violation runs use 2 channels. All runs allow one silence and
one route change. `LostAfter` 1 and `ReconfAfter` 2
periods let the monitor declare the source lost and then ask for a rejoin
within 3 ticks.

### PSIParser

Five actors:

- the http thread: `HttpWrite` is `HttpDemuxerImpl::write`, one unit at a
  time into the current producer buffer;
- the consumer loop: `Post` cuts a chunk and calls `PSIParser::post`;
- the parser thread: `ParserPop`, `ParserPacket`, `ParserCcError`,
  `ParserDone` and `ParserPublish` are `threadLoop` and `processChunk`;
- `open(uri)`: `OpenStart`, `OpenNotify`, `OpenDemuxer`, `OpenClearQueue`
  and `OpenReset`;
- the Nokia callback handler: `CallbackSend` is the front end sending a
  section message for the connected channel, and `CallbackRecv` is one
  iteration of `openLoop` (module `NokiaHandler`, below).

Data is counted in *units*. A TS packet is `PacketUnits` units and a chunk
is `ChunkUnits` units. A unit `[ch, n]` is the n-th unit of channel `ch`
since the channel was opened. Each channel's stream repeats `Layout[ch]`, a
sequence of packet kinds. On channel `B` an ECM section spans two packets,
`ecm1` and `ecm2`. A table's version is its channel, so two channels never
share a version. A packet made of units of two streams is *torn*. Whether
the header checks of `parsePat`, `parsePmt` or `parseEcm` accept its
garbage bytes is a nondeterministic input (`acc`). An intact packet always
passes.

`ParsePat`, `ParsePmt`, `ParseEcm`, `CollectEcm` and `ParseTsPacket` are
operators over the table record. Each returns the new tables, the
`ParserActionT` and whether `kCdm0` was set. `ParserPacket` applies one
packet under `mPidInfoMtx`. `NextPacket` is `TSStream::getNextPacket`,
including the branch where a packet straddles two chunks of the window.

Publication takes two steps. `ParserPacket` tests the atomic
`mPsiParserRunning` on a `NEW_` result. `ParserPublish` then builds `kDrm0`
from `mChannel` and the tables, without `mStreamMtx` or `mPidInfoMtx`, and
clears the flag. `running` is set by the empty `kEcm0` that
`notifyStreamSwitched` writes at every `open` (`OpenNotify`), and cleared
when `openLoop` writes a non-empty ECM. Both go through the watcher
`notifyConfigurationChanged`. The ghost counter `pubs` counts the parser's
writes of `kDrm0` since the last empty `kEcm0`.

Bounds (`MCPSIParser`): two channels. `A` is clear (PAT, PMT, AV) and `B`
is scrambled (PAT, PMT, ECM over two packets). A packet is 2 units, a
chunk 3 units, so packets straddle chunks. A producer buffer is 4 units,
so chunks straddle buffers and a buffer carries the previous channel's
units past a switch. Each channel streams up to 10 units, enough to reach
a complete PAT, PMT and ECM on `B` and to tear a packet across a switch.
There are up to 2 opens, which covers a switch between the two channels
while the front end's messages for the first are still queued. With the
Nokia handler composed, 3 opens take the run past ten minutes; the run
with 2 opens has about 5.8 million states and takes about 3 minutes with coverage.

### NokiaHandler

`NokiaSocketCbHandler` receives the PAT, PMT and ECM of the tuned channel
from the Nokia front end over a UDP socket. Three actors:

- the socket thread, `openLoop`: `Recv` handles one datagram under
  `mStreamStatusMtx`;
- `notifyStreamSwitched(uri)`, called by `open` under the same mutex:
  `NotifyStreamSwitched` restarts the message order and empties the three
  sections;
- the front end: `FeipSend` sends one PAT/PMT message, then one ECM
  message. On a clear channel that is either a bare 4-byte dummy or an
  `ecm0`, an ECM message whose section length is 0. `parseSections` empties
  `kEcm0` for an `ecm0` (lines 296-300), so both forms are sent.

A message is `[ch, kind]`: the channel it was sent for and its layout. A
section held in an MVar is `[ch, ok]`: the channel of its bytes, and
whether they are the section the MVar is named for. `NoTable` is the empty
vector. The messages carry no type. `openLoop` takes the first one after a
switch for the PAT/PMT and the next for the ECM, and the socket is never
drained. So a message of the previous channel can be read as the current
channel's PAT/PMT. `ParseSections` follows every branch of
`parseSections` for every layout read as either type. An ECM layout read as
PAT/PMT takes its PMT length from bytes past the end of the datagram,
left there by an earlier message. That uninitialised read is the input
`junk`. `WriteEcm` is `MVar::operator=` on `kEcm0`: the watcher
`PSIParser::notifyConfigurationChanged` runs inside the assignment and
sets `mPsiParserRunning` to whether the value is empty.

`NokiaHandler` is checked inside the `psi_parser` run, where it is
instantiated with the front end tuned to the channel of the http thread.

The run checks safety only. `FairSpec` states the scheduling the threads
would have. A liveness property such as "`kDrm0` is eventually published
after an open" does not hold in the bounded model, because the stream
stops after `MaxUnits` units.

### RouteMonitor

`RouteMonitor` models the route poll thread, the observer it calls, the
message loop that takes the observer's messages, and `stop()`. The kernel
is the environment:

- `up` and `kroutes` are the interfaces that are up and the kernel's
  default routes. A route is an interface and a metric; the gateway address
  itself is not kept.
- `AddDefault` and `DelDefault` send `RTM_NEWROUTE` or `RTM_DELROUTE` with a
  gateway.
- `LinkDown` flushes the interface's default routes without a message for
  each. It sends `RTM_DELROUTE` for the interface's prefix route, which has
  no gateway and no `RTA_PRIORITY`, so `getRouteInfo` reads metric 0.
  This is the case the metric-0 rule of the delete branch is for.
  `LinkUp` sends `RTM_NEWROUTE` for the prefix route, which the code
  ignores because it has no gateway.
- `Notify` queues the notification on the socket while it is bound. A full
  socket may instead drop it and set `overrun`, at most `MaxOverruns` times.
  The next `recv` then fails with `ENOBUFS`, before the queued datagrams.
- A dump request is answered with one datagram: `RTM_NEWROUTE` for every
  default route, by metric, with ties in `IfaceOrder`.

The thread's variables follow the code: `routes` is `mDefaultRoutes`, `cur`
is `mRoute.interface` (`NoIface` for the empty interface), `exitReq` is
`mRequestExit`, and `pc` is where `routePollThread` is. `Start` is socket
and bind, either of which may fail. `SendDump` is the `sendRouteDumpRequest`
at the top of the do-while, and `Recv` is one turn of the inner while.
`ProcessDatagram` folds `ApplyMsg` (the `switch`) over the messages of a
datagram. `InsertRoute` is `emplace_back` followed by `std::sort` on the
metric. libstdc++ sorts 16 elements or fewer by insertion sort, which is
stable, so a new route goes after every route with a metric not above its
own. `RemoveRoutes` is the `remove_if`. `Dispatch` tells the observer when
the front route's interface differs from `mRoute`'s. `ObserverPush` is the
observer's `pushMessage`, and `MessageLoopTake` is `waitForMessage` with the
reopen (`gw`). `Stop` sets `mRequestExit` and sends the wake-up dump while the
socket is bound; the send may fail. `Join` returns once the thread has
returned. The observer is registered before `start()` creates the thread,
so `Init` has one observer and the kernel in any state.

The poll thread, the message loop and the thread in `stop()` are
`std::thread`s: each keeps running while it can, so each has weak fairness.
The poll thread's fairness is written as `WF_vars(PollThread)` expanded,
with `PollEnabled` as its enabling condition, because TLC's evaluation of
`ENABLED` on the fold is slow. The kernel and the unload of the plugin have
no fairness.

Bounds (`MCRouteMonitor`): two interfaces, metrics 1 and 2, three kernel
changes, one overrun, and dump sends that may fail. That is enough for a
delete lost in an overrun followed by a re-dump, a link going down with two
routes on it, a tie on the metric, and `stop()` racing each of these.
2,066,748 distinct states in about a minute.

## Runs

| Run | Cfg | Expect | What it shows |
|---|---|---|---|
| `rtp_reorder` | `RtpReorder.cfg` | pass (1,027,304 states) | With `HeadFirst`, losses, lateness up to 3 positions, a wrap and a sender restart, the listener never reaches `abort()` (`NeverAborts`). It implements `OrderedDelivery` (`DeliversInOrder`): the output only grows, by payloads that were received, in the sender's order and never twice, and once every datagram is in, nothing is left in the cache (`NothingStranded`). |
| `tsb_trickplay` | `TrickPlay.cfg` | pass (149,602 states) | Two trick-play requests, a seek and a channel switch race the timer thread. Whenever no thread is inside a `mTrickPlaySpeedMtx` section, the trick-play file shows `mTrickPlaySpeed` (`TrickFileMatchesSpeed`). |
| `tsb_lock_order` | `TrickPlayLockOrder.cfg` | violation | `updateTrickPlayPosition` holds `mTrickPlaySpeedMtx` and waits for `mParamMtx`, while `reset` holds `mParamMtx` and waits for `mTrickPlaySpeedMtx`: a deadlock (`NoLockWaitCycle`). |
| `tsb_lost_wakeup` | `TrickPlayLostWakeup.cfg` | violation | The timer's callback returns `true` (stop) after the writer's `start()` found `mStop` false. The timer then waits with trick play still on, so speed never returns to 1 (`TrickPlayEventuallyEnds`). |
| `pause_stability` | `PauseStable.cfg` | pass (14,400,674 states, about 2 min) | Pause, resume, reads, a seek and a release race the watchdog, the arriving chunks with the three-step compensation, and the clock. Throughout, the pause time that `getSeekTime` adds never exceeds the time since the monitor's last reset (`PauseTimeWithinElapsed`). |
| `index_conversions` | `IndexConversions.cfg` | pass (666,581 states) | While the index fills, wraps and is cleared by a channel switch, two things hold. A computed seek offset points at the newest sample no later than the requested time (`SeekOffsetCorrect`). A computed seek time lies between the straddling samples, float truncation included (`TimeInterpolated`). |
| `index_stale_memo` | `IndexStaleMemo.cfg` | violation | `clear()` keeps `mLastByteOffsetFromTimeUs`. TLC's trace: a seek to time 1 memoizes offset 2. A second `setSeekTime` reads the span, then a channel switch clears the index and one chunk arrives. The lookup then answers offset 2 from the memo, while the new index spans 0 bytes (`OffsetWithinIndex`). A seek to the same time after the new index has filled hits the memo just the same. |
| `source_handler` | `SourceHandler.cfg` | pass | The listener, the consumer loop, the data monitor with its null-buffer injection, the message loop and two opens share the buffer queue. Every buffer is always in exactly one place (`BuffersConserved`). The chunks posted plus the pending offset account for every unit consumed, across buffer boundaries (`ChunkAccounting`). Under fair scheduling a listener waiting for a buffer gets one (`ListenerGetsBuffer`). 1,671,557 distinct states, 2 to 3 minutes. |
| `source_lost_race` | `SourceLostRace.cfg` | violation | The monitor builds "lost" from the flag, then the listener clears the flag and publishes "not lost". The monitor's older value is written last, so `kBufferSrcLost0` says the source is lost while buffers flow (`SrcLostPublished`). |
| `rejoin_blocked` | `RejoinBlocked.cfg` | violation | The multicast falls silent while `readLoop` is in `recvfrom` holding `mLock`. The rejoin that the monitor's `NO_MULTICAST` asks for then waits for `mLock` for as long as the silence lasts (`RejoinCompletes`). |
| `psi_parser` | `PSIParser.cfg` | pass (5,832,419 states) | Two channel switches between a clear and a scrambled channel, with torn packets, dropped chunks and the Nokia handler's messages racing the parser. `getNextPacket` reads the window exactly as its reference over the unread units does (`NextPacketReadsWindow`). |
| `route_monitor` | `RouteMonitor.cfg` | pass (2,066,748 states, about 1 min) | Routes are added and deleted, a link goes down and up, and a notification is lost to an overrun. Whenever the poll thread has read everything, `mDefaultRoutes` holds every default route of the kernel (`KernelRoutesKnown`): the dump after a failed `recv` recovers a lost add, and the metric-0 rule removes only what the link flush removed. When `stop()`'s wake-up request was sent, the join completes, whatever the thread was doing (`StopJoins`). |

Each property of a passing run has a mutant in `PROJECT.json`, a plausible
bug that TLC catches:

- expected number not wrapped → `TypeOK`;
- no cache-full skip → `NeverAborts`;
- sequencing disabled → `DeliversInOrder`;
- no drain after a push → `NothingStranded`;
- a speed of 0 accepted → `TypeOK` (TrickPlay);
- the trick-play file not reset when the timer stops → `TrickFileMatchesSpeed`;
- an index without its capacity → `TypeOK` (PauseWatchdog);
- a pause interval reopened without moving `mInitTime` → `PauseTimeWithinElapsed`;
- a circular buffer that grows → `TypeOK` (BufferIndex);
- the fractional index rounded instead of truncated → `SeekOffsetCorrect`;
- time interpolated from the later sample → `TimeInterpolated`.
- chunk offset not wrapped at `BUFFER_CHUNK_SIZE` → `TypeOK` (SourceHandler);
- a buffer released twice → `BuffersConserved`;
- a consumed buffer not handed back → `ListenerGetsBuffer`;
- a copy that ignores the units already in the chunk → `ChunkAccounting`;
- `insertChunk` without its size check → `TypeOK` (PSIParser);
- a straddling `getNextPacket` that keeps the chunk it finished → `NextPacketReadsWindow`;
- `getRouteInfo` without its `RTA_PRIORITY` case → `TypeOK` (RouteMonitor);
- a failed `recv` retried without a new dump request → `KernelRoutesKnown`;
- the inner loop without `&& !mRequestExit` → `StopJoins`.

### Windows described but not kept as runs

The project keeps one violation run per defect. TLC also reached the
following states while these modules were built. They are listed as
hazards in `PROJECT.json`:

- **Seek during a channel switch** (`TrickPlay`). `setSeekTime` computes its
  target under `mSeekMtx` from the old index (`SeekLookup`). Then `reset`
  clears the index without that mutex (`SwitchLockTrick`, `SwitchStopTimer`),
  and `SeekWrite` stores the old target. The seek now points beyond the
  empty index.
- **Pause never detected** (`PauseWatchdog`). `setPlayerState(PAUSED)`
  starts the watchdog only if the index spans bytes, and `post` only when
  the index size becomes 1. A pause while the index holds exactly one
  sample starts it nowhere. A `start()` notify that falls between the
  watchdog's predicate test and its block is also lost, because the mutex
  is local to the waiting thread.

- **Late datagram cached** (`RtpReassembler`, `CacheHoldsOnlyPending`).
  Without `HeadFirst`, a datagram that arrives behind the expected number,
  but within `MaxDiff` of it, is cached instead of dropped. TLC's trace:
  datagram 2 arrives first, so expected becomes 31. Datagram 1 (seq 29)
  arrives next and is cached. The stale entry stays until a discontinuity
  flushes it downstream out of order.
- **Duplicate pushed twice** (`RtpReassembler`, `DeliversInOrder`). The
  same case, reached through a duplicated datagram, with `HeadFirst` kept.
  With `Duplicates = TRUE` in `RtpReorder.cfg`, TLC breaks the refinement
  in 6 states. Datagram 1 (seq 29) is pushed, so expected becomes 30. Its
  duplicate arrives, 1 behind, and is cached. The sender restarts, and
  datagram 2 (seq 14) is a discontinuity. `FlushAll` pushes the cached
  duplicate, so the output is `<<1, 1, 2>>`. The same run also breaks
  `NothingStranded`: the duplicate is stranded in the cache.
- **Straggler after a gap** (`RtpReassembler`, `DeliversInOrder`). With
  `ReorderInWindow = FALSE` and 9 datagrams, TLC breaks the refinement
  without duplicates and with `HeadFirst`. Datagram 1 is pushed, and
  datagram 3 is cached while expected stays at 30 for datagram 2. Datagram
  7 (seq 3) is 5 ahead, beyond `MaxDiff`, so it is a discontinuity and
  expected becomes 4. Datagrams 5 and 6 (seq 1, 2) then arrive behind it
  and are cached. A later drain pushes them after 9, so the output is
  `<<1, 3, 7, 9, 5, 6>>`. This breaks the spec's "subsequence of the
  originals" (section 8). In the code, a reorder of more than 10 positions
  behind a lost datagram is enough.
- **Read counted twice by the pause compensation** (`PauseWatchdog`,
  `SeekPositionKept`, 14 states under `PauseStable.cfg`). While
  `mIsPaused`, `post` reads the handle's offset and computes deltaBytes
  (`PostCompensate`). The player's `readData` then reads one chunk under
  `mSeekMtx`. `incReadOffset` (`PostIncHandle`) adds the lag measured before
  that read. The handle ends one past live, and the player skips the next
  chunk. A `setSeekTime` in the same window has the same effect: the handle
  it set to live gets deltaBytes added, or the offset it stored is moved by
  deltaBytes. Either way the seek lands away from where the user asked.
- **Pause flag after play** (`PauseWatchdog`, `PausedFlagOnlyWhilePaused`).
  The watchdog thread passes its `!mStop` test. Then
  `setPlayerState(PLAYING)` stops it and clears `mIsPaused`, and the expiry
  sets `mIsPaused` while PLAYING (11 states under `PauseStable.cfg`). At
  the next pause, `post` compensates before the player has stopped reading.
- **Pause interval reopened while playing** (`PauseWatchdog`,
  `PauseIntervalOnlyWhilePaused`, 6 states under `PauseStable.cfg`).
  `post` sees PAUSED (`PostRegister`). Then `setPlayerState(PLAYING)` stops
  `mPauseTimeMonitor` and sets PLAYING. Then `PostCompensate` calls
  `updateTimeInterval`, which opens a new interval while PLAYING. At the
  next pause, the next update closes that interval, so the whole playing
  period is counted as pause time. `getSeekTime` adds that time to the
  seek position.
- **Second publication on one channel** (`PSIParser`,
  `PublishOncePerSwitch`, 43 states under `PSIParser.cfg`). After a switch
  to the clear channel, the parser publishes `kDrm0` on `NEW_PAT_PMT` and
  clears `mPsiParserRunning`. The front end's ECM message for that channel
  has section length 0. `parseSections` empties `kEcm0` for it
  (`NokiaSocketCbHandler.cpp:299`), and the watcher sets
  `mPsiParserRunning` again. The parser's next `NEW_` result then writes
  `kDrm0` a second time. The spec (section 4.5) says the write happens
  "only once per channel", and that the flag is re-armed by the ECM MVar
  going empty on a channel switch. Here it goes empty without a switch.
- **Protection data of no channel** (`PSIParser`, `DrmTablesOfChannel`,
  22 steps through the parser alone, 12 through the Nokia handler's stale
  message below). The parser reaches `NEW_PAT_PMT` on the clear channel and
  passes its `mPsiParserRunning` test. A switch then runs
  `OpenClearQueue` and `OpenReset` before `ParserPublish`. `kDrm0` is
  written with the channel of the old stream and the PAT and PMT that
  `onOpen` has just emptied. Nothing publishes again, because the flag is
  cleared by that write. The parser reads the tables outside
  `mPidInfoMtx` (`PSIParser.cpp:156`).
- **Spliced ECM** (`PSIParser`, `EcmTableIntact`, 33 steps). On the
  scrambled channel the parser collects the first packet of an ECM
  section. `open(A)` switches the http thread while a producer buffer is
  half full, so the next buffer holds `B`'s unit 6 followed by `A`'s
  unit 0. `onOpen` does not reset the `TSStream` window, and the torn
  packet's header passes. It completes the section as `NEW_ECMT`, and
  `kDrm0` carries an ECM table made of two channels' bytes.
- **`GOT_ECM` unreachable** (`PSIParser`). The spec (line 195) moves to
  `GOT_ECM` when an ECM is accepted after `NEEDS_ECM`. `parseTsPacket`
  (`PSIParser.cpp:306`) moves there only from `NEEDS_PMT`. The ECM PID is
  taken from a processed PMT, and that same packet moves the state out of
  `NEEDS_PMT`. An invariant saying that `pstate` never equals `GOT_ECM`
  held over the whole `psi_parser` state space.

- **Previous channel's sections** (`PSIParser`, `NokiaSectionsOfChannel`).
  TLC's shortest trace has 11 states. `B`'s PAT/PMT is still queued when
  `open("")` switches to no channel, and `openLoop` stores it in `kPat0`
  and `kPmt0`. The channel-to-channel case takes 13 steps:
  1. `open(A)` runs to its end, and the front end sends `A`'s PAT/PMT.
  2. `open(B)` runs `notifyStreamSwitched` before `openLoop` reads that
     message. `openLoop` then takes it as `B`'s PAT/PMT, so `kPat0` and
     `kPmt0` hold `A`'s sections.
  3. The front end sends `B`'s PAT/PMT, and `openLoop` takes it for the
     ECM. `kEcm0` gets `B`'s PAT bytes, and `kDrm0` is published for `B`
     with `A`'s PAT and PMT.
  4. `B`'s real ECM arrives after the ECM slot is taken, so it is dropped.

- **Player file released, then a chunk** (`PauseWatchdog`,
  `NoHandleDerefWhenEmpty`). After an expiry the player closes its file
  (`Release`, which empties `mHandles`). While `mIsPaused` is still set, the
  next chunk makes `post` dereference `mHandles.begin()` of the empty map
  (`TimeShiftBufferConsumer.cpp:79`). TLC finds it in a few steps of one
  thread, so a unit test reaches it as well.
- **Stale default route after an overrun** (`RouteMonitor`,
  `GatewayFollowsKernel`, 9 states). The thread dumps and learns the eth0
  route, and the observer announces eth0. The kernel deletes that route,
  but the socket is full and the `RTM_DELROUTE` is dropped. The failed
  `recv` makes the thread send a new dump, which is empty. The dump only
  adds routes, and nothing clears `mDefaultRoutes`, so the deleted route
  stays in front. The thread is now synced, yet the message loop keeps the
  sources on eth0 while the kernel has no default route. The same re-dump
  also appends a second copy of every route still present.
- **Deleted metric-0 route** (`RouteMonitor`, `KernelRoutesKnown` with
  `Metrics = {0, 1}`, 6 states). The kernel starts with eth0 routes of
  metric 0 and 1, and the dump reports both. Deleting the metric-0 route
  sends `RTM_DELROUTE` with metric 0, and the rule meant for a link going
  down removes both routes. The monitor then reports no gateway while the
  kernel routes through eth0 at metric 1.
- **Join after a failed wake-up** (`RouteMonitor`). When `stop()`'s
  `sendRouteDumpRequest` fails while the thread waits in `recv`, `pcStop`
  stays `joining` for as long as the kernel is quiet. This is the
  "Potential deadlock" that `stop()` logs. `StopJoins` therefore only
  claims the join for a sent request.

## Plan

The work is ordered by how much each behaviour matters. Each module is built
with its own MC module and cfgs.

1. **RTP reorder** (done).
2. **TSB trick play and locking** (done: `TrickPlay`, `PauseWatchdog`): `TimeShiftBufferConsumer` with its
   `CyclicEventTimer` and `TimeoutWatchdog` threads.
   - The threads are the timer thread, the config-handler thread
     (`setTrickPlaySpeed`, `setSeekTime`, `setPlayerState`), and the
     channel-switch thread (`reset`).
   - State: the mutexes `mParamMtx`, `mTrickPlaySpeedMtx` and `mSeekMtx`,
     and the timer's `mStop` and condition variable.
   - Questions to check:
     - lock order: `updateTrickPlayPosition` takes the trick-play mutex and
       then the param mutex, while `reset` takes them the other way round;
     - the timer's lost wakeup: a `start()` racing the callback's final
       `true`;
     - `mIsPaused` against the watchdog's `clear` and `stop`;
     - `post` on an empty handle map while paused.
3. **BufferIndexer** (done: `BufferIndex`): the bisection and interpolation as RECURSIVE
   operators, checked against a reference over small indexes. Also the memo
   against `clear()` after a channel switch, with an offset-within-index
   property.
4. **MediaSourceHandler and BufferQueue** (done: `SourceHandler`): the
   listener and the data monitor racing on `mBufferSourceLost` and its MVar,
   the consumer-loop chunking, the null-buffer injection, and the socket
   swap under `mLock`.
5. **PSIParser** (done: `PSIParser`): the PAT→PMT→ECM state machine, the
   queue thread, `clearQueue` and `onOpen` on a channel change, and the
   `TSStream` window.
6. An abstract *ordered delivery* specification that `RtpReassembler`
   refines, with the abstract spec as a PROPERTY (done: `OrderedDelivery`,
   checked as `DeliversInOrder`).

7. **Network route monitor** (done: `RouteMonitor`): the netlink poll
   thread against a kernel that loses notifications, the observer, and
   `stop()`.

## Not modelled

- The UDP and DVB readers, the socket server, JSON and tracing: I/O and
  formatting, with no control state beyond a socket.
- The route monitor's composition with `SourceHandler`. The two meet only
  in the message loop's `NO_GATEWAY` or `NEW_GATEWAY` handling, which
  `RouteMonitor` models as `MessageLoopTake`. `SourceHandler`'s
  `RouteChanged` pushes either message at any time. An earlier composition
  of the route list with `SourceHandler` took the `source_handler` run from
  6.4 million to between 13 and 39 million states.
- The expired-observer branch of `dispatchDefaultRouteChange`. It spins
  under `mMutex` without advancing the iterator. The plugin keeps its one
  observer until unload, so it is listed as a hazard only.
- The config handlers other than trick play (`SeekRequestHandler`,
  `PlayerStateRequestHandler`, `ChannelSelector` and the read-only ones)
  and `FCCPlugin`'s FUSE dispatch. Each handler parses a value and calls
  an operation modelled here (`setSeekTime`, `setPlayerState`, `open`).
- The ring buffer pool: it lives in the external streamfs library.
- The byte-level header parsing in `processRtpPacket`. It appears only as
  the malformed-drop step. The `n <= 0` length underflow at line 119 is
  listed as a hazard in `PROJECT.json`.
- The HTTP reader's socket and HTTP parsing: `HttpWrite` models only what
  `write` does with the bytes it is given. `HttpCBHandler::notifyStreamSwitched`
  is empty, so in HTTP mode nothing sets `mPsiParserRunning`. The model
  composes the Nokia handler instead, and lists the HTTP case as a
  hazard.
- `MonitoredVariable`'s watcher registry. Its expired-watcher loop
  (`MonitoredVariable.h:131`) spins without advancing and is listed as a
  hazard. The properties here need only the value an MVar holds.
