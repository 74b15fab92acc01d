---------------------------- MODULE PauseWatchdog ----------------------------
(***************************************************************************)
(* The pause path of TimeShiftBufferConsumer with its TimeoutWatchdog     *)
(* (mBufferReadWatchdog).  While the player is PAUSED it still reads to   *)
(* fill its pipeline; every readData restarts the watchdog.  When no read *)
(* comes for PAUSE_POST_READ_RATE_TIMEOUT_MS, the watchdog thread calls   *)
(* the callback with expired = true, which sets mIsPaused; from then on    *)
(* post moves the player's handle offset and mSeekByteOffset forward with *)
(* every arriving chunk, so the paused position stays put in the buffer.  *)
(*                                                                         *)
(* Threads: the watchdog thread, the player-state handler (setPlayerState),*)
(* the reader (readData, release of the stream file handle), the seek     *)
(* handler (setSeekTime) and the stream (post).  None of these paths take  *)
(* a common lock: TimeoutWatchdog keeps its flags in atomics and waits on  *)
(* a condition variable with a mutex local to the waiting thread.         *)
(*                                                                         *)
(* Offsets are counted in chunks (BUFFER_CHUNK_SIZE bytes).  The index    *)
(* takes one sample every Ratio chunks (BUFFER_SAMPLING_RATIO).           *)
(*                                                                         *)
(* mPauseTimeMonitor (TimeIntervalMonitor) accumulates the time the player *)
(* stays paused before the watchdog expires; getSeekTime adds it to the   *)
(* seek position.  Its clock, high_resolution_clock::now(), is the        *)
(* variable now, advanced by Tick; the model takes the clock as steady.   *)
(***************************************************************************)
EXTENDS Integers

CONSTANTS
    Ratio,          \* BUFFER_SAMPLING_RATIO
    CapSamples,     \* index samples the buffer holds (mTsbSize)
    MaxChunks,      \* bound: chunks posted
    MaxReads,       \* bound: readData calls
    MaxStateReqs,   \* bound: setPlayerState calls
    MaxSeeks,       \* bound: setSeekTime calls
    MaxReleases,    \* bound: releases of the stream file handle
    MaxTime         \* bound: clock ticks

ASSUME /\ Ratio \in Nat \ {0} /\ CapSamples \in Nat \ {0}
       /\ {MaxChunks, MaxReads, MaxStateReqs, MaxSeeks, MaxReleases, MaxTime} \subseteq Nat

NoHandle == -1

VARIABLES
    playerState,  \* mPlayerState
    isPaused,     \* mIsPaused
    wdStop,       \* TimeoutWatchdog::mStop
    wdState,      \* TimeoutWatchdog::mState
    wdNotified,   \* TimeoutWatchdog::mNotified
    wdSignal,     \* a notify_one reached the watchdog thread while it was blocked
    pcD, status,  \* watchdog thread: pc and the result of wait_for
    live,         \* chunks posted (getTotalBufferByteCount)
    count,        \* BufferIndexer::mBufferCount
    samples,      \* index samples
    handle,       \* the player's read offset, or NoHandle (mHandles)
    seek,         \* mSeekByteOffset
    pcP,          \* the stream thread inside post
    pcPl,         \* the player-state handler inside setPlayerState(PLAYING)
    ub,           \* post dereferenced mHandles.begin() of an empty map
    nReads, nReqs, nSeeks, nReleases,
    now,          \* high_resolution_clock::now()
    timRunning,   \* mPauseTimeMonitor.mRunning
    timInit,      \* mPauseTimeMonitor.mInitTime
    timLast,      \* mPauseTimeMonitor.mLastTime
    timDelta,     \* mPauseTimeMonitor.mDeltaTime
    resetAt,      \* history: the clock at the last reset of the monitor
    pDelta,       \* post's deltaBytes, between the compensation's steps
    target        \* history: the player's position in the buffer that the
                  \* seek, the reads and the compensation mean it to have

wd     == <<wdStop, wdState, wdNotified, wdSignal>>
data   == <<live, count, samples, handle, seek>>
budget == <<nReads, nReqs, nSeeks, nReleases>>
tim    == <<timRunning, timInit, timLast, timDelta, resetAt>>
pos    == <<pDelta, target>>
vars   == <<playerState, isPaused, wd, pcD, status, data, pcP, pcPl, ub, budget, now, tim,
           pos>>

\* getIndexSizeInBytes: the chunks between the first and the last sample.
IndexBytes == IF samples = 0 THEN 0 ELSE (samples - 1) * Ratio

\* notify_one on mCvStart wakes the watchdog thread only if it is blocked.
NotifyWd == wdSignal' = (pcD = "blocked")

\* TimeoutWatchdog::start.
Start ==
    IF wdStop THEN /\ wdStop' = FALSE /\ wdState' = "RUNNING" /\ NotifyWd
                   /\ UNCHANGED wdNotified
              ELSE UNCHANGED wd

\* TimeoutWatchdog::clear, then start when the player is PAUSED, as
\* setSeekTime does.  clear ends with restart (mNotified and a notify).
ClearThenStart(paused) ==
    /\ wdNotified' = TRUE /\ NotifyWd
    /\ IF paused THEN wdStop' = FALSE /\ wdState' = "RUNNING"
                 ELSE wdStop' = TRUE /\ wdState' = "CLEAR"

\* TimeIntervalMonitor::reset: an empty interval and nothing accumulated.
TimReset ==
    /\ timRunning' = FALSE /\ timInit' = now /\ timLast' = now /\ timDelta' = 0
    /\ resetAt' = now

\* TimeIntervalMonitor::stopTimeInterval.
TimStop == timRunning' = FALSE /\ UNCHANGED <<timInit, timLast, timDelta, resetAt>>

\* Mutant of TimUpdate: a new interval is opened without moving mInitTime.
TimUpdateKeepInit ==
    IF ~timRunning
    THEN /\ timDelta' = timDelta + (timLast - timInit) /\ timLast' = now
         /\ timRunning' = TRUE /\ UNCHANGED <<timInit, resetAt>>
    ELSE timLast' = now /\ UNCHANGED <<timRunning, timInit, timDelta, resetAt>>

\* TimeIntervalMonitor::updateTimeInterval: a stopped monitor adds the
\* interval it closed and opens a new one at now; a running one extends
\* the open interval to now.
TimUpdate ==
    IF ~timRunning
    THEN /\ timDelta' = timDelta + (timLast - timInit) /\ timInit' = now
         /\ timLast' = now /\ timRunning' = TRUE /\ UNCHANGED resetAt
    ELSE timLast' = now /\ UNCHANGED <<timRunning, timInit, timDelta, resetAt>>

\* TimeIntervalMonitor::getAccumulatedTimeInMicroSeconds.
PauseTime == timDelta + (timLast - timInit)

\* The clock moves forward.
Tick ==
    /\ now < MaxTime /\ now' = now + 1
    /\ UNCHANGED <<playerState, isPaused, wd, pcD, status, data, pcP, pcPl, ub, budget, tim, pos>>

-----------------------------------------------------------------------------
(* The watchdog thread: TimeoutWatchdog::threadLoop.                      *)

\* mCvStart.wait(lock, pred): test !mStop; if false, go to block.
WdCheck ==
    /\ pcD = "check"
    /\ pcD' = IF ~wdStop THEN "loop" ELSE "toBlock"
    /\ UNCHANGED <<playerState, isPaused, wd, status, data, pcP, pcPl, ub, budget>>
    /\ UNCHANGED <<now, tim, pos>>

\* The thread blocks; a notify between the test and this step is lost,
\* since the mutex is local to the thread.
WdBlock ==
    /\ pcD = "toBlock" /\ pcD' = "blocked" /\ wdSignal' = FALSE
    /\ UNCHANGED <<playerState, isPaused, wdStop, wdState, wdNotified, status, data,
                   pcP, pcPl, ub, budget>>
    /\ UNCHANGED <<now, tim, pos>>

\* Woken by a notify (or spuriously): test the predicate again.
WdWake(spurious) ==
    /\ pcD = "blocked" /\ (wdSignal \/ spurious)
    /\ pcD' = "check" /\ wdSignal' = FALSE
    /\ UNCHANGED <<playerState, isPaused, wdStop, wdState, wdNotified, status, data,
                   pcP, pcPl, ub, budget>>
    /\ UNCHANGED <<now, tim, pos>>

\* while (!mStop && !mExit).
WdLoop ==
    /\ pcD = "loop"
    /\ pcD' = IF ~wdStop THEN "timing" ELSE "check"
    /\ UNCHANGED <<playerState, isPaused, wd, status, data, pcP, pcPl, ub, budget>>
    /\ UNCHANGED <<now, tim, pos>>

\* wait_for(timeout, mNotified): returns when notified, or at the timeout
\* with the value of the predicate.
WdWaitFor ==
    /\ pcD = "timing"
    /\ status' = wdNotified /\ pcD' = "decide"
    /\ UNCHANGED <<playerState, isPaused, wd, data, pcP, pcPl, ub, budget>>
    /\ UNCHANGED <<now, tim, pos>>

\* mNotified = false; expire if the wait timed out and mStop is clear.
WdDecide ==
    /\ pcD = "decide"
    /\ wdNotified' = FALSE
    /\ pcD' = IF ~status /\ ~wdStop THEN "expire" ELSE "loop"
    /\ UNCHANGED <<playerState, isPaused, wdStop, wdState, wdSignal, status, data,
                   pcP, pcPl, ub, budget>>
    /\ UNCHANGED <<now, tim, pos>>

\* mState = EXPIRED; mStop = true; mFunc(true) sets mIsPaused.
WdExpire ==
    /\ pcD = "expire"
    /\ wdState' = "EXPIRED" /\ wdStop' = TRUE /\ isPaused' = TRUE
    /\ pcD' = "loop"
    /\ UNCHANGED <<playerState, wdNotified, wdSignal, status, data, pcP, pcPl, ub, budget>>
    /\ UNCHANGED <<now, tim, pos>>

-----------------------------------------------------------------------------
(* setPlayerState, readData, release and setSeekTime.                     *)

\* setPlayerState(PAUSED): start the watchdog if the index holds data.
PlayerPause ==
    /\ pcPl = "idle" /\ nReqs < MaxStateReqs
    /\ nReqs' = nReqs + 1
    /\ IF IndexBytes /= 0 THEN Start ELSE UNCHANGED wd
    /\ playerState' = "PAUSED"
    /\ UNCHANGED <<isPaused, pcD, status, data, pcP, pcPl, ub, nReads, nSeeks, nReleases>>
    /\ UNCHANGED <<now, tim, pos>>

\* setPlayerState(PLAYING): TimeoutWatchdog::stop tests !mStop ...
PlayerPlay ==
    /\ pcPl = "idle" /\ nReqs < MaxStateReqs
    /\ nReqs' = nReqs + 1
    /\ pcPl' = IF ~wdStop THEN "stopping" ELSE "playing"
    /\ UNCHANGED <<playerState, isPaused, wd, pcD, status, data, pcP, ub,
                   nReads, nSeeks, nReleases>>
    /\ UNCHANGED <<now, tim, pos>>

\* ... sets STOPPED and mStop and calls mFunc(false) ...
PlayerStopWatchdog ==
    /\ pcPl = "stopping"
    /\ wdState' = "STOPPED" /\ wdStop' = TRUE /\ isPaused' = FALSE
    /\ pcPl' = "playing"
    /\ UNCHANGED <<playerState, wdNotified, wdSignal, pcD, status, data, pcP, ub, budget>>
    /\ UNCHANGED <<now, tim, pos>>

\* ... then mPauseTimeMonitor.stopTimeInterval, mIsPaused = false and
\* mPlayerState = PLAYING.
PlayerPlaying ==
    /\ pcPl = "playing"
    /\ TimStop
    /\ isPaused' = FALSE /\ playerState' = "PLAYING" /\ pcPl' = "idle"
    /\ UNCHANGED <<wd, pcD, status, data, pcP, ub, budget, now, pos>>

\* readData under mSeekMtx: a first read creates the handle context at
\* live; a chunk is read if the pool holds one at the handle's position;
\* while PAUSED the watchdog is restarted.
ReadData ==
    /\ LET h == IF handle = NoHandle THEN live ELSE handle
       IN  /\ handle' = IF h - seek < live THEN h + 1 ELSE h
           /\ target' = IF handle = NoHandle THEN handle' - seek
                        ELSE target + (handle' - handle)
    /\ IF playerState = "PAUSED"
       THEN wdNotified' = TRUE /\ NotifyWd /\ UNCHANGED <<wdStop, wdState>>
       ELSE UNCHANGED wd

\* FCCPlugin::read of the stream file: readData when
\* MediaSourceHandler::isChannelActive, otherwise return 0 with nothing
\* read and the watchdog left alone.
PluginRead ==
    /\ nReads < MaxReads
    /\ nReads' = nReads + 1
    /\ \E active \in BOOLEAN :
         IF active THEN ReadData ELSE UNCHANGED <<handle, wd, target>>
    /\ UNCHANGED <<playerState, isPaused, pcD, status, live, count, samples, seek,
                   pcP, pcPl, ub, nReqs, nSeeks, nReleases, now, tim, pDelta>>

\* FCCPlugin::release of the stream file -> TimeShiftBufferConsumer::
\* release: erase the handle context (no lock).
Release ==
    /\ handle /= NoHandle /\ nReleases < MaxReleases
    /\ handle' = NoHandle /\ nReleases' = nReleases + 1
    /\ UNCHANGED <<playerState, isPaused, wd, pcD, status, live, count, samples, seek,
                   pcP, pcPl, ub, nReads, nReqs, nSeeks>>
    /\ UNCHANGED <<now, tim, pos>>

\* setSeekTime under mSeekMtx (not mParamMtx) with a non-empty index: the
\* time truncated to the index span and looked up (BufferIndex models the
\* lookup) gives an offset within the index, which is stored; then clear
\* the watchdog, reset mPauseTimeMonitor, move every handle to live, and
\* start the watchdog again if PAUSED.  The player is to read v behind live.
SeekRequest ==
    /\ nSeeks < MaxSeeks /\ samples > 0
    /\ nSeeks' = nSeeks + 1
    /\ \E v \in 0..IndexBytes : seek' = v /\ target' = live - v
    /\ ClearThenStart(playerState = "PAUSED")
    /\ TimReset
    /\ handle' = IF handle = NoHandle THEN NoHandle ELSE live
    /\ UNCHANGED <<playerState, isPaused, pcD, status, live, count, samples,
                   pcP, pcPl, ub, nReads, nReqs, nReleases, now, pDelta>>

-----------------------------------------------------------------------------
(* post.                                                                  *)

\* registerBufferCount: a sample every Ratio chunks; the index holds at
\* most CapSamples.
Sampled == count % Ratio = 0

\* Mutant of SamplesAfter: the index grows past its capacity.
SamplesAfterUncapped == IF Sampled THEN samples + 1 ELSE samples

SamplesAfter == IF ~Sampled THEN samples
                ELSE IF samples < CapSamples THEN samples + 1 ELSE CapSamples

\* queueBuffer and registerBufferCount; while PAUSED, the first sample of
\* the index starts the watchdog.
PostRegister ==
    /\ pcP = "idle" /\ live < MaxChunks
    /\ live' = live + 1 /\ count' = count + 1 /\ samples' = SamplesAfter
    /\ IF playerState = "PAUSED" /\ Sampled /\ SamplesAfter = 1
       THEN Start ELSE UNCHANGED wd
    /\ pcP' = IF playerState = "PAUSED" THEN "comp" ELSE "idle"
    /\ UNCHANGED <<playerState, isPaused, pcD, status, handle, seek, pcPl, ub, budget>>
    /\ UNCHANGED <<now, tim, pos>>

\* The compensation under mParamMtx, lines 76-87: livePos and the first
\* handle's read offset give deltaBytes, the lag behind live; the pause
\* interval stops if the handle lagged and extends otherwise.
LagDelta(h) == IF live > h THEN live - h ELSE 0

\* While mIsPaused, lock mParamMtx and compute deltaBytes; mHandles.begin()
\* of an empty map is undefined behaviour, after which either interval
\* call may follow and nothing else is modelled.  While not mIsPaused,
\* extend the pause time interval.  setSeekTime, readData and release do
\* not take mParamMtx, so they run between this step and the next two.
PostCompensate ==
    /\ pcP = "comp"
    /\ \/ isPaused /\ handle = NoHandle
          /\ ub' = TRUE /\ (TimStop \/ TimUpdate) /\ pcP' = "idle"
          /\ UNCHANGED pDelta
       \/ isPaused /\ handle /= NoHandle
          /\ pDelta' = LagDelta(handle) /\ pcP' = "inc" /\ UNCHANGED ub
          /\ IF live > handle THEN TimStop ELSE TimUpdate
       \/ ~isPaused /\ TimUpdate /\ pcP' = "idle" /\ UNCHANGED <<ub, pDelta>>
    /\ UNCHANGED <<playerState, isPaused, wd, pcD, status, data, pcPl, budget, now,
                   target>>

\* mHandles.begin()->second.incReadOffset(deltaBytes): the first handle
\* now, which a release may have erased since.
PostIncHandle ==
    /\ pcP = "inc"
    /\ IF handle = NoHandle THEN ub' = TRUE /\ UNCHANGED handle
                            ELSE handle' = handle + pDelta /\ UNCHANGED ub
    /\ pcP' = "seek"
    /\ UNCHANGED <<playerState, isPaused, wd, pcD, status, live, count, samples, seek,
                   pcPl, budget, now, tim, pos>>

\* mSeekByteOffset += deltaBytes, capped at getIndexSizeInBytes, and the
\* lock is released.  The player keeps its position behind live, unless
\* that fell out of the index, in which case it reads the oldest data.
PostMoveSeek ==
    /\ pcP = "seek"
    /\ seek' = IF seek + pDelta > IndexBytes THEN IndexBytes ELSE seek + pDelta
    /\ target' = IF live - IndexBytes > target THEN live - IndexBytes ELSE target
    /\ pcP' = "idle"
    /\ UNCHANGED <<playerState, isPaused, wd, pcD, status, live, count, samples, handle,
                   pcPl, ub, budget, now, tim, pDelta>>

-----------------------------------------------------------------------------

Init ==
    /\ playerState = "UNDEF" /\ isPaused = FALSE
    /\ wdStop = TRUE /\ wdState = "CLEAR" /\ wdNotified = FALSE /\ wdSignal = FALSE
    /\ pcD = "blocked" /\ status = FALSE
    /\ live = 0 /\ count = 0 /\ samples = 0 /\ handle = NoHandle /\ seek = 0
    /\ pcP = "idle" /\ pcPl = "idle" /\ ub = FALSE
    /\ nReads = 0 /\ nReqs = 0 /\ nSeeks = 0 /\ nReleases = 0
    /\ now = 0 /\ timRunning = FALSE /\ timInit = 0 /\ timLast = 0 /\ timDelta = 0
    /\ resetAt = 0 /\ pDelta = 0 /\ target = 0

Next ==
    \/ WdCheck \/ WdBlock \/ WdWake(FALSE) \/ WdWake(TRUE) \/ WdLoop
    \/ WdWaitFor \/ WdDecide \/ WdExpire
    \/ PlayerPause \/ PlayerPlay \/ PlayerStopWatchdog \/ PlayerPlaying
    \/ PluginRead \/ Release \/ SeekRequest
    \/ PostRegister \/ PostCompensate \/ PostIncHandle \/ PostMoveSeek
    \/ Tick

Spec == Init /\ [][Next]_vars

-----------------------------------------------------------------------------
(* Properties.                                                            *)

TypeOK ==
    /\ playerState \in {"UNDEF", "PLAYING", "PAUSED"}
    /\ wdState \in {"CLEAR", "RUNNING", "STOPPED", "EXPIRED"}
    /\ {isPaused, wdStop, wdNotified, wdSignal, status, ub} \subseteq BOOLEAN
    /\ live \in 0..MaxChunks /\ samples \in 0..CapSamples
    /\ handle \in {NoHandle} \cup 0..(2 * MaxChunks + MaxReads) /\ seek \in 0..(CapSamples * Ratio)
    /\ now \in 0..MaxTime /\ timRunning \in BOOLEAN
    /\ {timInit, timLast, resetAt} \subseteq 0..now /\ timDelta \in Nat
    /\ pDelta \in 0..MaxChunks /\ target \in Int

\* Not checked by a run (TLC finds it violated, see README): once post
\* has finished a compensation, the player's position in the buffer
\* (read offset - mSeekByteOffset) is the one setSeekTime chose, moved on
\* by its reads and, while paused, kept behind live or clamped to the
\* oldest data.  A setSeekTime between incReadOffset and the seek update
\* of post, which hold different locks, breaks it.
SeekPositionKept == (pcP = "idle" /\ handle /= NoHandle) => handle - seek = target

\* mIsPaused is only set while the player is PAUSED: setPlayerState(PLAYING)
\* stops the watchdog and clears the flag.
PausedFlagOnlyWhilePaused == isPaused => playerState = "PAUSED"

\* The pause time getSeekTime adds to the seek position never exceeds the
\* time that has passed since mPauseTimeMonitor was last reset: every
\* interval updateTimeInterval opens starts after the one it closed.
PauseTimeWithinElapsed == PauseTime <= now - resetAt

\* The pause time interval only runs while the player is PAUSED: post
\* extends it only in the PAUSED branch, and setPlayerState(PLAYING) stops
\* it.
PauseIntervalOnlyWhilePaused == timRunning => playerState = "PAUSED"

\* post never takes mHandles.begin() of an empty handle map.
NoHandleDerefWhenEmpty == ~ub

=============================================================================
