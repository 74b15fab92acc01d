------------------------------ MODULE TrickPlay ------------------------------
(***************************************************************************)
(* Trick play, seek and channel-switch reset of TimeShiftBufferConsumer,  *)
(* with the CyclicEventTimer thread that drives updateTrickPlayPosition.  *)
(*                                                                         *)
(* Threads:                                                               *)
(*   "timer"  - CyclicEventTimer::threadLoop calling                      *)
(*              updateTrickPlayPosition every TRICK_PLAY_RATE_MS;         *)
(*   "writer" - TrickPlayRequestHandler calling setTrickPlaySpeed;        *)
(*   "seeker" - SeekRequestHandler calling setSeekTime;                   *)
(*   "switch" - MediaSourceHandler::disconnect calling onEndOfStream      *)
(*              (reset) and then onOpen;                                  *)
(*   "stream" - the consumer loop calling post.                          *)
(* Every lock acquisition is a step of its own; the work done while a     *)
(* thread holds a lock and takes no other lock is part of that step.     *)
(*                                                                         *)
(* Positions are counted in index samples: the seek position (the time    *)
(* mSeekByteOffset stands for) and the time span of the BufferIndexer.    *)
(* One sample is TRICK_PLAY_RATE_MS, so a trick-play step of speed s      *)
(* moves by s + 1 samples.  The time/offset conversions of the indexer   *)
(* are modelled in BufferIndex; here they are taken as exact.            *)
(***************************************************************************)
EXTENDS Integers, FiniteSets

CONSTANTS
    Speeds,        \* integers written to trick_play0, as std::stoi reads them
    Cap,           \* index samples the time-shift buffer holds
    MaxRequests,   \* bound: setTrickPlaySpeed calls
    MaxSeeks,      \* bound: setSeekTime calls from the seek handler
    MaxSwitches    \* bound: channel switches (reset, then onOpen)

ASSUME /\ Speeds \subseteq Int /\ 1 \in Speeds
       /\ Cap \in Nat \ {0}
       /\ {MaxRequests, MaxSeeks, MaxSwitches} \subseteq Nat

Threads == {"timer", "writer", "seeker", "switch", "stream"}
Locks   == {"param", "trick", "seek", "timerMtx"}   \* mParamMtx, mTrickPlaySpeedMtx, mSeekMtx, CyclicEventTimer::mMutex
None    == "none"

VARIABLES
    owner,        \* owner[l]: the thread holding lock l, or None
    speed,        \* mTrickPlaySpeed
    trickFile,    \* the speed published in the trick-play MVar file
    throttled,    \* the ring buffer pool's read throttling flag
    seek,         \* the seek position, in samples behind live
    samples,      \* number of samples in the BufferIndexer
    streaming,    \* mIsStreaming
    mStop,        \* CyclicEventTimer::mStop
    signal,       \* a notify_one reached the timer thread while it waited
    pcT, curSeek, stopTP,   \* timer thread: pc and its locals
    pcW, pcS, seekTo, pcR, pcP,  \* pcs of writer, seeker, switch, stream
    nReq, nSeek, nSwitch    \* requests made so far

shared == <<speed, trickFile, throttled, seek, samples, streaming, mStop, signal>>
timerL == <<pcT, curSeek, stopTP>>
vars   == <<owner, shared, timerL, pcW, pcS, seekTo, pcR, pcP, nReq, nSeek, nSwitch>>

\* getIndexSizeInTimeUs: the time span of the index (0 when empty).
MaxSeekTime == IF samples = 0 THEN 0 ELSE samples - 1

Free(l) == owner[l] = None
Take(l, t) == owner' = [owner EXCEPT ![l] = t]
Release(ls) == owner' = [l \in Locks |-> IF l \in ls THEN None ELSE owner[l]]
\* notify_one on mCv wakes the timer thread only if it is waiting.
Notify == signal' = (pcT = "wait")

\* setSeekTime: truncate to getMaxSeekTime (the lookup then maps the time
\* to a byte offset; BUF_EMPTY is checked by the callers' guards).
SeekTarget(v) == IF v > MaxSeekTime THEN MaxSeekTime ELSE v

-----------------------------------------------------------------------------
(* The timer thread: CyclicEventTimer::threadLoop.                        *)

\* Take mMutex and block in mCv.wait (the wait has no predicate).
TimerWait ==
    /\ pcT = "top" /\ Free("timerMtx")
    /\ pcT' = "wait"
    /\ UNCHANGED <<owner, shared, curSeek, stopTP, pcW, pcS, seekTo, pcR, pcP, nReq, nSeek, nSwitch>>

\* Woken by notify_one, or spuriously: reacquire mMutex and leave the block.
TimerWake(spurious) ==
    /\ pcT = "wait" /\ Free("timerMtx") /\ (signal \/ spurious)
    /\ pcT' = "check" /\ signal' = FALSE
    /\ UNCHANGED <<owner, speed, trickFile, throttled, seek, samples, streaming, mStop,
                   curSeek, stopTP, pcW, pcS, seekTo, pcR, pcP, nReq, nSeek, nSwitch>>

\* while (!mExit && !mStop): call the closure, else back to the wait.
TimerCheck ==
    /\ pcT = "check"
    /\ pcT' = IF mStop THEN "top" ELSE "lockTrick"
    /\ UNCHANGED <<owner, shared, curSeek, stopTP, pcW, pcS, seekTo, pcR, pcP, nReq, nSeek, nSwitch>>

\* updateTrickPlayPosition: lock mTrickPlaySpeedMtx.
TimerLockTrick ==
    /\ pcT = "lockTrick" /\ Free("trick")
    /\ Take("trick", "timer") /\ pcT' = "getSeek"
    /\ UNCHANGED <<shared, curSeek, stopTP, pcW, pcS, seekTo, pcR, pcP, nReq, nSeek, nSwitch>>

\* getSeekTime: read the seek position under mParamMtx.
TimerGetSeek ==
    /\ pcT = "getSeek" /\ Free("param")
    /\ curSeek' = seek /\ pcT' = "setSeek"
    /\ UNCHANGED <<owner, shared, stopTP, pcW, pcS, seekTo, pcR, pcP, nReq, nSeek, nSwitch>>

\* The step of updateTrickPlayPosition: new position, whether trick play
\* stops, and the speed after the step.
NextSeek(cur, s) ==
    CASE s = 1 -> [to |-> cur, stop |-> TRUE, speed |-> 1]
      [] s < 0 -> LET n == cur - s + 1
                  IN  IF n < MaxSeekTime THEN [to |-> n, stop |-> FALSE, speed |-> s]
                                         ELSE [to |-> n, stop |-> TRUE, speed |-> 1]
      [] OTHER -> LET n == cur - s - 1
                  IN  IF n > 0 THEN [to |-> n, stop |-> FALSE, speed |-> s]
                               ELSE [to |-> 0, stop |-> TRUE, speed |-> 1]

\* Mutant of PublishSpeed: the file is only written by setTrickPlaySpeed.
PublishSpeedNever(s, file) == file

\* updateTrickPlayFile at the end of updateTrickPlayPosition.
PublishSpeed(s, file) == IF s = 1 THEN s ELSE file

\* The rest of updateTrickPlayPosition: enableReadThrottling, setSeekTime
\* (under mSeekMtx), the trick-play file, and the return that unlocks
\* mTrickPlaySpeedMtx.
TimerSetSeek ==
    /\ pcT = "setSeek" /\ Free("seek")
    /\ LET r == NextSeek(curSeek, speed)
       IN  /\ speed' = r.speed
           /\ throttled' = r.stop
           /\ seek' = IF samples = 0 THEN seek ELSE SeekTarget(r.to)
           /\ trickFile' = PublishSpeed(r.speed, trickFile)
           /\ stopTP' = r.stop
    /\ Release({"trick"}) /\ pcT' = "ret"
    /\ UNCHANGED <<samples, streaming, mStop, signal, curSeek,
                   pcW, pcS, seekTo, pcR, pcP, nReq, nSeek, nSwitch>>

\* Back in threadLoop: a true result sets mStop and leaves the loop;
\* otherwise sleep for the period and test the loop condition again.
TimerReturn ==
    /\ pcT = "ret"
    /\ IF stopTP THEN mStop' = TRUE /\ pcT' = "top"
                 ELSE UNCHANGED mStop /\ pcT' = "check"
    /\ UNCHANGED <<owner, speed, trickFile, throttled, seek, samples, streaming, signal,
                   curSeek, stopTP, pcW, pcS, seekTo, pcR, pcP, nReq, nSeek, nSwitch>>

-----------------------------------------------------------------------------
(* The request threads.                                                   *)

\* Mutant of AcceptSpeed: the test for a zero speed is missing.
AcceptSpeedAnyValue(s, cur) == s /= cur

\* TrickPlayRequestHandler::writeConfig stores std::stoi's int in an
\* int16_t before it calls setTrickPlaySpeed.
Int16(v) == ((v + 32768) % 65536) - 32768

\* The condition of setTrickPlaySpeed: a non-zero speed that differs from
\* the current one.
AcceptSpeed(s, cur) == s /= 0 /\ s /= cur

\* A write of trick_play0 (TrickPlayRequestHandler::writeConfig, then
\* setTrickPlaySpeed): under mTrickPlaySpeedMtx, a new non-zero speed is
\* stored and the timer started; anything else returns false.
WriterSetSpeed ==
    /\ pcW = "idle" /\ nReq < MaxRequests /\ Free("trick")
    /\ nReq' = nReq + 1
    /\ \E v \in Speeds :
         LET s == Int16(v) IN
         IF AcceptSpeed(s, speed)
         THEN speed' = s /\ Take("trick", "writer") /\ pcW' = "start"
         ELSE UNCHANGED <<speed, owner, pcW>>
    /\ UNCHANGED <<trickFile, throttled, seek, samples, streaming, mStop, signal,
                   timerL, pcS, seekTo, pcR, pcP, nSeek, nSwitch>>

\* CyclicEventTimer::start under mMutex (a no-op unless mStop), then
\* updateTrickPlayFile and the unlock.
WriterStartTimer ==
    /\ pcW = "start" /\ Free("timerMtx")
    /\ IF mStop THEN mStop' = FALSE /\ Notify ELSE UNCHANGED <<mStop, signal>>
    /\ trickFile' = speed
    /\ Release({"trick"}) /\ pcW' = "idle"
    /\ UNCHANGED <<speed, throttled, seek, samples, streaming, timerL,
                   pcS, seekTo, pcR, pcP, nReq, nSeek, nSwitch>>

\* setSeekTime from the seek handler: lock mSeekMtx, truncate and look the
\* time up in the index (BUF_EMPTY returns false).
SeekLookup ==
    /\ pcS = "idle" /\ nSeek < MaxSeeks /\ Free("seek")
    /\ nSeek' = nSeek + 1
    /\ \E v \in 0..Cap :
         IF samples = 0
         THEN UNCHANGED <<owner, pcS, seekTo>>
         ELSE Take("seek", "seeker") /\ seekTo' = SeekTarget(v) /\ pcS' = "write"
    /\ UNCHANGED <<shared, timerL, pcW, pcR, pcP, nReq, nSwitch>>

\* setSeekTime: store mSeekByteOffset and unlock.
SeekWrite ==
    /\ pcS = "write"
    /\ seek' = seekTo /\ Release({"seek"}) /\ pcS' = "idle"
    /\ UNCHANGED <<speed, trickFile, throttled, samples, streaming, mStop, signal,
                   timerL, pcW, seekTo, pcR, pcP, nReq, nSeek, nSwitch>>

\* onEndOfStream: mIsStreaming = false, then reset() locks mParamMtx.
SwitchBegin ==
    /\ pcR = "open" /\ nSwitch < MaxSwitches /\ Free("param")
    /\ nSwitch' = nSwitch + 1
    /\ streaming' = FALSE /\ Take("param", "switch") /\ pcR' = "lockTrick"
    /\ UNCHANGED <<speed, trickFile, throttled, seek, samples, mStop, signal,
                   timerL, pcW, pcS, seekTo, pcP, nReq, nSeek>>

\* reset(): lock mTrickPlaySpeedMtx; back to live at speed 1.
SwitchLockTrick ==
    /\ pcR = "lockTrick" /\ Free("trick")
    /\ Take("trick", "switch")
    /\ seek' = 0 /\ speed' = 1 /\ trickFile' = 1 /\ throttled' = TRUE
    /\ pcR' = "stop"
    /\ UNCHANGED <<samples, streaming, mStop, signal, timerL,
                   pcW, pcS, seekTo, pcP, nReq, nSeek, nSwitch>>

\* reset(): mTrickPlayTimer->stop() under mMutex, mBufIndexer->clear(),
\* then both locks are released.
SwitchStopTimer ==
    /\ pcR = "stop" /\ Free("timerMtx")
    /\ mStop' = TRUE /\ Notify /\ samples' = 0
    /\ Release({"param", "trick"}) /\ pcR' = "closed"
    /\ UNCHANGED <<speed, trickFile, throttled, seek, streaming, timerL,
                   pcW, pcS, seekTo, pcP, nReq, nSeek, nSwitch>>

\* onOpen of the next channel.
SwitchOpen ==
    /\ pcR = "closed"
    /\ streaming' = TRUE /\ pcR' = "open"
    /\ UNCHANGED <<owner, speed, trickFile, throttled, seek, samples, mStop, signal,
                   timerL, pcW, pcS, seekTo, pcP, nReq, nSeek, nSwitch>>

\* post: a buffer is accepted while mIsStreaming ...
PostCheck ==
    /\ pcP = "idle" /\ streaming /\ samples < Cap
    /\ pcP' = "register"
    /\ UNCHANGED <<owner, shared, timerL, pcW, pcS, seekTo, pcR, nReq, nSeek, nSwitch>>

\* ... queued, and registerBufferCount adds an index sample.
PostRegister ==
    /\ pcP = "register"
    /\ samples' = IF samples < Cap THEN samples + 1 ELSE Cap
    /\ pcP' = "idle"
    /\ UNCHANGED <<owner, speed, trickFile, throttled, seek, streaming, mStop, signal,
                   timerL, pcW, pcS, seekTo, pcR, nReq, nSeek, nSwitch>>

-----------------------------------------------------------------------------

Init ==
    /\ owner = [l \in Locks |-> None]
    /\ speed = 1 /\ trickFile = 1 /\ throttled = TRUE
    /\ seek = 0 /\ samples = 0 /\ streaming = TRUE
    /\ mStop = TRUE /\ signal = FALSE
    /\ pcT = "wait" /\ curSeek = 0 /\ stopTP = FALSE
    /\ pcW = "idle" /\ pcS = "idle" /\ seekTo = 0 /\ pcR = "open" /\ pcP = "idle"
    /\ nReq = 0 /\ nSeek = 0 /\ nSwitch = 0

Next ==
    \/ TimerWait \/ TimerWake(FALSE) \/ TimerWake(TRUE) \/ TimerCheck
    \/ TimerLockTrick \/ TimerGetSeek \/ TimerSetSeek \/ TimerReturn
    \/ WriterSetSpeed \/ WriterStartTimer \/ SeekLookup \/ SeekWrite
    \/ SwitchBegin \/ SwitchLockTrick \/ SwitchStopTimer \/ SwitchOpen
    \/ PostCheck \/ PostRegister

\* Every thread that can run eventually runs (the OS scheduler); a
\* spurious wakeup is allowed but never relied on.
Fairness ==
    /\ WF_vars(TimerWait) /\ WF_vars(TimerWake(FALSE)) /\ WF_vars(TimerCheck)
    /\ WF_vars(TimerLockTrick) /\ WF_vars(TimerGetSeek) /\ WF_vars(TimerSetSeek)
    /\ WF_vars(TimerReturn) /\ WF_vars(WriterStartTimer) /\ WF_vars(SeekWrite)
    /\ WF_vars(SwitchLockTrick) /\ WF_vars(SwitchStopTimer) /\ WF_vars(SwitchOpen)
    /\ WF_vars(PostRegister)

Spec == Init /\ [][Next]_vars
FairSpec == Spec /\ Fairness

-----------------------------------------------------------------------------
(* Properties.                                                            *)

TypeOK ==
    /\ owner \in [Locks -> Threads \cup {None}]
    /\ {speed, trickFile} \subseteq {Int16(v) : v \in Speeds} \ {0}
    /\ seek \in 0..Cap /\ samples \in 0..Cap
    /\ {mStop, signal, throttled, streaming, stopTP} \subseteq BOOLEAN

\* Once no thread is inside a mTrickPlaySpeedMtx section, the speed shown
\* in the trick-play file is mTrickPlaySpeed: setTrickPlaySpeed, the
\* timer's updateTrickPlayPosition and reset() all republish it.
TrickFileMatchesSpeed == Free("trick") => trickFile = speed

\* The lock a thread is blocked on while it holds another one.
Wants(t) ==
    CASE t = "timer"  /\ pcT \in {"getSeek"} -> "param"
      [] t = "timer"  /\ pcT = "setSeek"     -> "seek"
      [] t = "switch" /\ pcR = "lockTrick"   -> "trick"
      [] t = "switch" /\ pcR = "stop"        -> "timerMtx"
      [] t = "writer" /\ pcW = "start"       -> "timerMtx"
      [] OTHER -> None

\* No two threads wait for each other's locks: updateTrickPlayPosition
\* (mTrickPlaySpeedMtx, then mParamMtx in getSeekTime) and reset()
\* (mParamMtx, then mTrickPlaySpeedMtx) never block each other forever.
NoLockWaitCycle ==
    ~\E t1, t2 \in Threads :
        /\ t1 /= t2
        /\ Wants(t1) /= None /\ owner[Wants(t1)] = t2
        /\ Wants(t2) /= None /\ owner[Wants(t2)] = t1

\* A trick-play speed set by setTrickPlaySpeed is eventually played out:
\* the timer moves the position until a buffer edge sets the speed back
\* to 1 (or a reset does).
TrickPlayEventuallyEnds == (speed /= 1) ~> (speed = 1)

=============================================================================
