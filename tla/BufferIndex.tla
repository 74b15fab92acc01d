----------------------------- MODULE BufferIndex -----------------------------
(***************************************************************************)
(* BufferIndexer: the index of (timestamp, accumulated byte count) samples *)
(* that TimeShiftBufferConsumer uses to turn a seek time into a byte       *)
(* offset from live (setSeekTime) and back (getSeekTime).                 *)
(*                                                                         *)
(* mBufInd is a boost::circular_buffer of capacity BufCap; the index       *)
(* proper excludes the tail and holds the newest IndexCap entries         *)
(* (getIndexSize, getFront).  Each public method runs under mIndexMutex,  *)
(* so each is one step; setSeekTime calls two of them (the size, then the *)
(* lookup) and is two steps, between which the stream may post and a      *)
(* channel switch may clear the index.                                    *)
(*                                                                         *)
(* Bytes are counted in chunks (BUFFER_CHUNK_SIZE); time in milliseconds, *)
(* the unit in which setSeekTime truncates (the us/ms conversions are     *)
(* exact at this unit).  Each chunk arrives a gap from Gaps after the     *)
(* previous one: the stream's bitrate.                                     *)
(***************************************************************************)
EXTENDS Integers, Sequences, FiniteSetsExt

CONSTANTS
    Ratio,      \* mSamplingRatio (BUFFER_SAMPLING_RATIO)
    BufCap,     \* capacity of mBufInd: tsbSize / samplingRatio
    IndexCap,   \* mTsbSize: (tsbSize - tailSize) / samplingRatio
    Gaps,       \* time between two chunks
    MaxChunks,  \* bound: chunks posted
    MaxClears,  \* bound: clear() calls (channel switches)
    MaxSeeks,   \* bound: setSeekTime calls
    MaxTime,    \* largest seek time a request carries
    MaxBytes    \* largest seek byte offset getSeekTime converts

ASSUME /\ Ratio \in Nat \ {0} /\ IndexCap \in Nat \ {0} /\ BufCap \in Nat
       /\ IndexCap <= BufCap /\ Gaps \subseteq Nat \ {0}

VARIABLES
    buf,      \* mBufInd: a sequence of [t |-> time, b |-> byte count]
    count,    \* mBufferCount
    total,    \* getTotalBufferByteCount: chunks queued in the pool
    now,      \* the clock
    memoB,    \* mLastByteOffsetFromTimeUs: [key |-> time, val |-> offset]
    memoT,    \* mLastTimeUsFromByteOffset: [key |-> offset, val |-> time]
    pcS,      \* setSeekTime: between getIndexSizeInTimeUs and the lookup
    seekTo,   \* setSeekTime's truncated seekTime
    res,      \* the result of the conversion made in the last step
    nClears, nSeeks

vars == <<buf, count, total, now, memoB, memoT, pcS, seekTo, res, nClears, nSeeks>>

None == -1
Errs == {"OK", "OUT_OF_RANGE", "EMPTY"}
NoRes == [op |-> "none", in |-> 0, err |-> "OK", out |-> None, fresh |-> FALSE]

-----------------------------------------------------------------------------
(* The circular buffer and its front.                                     *)

Size == Len(buf)

\* getIndexSize: the entries that belong to the index proper.
IndexSize == IF Size > IndexCap THEN IndexCap ELSE Size

\* getFrontIndex (1-based): the oldest entry of the index proper.
FrontIndex == Size - IndexSize + 1

\* Mutant of Front: the oldest entry of the whole buffer, tail included.
FrontWithTail == buf[1]

\* getFront.
Front == buf[FrontIndex]

Back == buf[Size]

\* getIndexSizeInTimeUs and getIndexSizeInBytes.
IndexTime  == IF Size = 0 THEN 0 ELSE Back.t - Front.t
IndexBytes == IF Size = 0 THEN 0 ELSE Back.b - Front.b

\* Mutant of PushBack: the buffer grows instead of overwriting.
PushBackNoOverwrite(s, e) == Append(s, e)

\* push_back on a full circular buffer overwrites the oldest entry.
PushBack(s, e) == IF Len(s) = BufCap THEN Append(Tail(s), e) ELSE Append(s, e)

-----------------------------------------------------------------------------
(* std::upper_bound over mBufInd from the front index to the end, whose *)
(* times and byte counts both increase: the first entry whose key exceeds *)
(* target, Size + 1 (end()) if none.                                      *)
Search(key, target) ==
    LET above == {k \in FrontIndex..Size : target < buf[k][key]}
    IN  IF above = {} THEN Size + 1 ELSE Min(above)

-----------------------------------------------------------------------------
(* Interpolation.                                                          *)

\* Mutant of InterpIndex: the fractional index is rounded, not truncated.
InterpIndexRounded(i, x, d) == IF 2 * x < d THEN i ELSE i - 1

\* getByteOffsetFromTimeUs: index = i + (1 / (t[i-1] - t[i])) * x, with
\* 0 < x <= d = t[i] - t[i-1], converted to uint64 by truncation.
InterpIndex(i, x, d) == i - (x + d - 1) \div d

\* (uint64_t)(gradient * x) with gradient = (float) dt / db: the floor of
\* dt * x / db, or one less when that quotient is a whole number the float
\* product falls just below.
FloatTrunc(n, d) == {n \div d} \cup (IF n % d = 0 /\ n > 0 THEN {n \div d - 1} ELSE {})

\* Mutant of InterpTime: the interpolation starts from the sample above.
InterpTimeFromAbove(i, x) ==
    {buf[i].t + q : q \in FloatTrunc((buf[i].t - buf[i - 1].t) * x, buf[i].b - buf[i - 1].b)}

\* getTimeUsFromByteOffset: absTime = t[i-1] + (uint64)(gradient * x).
InterpTime(i, x) ==
    {buf[i - 1].t + q : q \in FloatTrunc((buf[i].t - buf[i - 1].t) * x, buf[i].b - buf[i - 1].b)}

-----------------------------------------------------------------------------
(* The two conversions.  Each yields records [err, out, memo, fresh]:     *)
(* the return code, the value written to the output argument (None when   *)
(* it is left alone), the memo afterwards and whether the value was       *)
(* computed by the search rather than taken from the memo.                *)

R(err, out, memo, fresh) == [err |-> err, out |-> out, memo |-> memo, fresh |-> fresh]

\* getByteOffsetFromTimeUs(time, byteOffset).
ByteOffsetFromTime(time) ==
    IF Size = 0 THEN R("EMPTY", None, memoB, FALSE)
    ELSE IF time = memoB.key THEN R("OK", memoB.val, memoB, FALSE)
    ELSE IF time = 0 THEN R("OK", 0, [key |-> 0, val |-> 0], FALSE)
    ELSE IF Front.t + time > Back.t
         THEN R("OUT_OF_RANGE", IndexBytes, [key |-> time, val |-> IndexBytes], FALSE)
    ELSE LET i == Search("t", Back.t - time)
         IN  IF i = Size + 1 THEN R("OUT_OF_RANGE", None, memoB, FALSE)
             ELSE LET off == Back.b - buf[InterpIndex(i, time - (Back.t - buf[i].t),
                                                      buf[i].t - buf[i - 1].t)].b
                  IN  R("OK", off, [key |-> time, val |-> off], TRUE)

\* getTimeUsFromByteOffset(byteOffset, time): a set, for the float rounding.
TimeFromByteOffset(off) ==
    IF Size = 0 THEN {R("EMPTY", None, memoT, FALSE)}
    ELSE IF off = memoT.key THEN {R("OK", memoT.val, memoT, FALSE)}
    ELSE IF off = 0 THEN {R("OK", 0, [key |-> 0, val |-> 0], FALSE)}
    ELSE IF Front.b + off > Back.b
         THEN {R("OUT_OF_RANGE", IndexTime, [key |-> off, val |-> IndexTime], FALSE)}
    ELSE LET target == Back.b - off
             i == Search("b", target)
         IN  IF i = Size + 1 THEN {R("OUT_OF_RANGE", None, memoT, FALSE)}
             ELSE {R("OK", Back.t - a, [key |-> off, val |-> Back.t - a], TRUE) :
                     a \in InterpTime(i, target - buf[i - 1].b)}

-----------------------------------------------------------------------------
(* Actions.                                                               *)

\* post: queueBuffer, then registerBufferCount(getTotalBufferByteCount()):
\* every Ratio-th chunk appends (now, total) to mBufInd.
Register ==
    /\ total < MaxChunks
    /\ \E g \in Gaps : now' = now + g
    /\ total' = total + 1 /\ count' = count + 1
    /\ buf' = IF count % Ratio = 0 THEN PushBack(buf, [t |-> now', b |-> total']) ELSE buf
    /\ res' = NoRes
    /\ UNCHANGED <<memoB, memoT, pcS, seekTo, nClears, nSeeks>>

\* reset (channel switch): BufferIndexer::clear.  The memos are kept.
Clear ==
    /\ nClears < MaxClears
    /\ nClears' = nClears + 1
    /\ count' = 0 /\ buf' = <<>> /\ res' = NoRes
    /\ UNCHANGED <<total, now, memoB, memoT, pcS, seekTo, nSeeks>>

\* setSeekTime: maxSeekTime = getIndexSizeInTimeUs(); truncate the request.
SeekLimit ==
    /\ pcS = "idle" /\ nSeeks < MaxSeeks
    /\ nSeeks' = nSeeks + 1
    /\ \E v \in 0..MaxTime : seekTo' = IF v > IndexTime THEN IndexTime ELSE v
    /\ pcS' = "lookup" /\ res' = NoRes
    /\ UNCHANGED <<buf, count, total, now, memoB, memoT, nClears>>

\* setSeekTime: getByteOffsetFromTimeUs(seekTime); the offset becomes
\* mSeekByteOffset on BUF_OK.
SeekLookup ==
    /\ pcS = "lookup"
    /\ LET r == ByteOffsetFromTime(seekTo)
       IN  /\ memoB' = r.memo
           /\ res' = [op |-> "offset", in |-> seekTo, err |-> r.err, out |-> r.out,
                      fresh |-> r.fresh]
    /\ pcS' = "idle"
    /\ UNCHANGED <<buf, count, total, now, memoT, seekTo, nClears, nSeeks>>

\* getSeekTime: getTimeUsFromByteOffset(mSeekByteOffset).
ReportSeekTime ==
    /\ \E off \in 0..MaxBytes :
         \E r \in TimeFromByteOffset(off) :
            /\ memoT' = r.memo
            /\ res' = [op |-> "time", in |-> off, err |-> r.err, out |-> r.out,
                       fresh |-> r.fresh]
    /\ UNCHANGED <<buf, count, total, now, memoB, pcS, seekTo, nClears, nSeeks>>

Init ==
    /\ buf = <<>> /\ count = 0 /\ total = 0 /\ now = 0
    /\ memoB = [key |-> 0, val |-> 0] /\ memoT = [key |-> 0, val |-> 0]
    /\ pcS = "idle" /\ seekTo = 0 /\ res = NoRes
    /\ nClears = 0 /\ nSeeks = 0

Next == Register \/ Clear \/ SeekLimit \/ SeekLookup \/ ReportSeekTime

Spec == Init /\ [][Next]_vars

-----------------------------------------------------------------------------
(* Properties.                                                            *)

MaxClock == MaxChunks * Max(Gaps)

TypeOK ==
    /\ buf \in Seq([t : 0..MaxClock, b : 1..MaxChunks]) /\ Len(buf) <= BufCap
    /\ count \in 0..MaxChunks /\ total \in 0..MaxChunks /\ now \in 0..MaxClock
    /\ memoB \in [key : 0..MaxTime, val : 0..MaxChunks]
    /\ memoT \in [key : 0..MaxBytes, val : 0..MaxClock]
    /\ pcS \in {"idle", "lookup"} /\ seekTo \in 0..MaxTime
    /\ res \in [op : {"none", "offset", "time"}, in : 0..(MaxTime + MaxBytes),
                 err : Errs, out : {None} \cup 0..MaxClock, fresh : BOOLEAN]

\* The newest entry of the index whose key is at most target.
NewestUpTo(key, target) == Max({k \in FrontIndex..Size : buf[k][key] <= target})

\* A seek offset computed by getByteOffsetFromTimeUs (not taken from the
\* memo) points at the newest sample recorded no later than the requested
\* time behind live: the player starts at or before the time it asked for.
SeekOffsetCorrect ==
    (res.op = "offset" /\ res.fresh) =>
        res.out = Back.b - buf[NewestUpTo("t", Back.t - res.in)].b

\* Every byte offset getByteOffsetFromTimeUs hands to setSeekTime, from
\* the memo or not, lies within the index: mSeekByteOffset never points
\* before the oldest indexed data.
OffsetWithinIndex ==
    LET n == Min({Size, IndexCap})      \* the newest mTsbSize samples
    IN  (res.op = "offset" /\ res.out /= None) =>
            res.out <= (IF n = 0 THEN 0 ELSE Back.b - buf[Size - n + 1].b)

\* A seek time computed by getTimeUsFromByteOffset lies between the times
\* of the two samples that straddle the offset, strictly after the older
\* one's unless the offset is exactly a sample's.
TimeInterpolated ==
    (res.op = "time" /\ res.fresh) =>
        LET target == Back.b - res.in
            k == NewestUpTo("b", target)
        IN  /\ Back.t - buf[k + 1].t < res.out /\ res.out <= Back.t - buf[k].t
            /\ buf[k].b = target => res.out = Back.t - buf[k].t

=============================================================================
