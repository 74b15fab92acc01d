--------------------------- MODULE RtpReassembler ---------------------------
(***************************************************************************)
(* The RTP reorder stage of RtpStreamListener (3rdparty/rtp).  The        *)
(* listener thread reads one datagram at a time under mLock and runs      *)
(* processRtpPacket to completion, so one datagram is one atomic step.    *)
(* A datagram is abstracted to its RTP sequence number and the identity   *)
(* of its payload: the payload of the k-th datagram the sender emitted is *)
(* k, so the order of the payloads pushed downstream (variable out) can   *)
(* be compared with the sender's order.                                   *)
(*                                                                         *)
(* The network is the environment: the sender emits datagrams, the        *)
(* network loses some and delivers the others late by less than Lateness  *)
(* positions, duplicates them when Duplicates is TRUE, and the sender may *)
(* restart its sequence numbering (an RTP source restart), jumping by one *)
(* of JumpBy.  Datagrams of different sender epochs are not reordered     *)
(* across the restart.  With HeadFirst, no datagram of an epoch arrives  *)
(* before the epoch's earliest datagram that is not lost: the receiver    *)
(* then starts (and restarts, at a discontinuity) at the head of the      *)
(* stream; without it, the first datagram seen may be a later one.        *)
(* With ReorderInWindow, a datagram more than MaxDiff from the number    *)
(* the receiver expects arrives only once every earlier datagram has      *)
(* arrived or been lost: a loss may still open a gap the receiver sees as *)
(* a discontinuity, but no straggler from inside the gap arrives after    *)
(* it.  The window is measured from the expected number, as the code      *)
(* measures it, which stays on a lost datagram until the cache fills.     *)
(***************************************************************************)
EXTENDS Integers, Sequences, SequencesExt, FiniteSets

CONSTANTS
    SeqSpace,     \* sequence numbers are taken modulo SeqSpace (2^16 in the code)
    MaxDiff,      \* MAX_SEQNUM_DIFF_FOR_DISCONTINUITY
    MaxCache,     \* MAX_RTP_BUFFER_CACHE
    MaxSent,      \* bound: number of datagrams the sender emits
    Lateness,     \* a datagram arrives less than Lateness positions late
    Duplicates,   \* whether the network may deliver a datagram twice
    JumpBy,       \* sequence-number jumps a restarting sender may make
    StartSeq,     \* the sender's first sequence number
    HeadFirst,    \* the first datagram of each sender epoch arrives first
    ReorderInWindow \* no datagram is reordered across a gap beyond MaxDiff

ASSUME /\ SeqSpace \in Nat /\ SeqSpace >= 4 /\ SeqSpace % 2 = 0
       /\ MaxDiff \in 1..(SeqSpace \div 2)
       /\ MaxCache \in Nat \ {0}
       /\ MaxSent \in Nat /\ Lateness \in Nat \ {0}
       /\ Duplicates \in BOOLEAN
       /\ JumpBy \subseteq 1..(SeqSpace - 1)
       /\ StartSeq \in 0..(SeqSpace - 1)
       /\ HeadFirst \in BOOLEAN /\ ReorderInWindow \in BOOLEAN

\* MID_SEQUENCE_NUMBER (0x8000 for 16-bit sequence numbers).
Mid == SeqSpace \div 2

\* mNextSequenceNumber is an int initialised to -1: no datagram pushed yet.
NoSeq == -1

Seqs == 0..(SeqSpace - 1)
Pkts == 1..MaxSent

VARIABLES
    expected,     \* mNextSequenceNumber
    cache,        \* mBufferCache: sequence of [seq, pkt]
    out,          \* payloads handed to pushBuffertoBQ, in order
    aborted,      \* abort() was called (cache full)
    sent,         \* environment: sent[k] = [seq, epoch] of datagram k
    lost,         \* environment: datagrams the network dropped
    delivered,    \* environment: datagrams handed to the socket at least once
    maxDelivered  \* environment: highest datagram delivered so far

vars == <<expected, cache, out, aborted, sent, lost, delivered, maxDelivered>>

Entries == [seq : Seqs, pkt : Pkts]

-----------------------------------------------------------------------------
(* The receiver: processRtpPacket and its helpers.                        *)

\* diffSequenceNumber(first, second): signed circular distance.
Diff(first, second) ==
    IF first > second
    THEN IF first - second > Mid THEN -(SeqSpace + second - first)
                                 ELSE first - second
    ELSE IF second - first > Mid THEN SeqSpace + second - first
                                 ELSE -(second - first)

AbsVal(x) == IF x < 0 THEN -x ELSE x

\* Mutant of InOrder: sequencing disabled (disableSequencing = true).
InOrderUnsequenced(next, s) == TRUE

\* The in-order test of processRtpPacket (disableSequencing is false).
InOrder(next, s) == s = next \/ next = NoSeq

\* Mutant of Push: the expected number is not wrapped to 16 bits.
PushNoWrap(st, s, p) ==
    [st EXCEPT !.out = Append(@, p), !.next = s + 1]

\* pushBuffertoBQ: hand the payload downstream and advance the expected
\* sequence number.  st is the receiver state [next, cache, out, pushed].
Push(st, s, p) ==
    [st EXCEPT !.out = Append(@, p), !.next = (s + 1) % SeqSpace]

\* One pass of the for loop of processCachedBuffers from position i: every
\* entry equal to the expected number is pushed and erased; the loop keeps
\* going with the advanced expected number.
RECURSIVE Pass(_, _)
Pass(st, i) ==
    IF i > Len(st.cache) THEN st
    ELSE IF st.cache[i].seq = st.next
         THEN Pass([Push(st, st.cache[i].seq, st.cache[i].pkt)
                        EXCEPT !.cache = RemoveAt(@, i), !.pushed = TRUE], i)
         ELSE Pass(st, i + 1)

\* Mutant of Drain: the cache-full skip of a missing number is missing.
RECURSIVE DrainNoSkip(_)
DrainNoSkip(st) ==
    LET p == Pass([st EXCEPT !.pushed = FALSE], 1)
    IN  IF Len(p.cache) > 0 /\ p.pushed THEN DrainNoSkip(p) ELSE p

\* processCachedBuffers: repeat passes while something was pushed; when the
\* cache is full and nothing matched, give up on the missing number.
RECURSIVE Drain(_)
Drain(st) ==
    LET p == Pass([st EXCEPT !.pushed = FALSE], 1)
    IN  IF Len(p.cache) > 0 /\ p.pushed THEN Drain(p)
        ELSE IF Len(p.cache) = MaxCache
             THEN Drain([p EXCEPT !.next = (@ + 1) % SeqSpace])
             ELSE p

\* Mutant of AfterPush: the cache is never drained after a push.
AfterPushNoDrain(st, present) == st

\* The tail of processRtpPacket: drain if the cache held entries on entry.
AfterPush(st, present) == IF present THEN Drain(st) ELSE st

\* The capacity test before caching an out-of-order datagram.
HasRoom(c) == Len(c) < MaxCache

\* Sorted insertion: before the first entry that is ahead of the new one.
Insert(c, e) ==
    LET i == SelectInSeq(c, LAMBDA x : Diff(x.seq, e.seq) > 0)
    IN  IF i = 0 THEN Append(c, e) ELSE InsertAt(c, i, e)

\* Discontinuity: push every cached payload in cache order, erase them.
FlushAll(st) ==
    [st EXCEPT !.out = @ \o [i \in 1..Len(st.cache) |-> st.cache[i].pkt],
               !.cache = <<>>]

\* processRtpPacket for a well-formed datagram with sequence number s
\* carrying payload p.  Result: the new receiver state and the abort flag.
Process(s, p) ==
    LET st      == [next |-> expected, cache |-> cache, out |-> out,
                    pushed |-> FALSE]
        present == Len(cache) > 0
        d       == Diff(expected, s)
    IN  IF InOrder(expected, s)
        THEN [r |-> AfterPush(Push(st, s, p), present), abort |-> FALSE]
        ELSE IF AbsVal(d) > MaxDiff
        THEN [r |-> Push(FlushAll(st), s, p), abort |-> FALSE]
        ELSE IF HasRoom(cache)
        THEN [r |-> AfterPush([st EXCEPT !.cache = Insert(@, [seq |-> s, pkt |-> p])],
                              present),
              abort |-> FALSE]
        ELSE [r |-> st, abort |-> TRUE]

-----------------------------------------------------------------------------
(* The network and the sender.                                            *)

Init ==
    /\ expected = NoSeq
    /\ cache = <<>>
    /\ out = <<>>
    /\ aborted = FALSE
    /\ sent = <<>>
    /\ lost = {}
    /\ delivered = {}
    /\ maxDelivered = 0

\* The sender emits its next datagram, possibly after restarting its
\* sequence numbering.
Send ==
    /\ Len(sent) < MaxSent
    /\ \E jump \in {0} \cup JumpBy :
         LET prev == sent[Len(sent)]
             s    == IF sent = <<>> THEN StartSeq ELSE (prev.seq + 1 + jump) % SeqSpace
             ep   == IF sent = <<>> THEN 0 ELSE prev.epoch + (IF jump = 0 THEN 0 ELSE 1)
         IN  /\ sent = <<>> => jump = 0
             /\ sent' = Append(sent, [seq |-> s, epoch |-> ep])
    /\ UNCHANGED <<expected, cache, out, aborted, lost, delivered, maxDelivered>>

\* A datagram numbered s would be taken for a discontinuity.
OutsideWindow(s) == expected /= NoSeq /\ AbsVal(Diff(expected, s)) > MaxDiff

InFlight(k) == k \in 1..Len(sent) /\ k \notin lost /\ (k \notin delivered \/ Duplicates)

\* The network drops a datagram it has not delivered.
Lose ==
    /\ \E k \in 1..Len(sent) \ (lost \cup delivered) : lost' = lost \cup {k}
    /\ UNCHANGED <<expected, cache, out, aborted, sent, delivered, maxDelivered>>

\* The socket returns datagram k and the listener processes it.
Receive ==
    /\ ~aborted
    /\ \E k \in 1..Len(sent) :
         /\ InFlight(k)
         /\ k + Lateness > maxDelivered
         /\ \A j \in 1..Len(sent) :
              sent[j].epoch < sent[k].epoch => j \in lost \cup delivered
         /\ ReorderInWindow /\ OutsideWindow(sent[k].seq) =>
              \A j \in 1..(k - 1) : j \in lost \cup delivered
         /\ HeadFirst =>
              \/ \E j \in delivered : sent[j].epoch = sent[k].epoch
              \/ \A j \in 1..(k - 1) : sent[j].epoch = sent[k].epoch => j \in lost
         /\ LET res == Process(sent[k].seq, k)
            IN  /\ expected' = res.r.next
                /\ cache' = res.r.cache
                /\ out' = res.r.out
                /\ aborted' = res.abort
         /\ delivered' = delivered \cup {k}
         /\ maxDelivered' = IF k > maxDelivered THEN k ELSE maxDelivered
    /\ UNCHANGED <<sent, lost>>

\* A datagram whose header offsets overrun its length is logged and
\* dropped before the reorder logic: the receiver state is unchanged.
DropMalformed ==
    /\ ~aborted
    /\ UNCHANGED vars

Next == Send \/ Lose \/ Receive \/ DropMalformed

Spec == Init /\ [][Next]_vars

-----------------------------------------------------------------------------
(* Properties.                                                            *)

TypeOK ==
    /\ expected \in Seqs \cup {NoSeq}
    /\ cache \in Seq(Entries) /\ Len(cache) <= MaxCache
    /\ out \in Seq(Pkts)
    /\ aborted \in BOOLEAN
    /\ lost \subseteq Pkts /\ delivered \subseteq Pkts

\* The listener never reaches abort(): processCachedBuffers always leaves
\* room in the cache for the next out-of-order datagram, because it skips
\* a missing sequence number once the cache is full.
NeverAborts == ~aborted

\* The reorder stage implements OrderedDelivery: the datagrams the socket
\* returned are the payloads that arrived, and pushBuffertoBQ's output is
\* the output.  Every datagram processRtpPacket handles (in order, cached,
\* drained from the cache or flushed at a discontinuity) only ever appends
\* payloads that were received, in the sender's order and without
\* duplicates, above everything pushed before; the send and a loss in the
\* network leave both unchanged.
Delivery == INSTANCE OrderedDelivery WITH arrived <- delivered, out <- out

DeliversInOrder == Delivery!Spec

\* Once every datagram the sender emitted has been delivered (none lost),
\* nothing is left stranded in the reorder cache: every payload has been
\* handed downstream.
NothingStranded ==
    (delivered = DOMAIN sent /\ lost = {}) =>
        /\ cache = <<>>
        /\ ToSet(out) = delivered

\* The spec's cache invariant: the cache holds only datagrams still ahead
\* of the expected sequence number (pending future datagrams).
CacheHoldsOnlyPending ==
    \A i \in 1..Len(cache) : Diff(expected, cache[i].seq) < 0

=============================================================================
