------------------------------- MODULE PSIParser -------------------------------
(***************************************************************************)
(* StreamParser::PSIParser, the asynchronous stream consumer that finds    *)
(* the PAT, PMT and Verimatrix ECM of the current channel and publishes    *)
(* them once per channel switch to the kDrm0 monitored variable.          *)
(*                                                                         *)
(* Threads:                                                               *)
(*   consumer - MediaSourceHandler::consumerLoop calling post() with each *)
(*              chunk it cuts from the producer buffers;                  *)
(*   parser   - threadLoop: pop a chunk, processChunk (TSStream window,   *)
(*              parseTsPacket per TS packet, publish on a NEW_ result);   *)
(*   control  - MediaSourceHandler::open(uri): disconnect/onEndOfStream, *)
(*              the demuxer callback's notifyStreamSwitched (an empty     *)
(*              kEcm0, whose watcher is notifyConfigurationChanged),      *)
(*              connect and demuxer open, then StreamSource::onOpen;      *)
(*   http     - the demuxer thread filling producer buffers of the        *)
(*              connected channel;                                        *)
(*   callback - NokiaSocketCbHandler::openLoop, fed by the front end with *)
(*              the sections of the connected channel (NokiaHandler).     *)
(*                                                                         *)
(* Data is abstracted to units: a TS packet is PacketUnits consecutive     *)
(* units of one channel's stream and a buffer_chunk is ChunkUnits units.  *)
(* A unit is [ch, n], the n-th unit of channel ch since it was opened.    *)
(* Each channel's stream repeats Layout[ch], a sequence of packet kinds; *)
(* "ecm1" starts an ECM section that "ecm2" continues.  All channels use  *)
(* the same PIDs, and a channel's table versions are the channel itself,  *)
(* so two channels never share a version.  A packet whose units are not   *)
(* consecutive units of one stream has garbage in its payload: whether   *)
(* the header checks of parsePat/parsePmt/parseEcm accept it is an input. *)
(***************************************************************************)
EXTENDS Integers, Sequences, FiniteSets

CONSTANTS
    Channels,     \* URIs open may be called with
    Scrambled,    \* channels whose PMT has a VMX CA descriptor
    Layout,       \* Layout[c]: packet kinds of one period of channel c
    PacketUnits,  \* TS_PACKAGE_SIZE
    ChunkUnits,   \* BUFFER_CHUNK_SIZE
    BufUnits,     \* FEIP_BUFFER_SIZE (a multiple of TS_PACKAGE_SIZE)
    MaxUnits,     \* bound: units the http thread delivers per channel
    MaxOpens      \* bound: calls of open

ASSUME /\ Scrambled \subseteq Channels
       /\ PacketUnits \in Nat \ {0} /\ ChunkUnits >= PacketUnits
       /\ BufUnits % PacketUnits = 0

NoCh == "none"                 \* empty uri / empty mChannel
Kinds == {"pat", "pmt", "ecm1", "ecm2", "av"}
EcmParts == 2                  \* packets an ECM section spans
\* PIDs: 0 for the PAT, and one PID for each PSI table of every channel.
PatPid == "pid0"
PidOf(k) == CASE k = "pat" -> PatPid
              [] k = "pmt" -> "pmtPid"
              [] k \in {"ecm1", "ecm2"} -> "ecmPid"
              [] k = "av" -> "avPid"
NoPid == "invalid"             \* PSI_INVALID_PID
NoVer == "none"                \* mVersionValid == false
NoTable == [ch |-> NoCh, ok |-> FALSE]
Units == [ch : Channels, n : 0..MaxUnits]

VARIABLES
    srcCh,      \* channel the http thread streams, NoCh when disconnected
    srcN,       \* next unit of srcCh
    hbuf,       \* httpBuffer[mHttpBufCount] up to mCurrentOffset
    feed,       \* units in producer buffers not yet cut into chunks
    running,    \* mPsiParserRunning
    mChannel,   \* mChannel
    queue,      \* mQueue: chunks waiting for the parser
    win,        \* mTsStream.mCircBuf: at most two chunks
    ptr,        \* mTsStream.mPointer
    pat, pmt, ecm, \* PidInfo mPat, mPmt, mEcm: [pid, ver, pkt]
    clear,      \* mIsClearStream
    pstate,     \* mParserState
    coll,       \* ECM collection: [on, exp, data]
    ecmTable,   \* mEcmTable
    cdm,        \* kCdm0 (mIsCdmSetupDone)
    drm,        \* kDrm0
    pcP,        \* parser: "idle", "parse" (inside processChunk), "publish"
    pcO,        \* control: step of open
    cur,        \* mCurrentUri
    nOpens,
    sent, sock, patRx, ecmRx, chIp, kPat, kPmt, kEcm, \* NokiaHandler
    pubs        \* parser writes of kDrm0 since the last empty kEcm0

srcVars == <<srcCh, srcN, hbuf, feed>>
tableVars == <<pat, pmt, ecm, clear, pstate, coll, ecmTable>>
parserVars == <<win, ptr, pcP>>
cbVars == <<sent, sock, patRx, ecmRx, chIp, kPat, kPmt, kEcm>>
vars == <<srcVars, running, mChannel, queue, parserVars, tableVars, cdm, drm,
          pcO, cur, nOpens, cbVars, pubs>>

\* The demuxer callback handler, with the front end tuned to srcCh.
Nokia == INSTANCE NokiaHandler WITH tuned <- srcCh

(* Stream content.                                                         *)
KindAt(c, n) == Layout[c][((n \div PacketUnits) % Len(Layout[c])) + 1]
UnitsOf(c, from, len) == [i \in 1..len |-> [ch |-> c, n |-> from + i - 1]]
Intact(pk) == \A i \in 1..PacketUnits :
                pk[i].ch = pk[1].ch /\ pk[i].n = pk[1].n + i - 1
\* packet[0] == 0x47: the first unit starts a packet.
Synced(pk) == pk[1].n % PacketUnits = 0
\* What the parser keeps of a packet: the channel whose header it carries
\* and whether its payload is that channel's.
Snapshot(pk) == [ch |-> pk[1].ch, ok |-> Intact(pk)]

(* PidInfo.                                                                *)
PidInfoOf(p) == [pid |-> p, ver |-> NoVer, pkt |-> NoTable]
Reset(pi) == PidInfoOf(NoPid)
SetPid(pi, p) == IF pi.pid /= NoPid THEN pi ELSE [pi EXCEPT !.pid = p]
IsPid(pi, p) == pi.pid /= NoPid /\ pi.pid = p
IsNew(pi, v) == pi.pid /= NoPid /\ (pi.ver = NoVer \/ pi.ver /= v)
SetVer(pi, v) == IF pi.pid = NoPid THEN pi ELSE [pi EXCEPT !.ver = v]
Processed(pi) == pi.ver /= NoVer
NoCollection == [on |-> FALSE, exp |-> 0, data |-> <<>>]
EcmPiece(pk) == [ch |-> pk[1].ch, n |-> pk[1].n, ok |-> Intact(pk)]
NewActions == {"NEW_ECM", "NEW_ECMT", "NEW_PAT_PMT"}
NoDrm == [ch |-> NoCh, pat |-> NoTable, pmt |-> NoTable, ecm |-> <<>>,
          clear |-> FALSE]

(***************************************************************************)
(* parseTsPacket and the parsers it calls, over the table state           *)
(* t = [pat, pmt, ecm, clear, st, coll, tbl]; each returns [t, rv, cdm],   *)
(* rv the ParserActionT and cdm whether *mIsCdmSetupDone = true was done. *)
(* acc is whether the header checks pass on the packet's bytes.           *)
(***************************************************************************)
Result(t, rv, c) == [t |-> t, rv |-> rv, cdm |-> c]

\* parsePat: on a new version reset mPmt and mEcm and take the PMT PID.
ParsePat(t, pk, acc) ==
    LET v == pk[1].ch
    IN  IF ~acc THEN Result(t, "ERROR", FALSE)
        ELSE IF IsNew(t.pat, v)
        THEN Result([t EXCEPT !.pmt = SetPid(Reset(t.pmt), PidOf("pmt")),
                              !.ecm = Reset(t.ecm),
                              !.pat = [SetVer(t.pat, v) EXCEPT !.pkt = Snapshot(pk)]],
                    "IGNORE", FALSE)
        ELSE Result(t, "IGNORE", FALSE)

\* parsePmt: on a new version take the ECM PID of a VMX CA descriptor, or
\* declare the stream clear, keep the PMT and set kCdm0.
ParsePmt(t, pk, acc) ==
    LET v   == pk[1].ch
        scr == pk[1].ch \in Scrambled
        pmt1 == SetVer(t.pmt, v)
        ecm1 == IF scr /\ ~IsPid(t.ecm, PidOf("ecm1"))
                THEN [pid |-> PidOf("ecm1"), ver |-> NoVer, pkt |-> Snapshot(pk)]
                ELSE t.ecm
    IN  IF ~acc \/ ~IsNew(t.pmt, v) THEN Result(t, "ERROR", FALSE)
        ELSE IF scr
        THEN Result([t EXCEPT !.pmt = pmt1, !.ecm = ecm1, !.clear = FALSE],
                    "IGNORE", FALSE)
        ELSE Result([t EXCEPT !.pmt = [pmt1 EXCEPT !.pkt = Snapshot(pk)],
                              !.clear = TRUE],
                    "NEW_PAT_PMT", TRUE)

\* The state machine step of parseTsPacket after a PMT packet.
AfterPmt(t) ==
    IF ~Processed(t.pmt) THEN t
    ELSE CASE t.st \in {"NEEDS_PMT", "NEEDS_VMX_PMT", "NO_ECM"} /\ ~t.clear ->
                [t EXCEPT !.st = IF t.ecm.pid /= NoPid THEN "NEEDS_ECM"
                                                       ELSE "NEEDS_VMX_PMT"]
           [] t.st \in {"NEEDS_ECM", "GOT_ECM"} /\ t.clear ->
                [t EXCEPT !.st = "NO_ECM", !.ecm = Reset(t.ecm)]
           [] OTHER -> t

\* Completion of an ECM section, in parseEcm and collectEcm.
EcmComplete(t, data, first) ==
    LET v == data[1].ch
        t1 == [t EXCEPT !.coll = NoCollection]
    IN  IF IsNew(t.ecm, v)
        THEN Result([t1 EXCEPT !.ecm = SetVer(t.ecm, v), !.tbl = data],
                    IF first THEN "NEW_ECM" ELSE "NEW_ECMT", FALSE)
        ELSE Result(t1, "IGNORE", FALSE)

\* collectEcm: any packet on the ECM PID continues the section.
CollectEcm(t, pk, acc) ==
    LET data == Append(t.coll.data, EcmPiece(pk))
    IN  IF ~acc THEN Result(t, "ERROR", FALSE)
        ELSE IF Len(data) = t.coll.exp THEN EcmComplete(t, data, FALSE)
        ELSE Result([t EXCEPT !.coll.data = data], "IGNORE", FALSE)

\* parseEcm: a section starts with table id 0x80/0x81 and "VMECM".
ParseEcm(t, pk, acc) ==
    LET start == KindAt(pk[1].ch, pk[1].n) = "ecm1" /\ acc
        data  == <<EcmPiece(pk)>>
    IN  IF t.coll.on THEN CollectEcm(t, pk, acc)
        ELSE IF ~start THEN Result(t, "ERROR", FALSE)
        ELSE IF EcmParts > Len(data)
        THEN Result([t EXCEPT !.coll = [on |-> TRUE, exp |-> EcmParts,
                                         data |-> data]], "IGNORE", FALSE)
        ELSE EcmComplete(t, data, TRUE)

ParseTsPacket(t, pk, acc) ==
    LET pid == PidOf(KindAt(pk[1].ch, pk[1].n))
    IN  IF IsPid(t.pat, pid) THEN
          LET r == ParsePat(t, pk, acc)
              u == r.t
          IN  IF u.st = "NEEDS_PAT" /\ Processed(u.pat) /\ u.pmt.pid /= NoPid
              THEN [r EXCEPT !.t.st = "NEEDS_PMT"] ELSE r
        ELSE IF IsPid(t.pmt, pid) THEN
          LET r == ParsePmt(t, pk, acc) IN [r EXCEPT !.t = AfterPmt(r.t)]
        ELSE IF IsPid(t.ecm, pid) THEN
          LET r == ParseEcm(t, pk, acc)
              u == r.t
          IN  IF u.st = "NEEDS_PMT" /\ Processed(u.ecm)
              THEN [r EXCEPT !.t.st = "GOT_ECM"] ELSE r
        ELSE Result(t, "IGNORE", FALSE)      \* ParseOther

(***************************************************************************)
(* TSStream::getNextPacket: NOT_ENOUGH_DATA when the window is empty or   *)
(* holds one chunk with less than a packet left; otherwise the packet at  *)
(* mPointer, read across into the second chunk when the first runs out.  *)
(***************************************************************************)
NotEnoughData == Len(win) = 0 \/ (Len(win) = 1 /\ ChunkUnits - ptr < PacketUnits)

\* Mutant: the straddling read forgets mCircBuf.pop_front().
NextPacketNoPop ==
    IF ChunkUnits - ptr >= PacketUnits
    THEN LET p == ptr + PacketUnits
         IN  [pk  |-> SubSeq(win[1], ptr + 1, p),
              win |-> IF p = ChunkUnits THEN Tail(win) ELSE win,
              ptr |-> IF p = ChunkUnits THEN 0 ELSE p]
    ELSE LET firstSeq  == ChunkUnits - ptr
             secondSeq == PacketUnits - firstSeq
         IN  [pk  |-> SubSeq(win[1], ptr + 1, ChunkUnits) \o SubSeq(win[2], 1, secondSeq),
              win |-> win,
              ptr |-> secondSeq]

NextPacket ==
    IF ChunkUnits - ptr >= PacketUnits
    THEN LET p == ptr + PacketUnits
         IN  [pk  |-> SubSeq(win[1], ptr + 1, p),
              win |-> IF p = ChunkUnits THEN Tail(win) ELSE win,
              ptr |-> IF p = ChunkUnits THEN 0 ELSE p]
    ELSE LET firstSeq  == ChunkUnits - ptr
             secondSeq == PacketUnits - firstSeq
         IN  [pk  |-> SubSeq(win[1], ptr + 1, ChunkUnits) \o SubSeq(win[2], 1, secondSeq),
              win |-> Tail(win),
              ptr |-> secondSeq]

Tables == [pat |-> pat, pmt |-> pmt, ecm |-> ecm, clear |-> clear,
           st |-> pstate, coll |-> coll, tbl |-> ecmTable]

SetTables(t) == /\ pat' = t.pat /\ pmt' = t.pmt /\ ecm' = t.ecm
                /\ clear' = t.clear /\ pstate' = t.st /\ coll' = t.coll
                /\ ecmTable' = t.tbl

(***************************************************************************)
(* Parser thread.                                                          *)
(***************************************************************************)
\* Mutant: insertChunk without its size check.
ParserPopAlwaysInserts ==
    /\ pcP = "idle" /\ queue /= <<>>
    /\ win' = Append(win, Head(queue))
    /\ queue' = Tail(queue)
    /\ pcP' = "parse"
    /\ UNCHANGED <<srcVars, running, mChannel, ptr, tableVars, cdm, drm,
                   pcO, cur, nOpens, cbVars, pubs>>

\* threadLoop pops a chunk; processChunk inserts it unless the window
\* already holds two chunks ("Continuity error, unable to insert array").
ParserPop ==
    /\ pcP = "idle" /\ queue /= <<>>
    /\ win' = IF Len(win) < 2 THEN Append(win, Head(queue)) ELSE win
    /\ queue' = Tail(queue)
    /\ pcP' = "parse"
    /\ UNCHANGED <<srcVars, running, mChannel, ptr, tableVars, cdm, drm,
                   pcO, cur, nOpens, cbVars, pubs>>

\* The while loop of processChunk ends on NOT_ENOUGH_DATA.
ParserDone ==
    /\ pcP = "parse" /\ NotEnoughData
    /\ pcP' = "idle"
    /\ UNCHANGED <<srcVars, running, mChannel, queue, win, ptr, tableVars,
                   cdm, drm, pcO, cur, nOpens, cbVars, pubs>>

\* ... and on DATA_CC_ERROR, after getNextPacket has moved past the packet.
ParserCcError ==
    /\ pcP = "parse" /\ ~NotEnoughData /\ ~Synced(NextPacket.pk)
    /\ win' = NextPacket.win /\ ptr' = NextPacket.ptr
    /\ pcP' = "idle"
    /\ UNCHANGED <<srcVars, running, mChannel, queue, tableVars, cdm, drm,
                   pcO, cur, nOpens, cbVars, pubs>>

\* One packet through parseTsPacket (under mPidInfoMtx); on a NEW_ result
\* the atomic mPsiParserRunning is tested.
ParserPacket ==
    /\ pcP = "parse" /\ ~NotEnoughData
    /\ LET f == NextPacket
       IN  /\ Synced(f.pk)
           /\ \E acc \in IF Intact(f.pk) THEN {TRUE} ELSE BOOLEAN :
                LET r == ParseTsPacket(Tables, f.pk, acc)
                IN  /\ SetTables(r.t)
                    /\ cdm' = (cdm \/ r.cdm)
                    /\ pcP' = IF r.rv \in NewActions /\ running
                              THEN "publish" ELSE "parse"
           /\ win' = f.win /\ ptr' = f.ptr
    /\ UNCHANGED <<srcVars, running, mChannel, queue, drm, pcO, cur, nOpens,
                   cbVars, pubs>>

\* getCurrentPmt: the PMT kept in mPmt for a clear stream, else the PMT
\* packet kept in mEcm; getCurrentPat: the PAT kept in mPat.
CurrentPmt == IF clear THEN pmt.pkt ELSE ecm.pkt
CurrentPat == pat.pkt

\* *mDrm = StreamProtectionConfig(HIGH, mChannel, ecm, pat, pmt, clear);
\* mPsiParserRunning = false.  mChannel and the tables are read without
\* mStreamMtx or mPidInfoMtx.
ParserPublish ==
    /\ pcP = "publish"
    /\ drm' = [ch |-> mChannel, pat |-> CurrentPat, pmt |-> CurrentPmt,
               ecm |-> ecmTable, clear |-> clear]
    /\ running' = FALSE
    /\ pcP' = "parse"
    /\ pubs' = pubs + 1
    /\ UNCHANGED <<srcVars, mChannel, queue, win, ptr, tableVars, cdm, pcO,
                   cur, nOpens, cbVars>>

(***************************************************************************)
(* Producer side.                                                          *)
(***************************************************************************)
\* HttpDemuxerImpl::write, one unit at a time: a full buffer is pushed to
\* the producer queue, labelled with strdup(mUri).
HttpWrite ==
    /\ srcCh /= NoCh /\ srcN < MaxUnits
    /\ LET b == Append(hbuf, [ch |-> srcCh, n |-> srcN])
       IN  IF Len(b) = BufUnits
           THEN /\ feed' = feed \o b /\ hbuf' = <<>>
           ELSE /\ hbuf' = b /\ UNCHANGED feed
    /\ srcN' = srcN + 1
    /\ UNCHANGED <<srcCh, running, mChannel, queue, parserVars, tableVars,
                   cdm, drm, pcO, cur, nOpens, cbVars, pubs>>

\* consumerLoop completes a chunk and calls post with the channelInfo of
\* the buffer holding its last byte: a new channel clears the queue; the
\* chunk is queued only while mPsiParserRunning.
Post ==
    /\ Len(feed) >= ChunkUnits
    /\ LET chunk == SubSeq(feed, 1, ChunkUnits)
           ch    == chunk[ChunkUnits].ch
           q     == IF ch /= mChannel THEN <<>> ELSE queue
       IN  /\ mChannel' = ch
           /\ queue' = IF running THEN Append(q, chunk) ELSE q
    /\ feed' = SubSeq(feed, ChunkUnits + 1, Len(feed))
    /\ UNCHANGED <<srcCh, srcN, hbuf, running, parserVars, tableVars, cdm, drm,
                   pcO, cur, nOpens, cbVars, pubs>>

(***************************************************************************)
(* MediaSourceHandler::open(uri), serialised by mFeipConfMutex.            *)
(***************************************************************************)
\* mCurrentUri = uri (same uri: return -1), then disconnect: a connected
\* session calls onEndOfStream, and PSIParser sets kCdm0 false.
OpenStart ==
    /\ pcO = "idle" /\ nOpens < MaxOpens
    /\ \E u \in (Channels \cup {NoCh}) \ {cur} :
         /\ cur' = u
         /\ cdm' = IF cur /= NoCh THEN FALSE ELSE cdm
    /\ nOpens' = nOpens + 1
    /\ pcO' = "notify"
    /\ UNCHANGED <<srcVars, running, mChannel, queue, parserVars, tableVars,
                   drm, cbVars, pubs>>

\* mDmxCb->notifyStreamSwitched(uri): the handler restarts its message
\* order and writes an empty kEcm0, whose watcher notifyConfigurationChanged
\* sets mPsiParserRunning under mStreamMtx.  An empty uri goes to finish.
OpenNotify ==
    /\ pcO = "notify"
    /\ Nokia!NotifyStreamSwitched(cur)
    /\ pubs' = 0
    /\ pcO' = IF cur = NoCh THEN "idle" ELSE "connect"
    /\ UNCHANGED <<srcN, hbuf, feed, mChannel, queue, parserVars, tableVars, cdm,
                   cur, nOpens>>

\* connect, then mDemuxer->open(uri): the old http thread is joined and a
\* new one streams uri into the same, partly filled, buffer.
OpenDemuxer ==
    /\ pcO = "connect"
    /\ srcCh' = cur /\ srcN' = 0 /\ sent' = 0
    /\ pcO' = "clear"
    /\ UNCHANGED <<hbuf, feed, running, mChannel, queue, parserVars, tableVars,
                   cdm, drm, cur, nOpens, sock, patRx, ecmRx, chIp, kPat, kPmt,
                   kEcm, pubs>>

\* StreamSource::onOpen -> PSIParser::onOpen: clearQueue ...
OpenClearQueue ==
    /\ pcO = "clear"
    /\ queue' = <<>>
    /\ pcO' = "reset"
    /\ UNCHANGED <<srcVars, running, mChannel, parserVars, tableVars, cdm, drm,
                   cur, nOpens, cbVars, pubs>>

\* ... then, under mPidInfoMtx, reset the collection, the tables and the
\* state.  The TSStream window is left as it is.
OpenReset ==
    /\ pcO = "reset"
    /\ coll' = NoCollection /\ ecmTable' = <<>>
    /\ ecm' = Reset(ecm) /\ pmt' = Reset(pmt) /\ pat' = PidInfoOf(PatPid)
    /\ pstate' = "NEEDS_PAT"
    /\ pcO' = "idle"
    /\ UNCHANGED <<srcVars, running, mChannel, queue, parserVars, clear, cdm,
                   drm, cur, nOpens, cbVars, pubs>>

\* The front end sends a section message for the channel it is connected
\* to (a disconnect by open ends its messages for the old channel), and
\* openLoop handles one message (NokiaHandler).
CallbackSend ==
    /\ srcCh = cur
    /\ Nokia!FeipSend
    /\ UNCHANGED <<srcN, hbuf, feed, mChannel, queue, parserVars, tableVars, cdm,
                   pcO, cur, nOpens, pubs>>

CallbackRecv ==
    /\ Nokia!Recv
    /\ UNCHANGED <<srcN, hbuf, feed, mChannel, queue, parserVars, tableVars, cdm,
                   pcO, cur, nOpens, pubs>>

Init ==
    /\ srcCh = NoCh /\ srcN = 0 /\ hbuf = <<>> /\ feed = <<>>
    /\ running = FALSE /\ mChannel = NoCh /\ queue = <<>>
    /\ win = <<>> /\ ptr = 0 /\ pcP = "idle"
    /\ pat = PidInfoOf(PatPid) /\ pmt = PidInfoOf(PatPid) /\ ecm = PidInfoOf(PatPid)
    /\ clear = FALSE /\ pstate = "NEEDS_PAT" /\ coll = NoCollection
    /\ ecmTable = <<>>
    /\ cdm = TRUE /\ drm = NoDrm
    /\ pcO = "idle" /\ cur = NoCh /\ nOpens = 0 /\ pubs = 0
    /\ sent = 0 /\ sock = <<>> /\ patRx = TRUE /\ ecmRx = TRUE /\ chIp = NoCh
    /\ kPat = NoTable /\ kPmt = NoTable /\ kEcm = NoTable

Parser == ParserPop \/ ParserDone \/ ParserCcError \/ ParserPacket \/ ParserPublish
Control == OpenNotify \/ OpenDemuxer \/ OpenClearQueue \/ OpenReset
Producer == HttpWrite \/ Post

Callback == CallbackSend \/ CallbackRecv

Next == Parser \/ Producer \/ OpenStart \/ Control \/ Callback

Spec == Init /\ [][Next]_vars

\* The parser thread polls its queue every 100 ms, the consumer loop and
\* the http thread run while data arrives, and open runs to its end once
\* called.  Whether open is called, and whether the front end sends its
\* messages, are up to the environment.
FairSpec == Spec /\ WF_vars(Parser) /\ WF_vars(Producer) /\ WF_vars(Control)

(***************************************************************************)
(* Properties.                                                             *)
(***************************************************************************)
Tbl == [ch : Channels \cup {NoCh}, ok : BOOLEAN]
Piece == [ch : Channels, n : 0..MaxUnits, ok : BOOLEAN]
PidInfos == [pid : {PatPid, "pmtPid", "ecmPid", NoPid}, ver : Channels \cup {NoVer},
             pkt : Tbl]

TypeOK ==
    /\ srcCh \in Channels \cup {NoCh} /\ srcN \in 0..MaxUnits
    /\ hbuf \in Seq(Units) /\ Len(hbuf) < BufUnits /\ feed \in Seq(Units)
    /\ running \in BOOLEAN /\ mChannel \in Channels \cup {NoCh}
    /\ queue \in Seq([1..ChunkUnits -> Units])
    /\ win \in Seq([1..ChunkUnits -> Units]) /\ Len(win) <= 2
    /\ ptr \in 0..ChunkUnits - 1
    /\ {pat, pmt, ecm} \subseteq PidInfos
    /\ clear \in BOOLEAN
    /\ pstate \in {"NEEDS_PAT", "NEEDS_PMT", "NEEDS_VMX_PMT", "NEEDS_ECM",
                   "GOT_ECM", "NO_ECM"}
    /\ coll.on \in BOOLEAN /\ coll.data \in Seq(Piece) /\ Len(coll.data) < EcmParts
    /\ ecmTable \in Seq(Piece)
    /\ cdm \in BOOLEAN
    /\ drm.ch \in Channels \cup {NoCh} /\ drm.pat \in Tbl /\ drm.pmt \in Tbl
    /\ pcP \in {"idle", "parse", "publish"}
    /\ pcO \in {"idle", "notify", "connect", "clear", "reset"}
    /\ pubs \in Nat
    /\ sent \in 0..2 /\ sock \in Seq([ch : Channels, kind : Nokia!Kinds])
    /\ patRx \in BOOLEAN /\ ecmRx \in BOOLEAN /\ chIp \in Channels \cup {NoCh}
    /\ {kPat, kPmt, kEcm} \subseteq Tbl

\* An ECM table is one section: its first packet starts a section on the
\* channel and the next packets are the section's following packets.
IsSection(c, tb) ==
    /\ Len(tb) = EcmParts
    /\ \A i \in 1..Len(tb) : tb[i].ok /\ tb[i].ch = c
                             /\ tb[i].n = tb[1].n + (i - 1) * PacketUnits
    /\ KindAt(c, tb[1].n) = "ecm1"

(* The window read by getNextPacket, as one sequence from mPointer on.   *)
Unread(w, p) == LET all == IF w = <<>> THEN <<>> ELSE IF Len(w) = 1 THEN w[1]
                                                     ELSE w[1] \o w[2]
                IN  SubSeq(all, p + 1, Len(all))

\* getNextPacket against its reference: it reports NOT_ENOUGH_DATA exactly
\* when less than a packet is unread, and otherwise returns the next
\* PacketUnits unread units and leaves the rest, in order, for the next
\* call, also when the packet straddles the two chunks of mCircBuf.
NextPacketReadsWindow ==
    LET u == Unread(win, ptr)
    IN  /\ NotEnoughData = (Len(u) < PacketUnits)
        /\ ~NotEnoughData =>
              /\ NextPacket.pk = SubSeq(u, 1, PacketUnits)
              /\ Unread(NextPacket.win, NextPacket.ptr)
                    = SubSeq(u, PacketUnits + 1, Len(u))

\* Not checked by a run (TLC finds it violated, see README): processChunk
\* writes kDrm0 at most once after each channel switch, as spec 4.5 says
\* ("only once per channel"), whatever packets, resets and socket
\* messages follow.  A clear channel's ECM message of length 0 empties
\* kEcm0 (NokiaSocketCbHandler.cpp:299), which sets mPsiParserRunning
\* again without a switch.
PublishOncePerSwitch == pubs <= 1

\* Not checked by a run (TLC finds both violated, see README): a drm the
\* parser publishes carries the PAT and PMT of the channel it names, and
\* the ECM table it stores is one whole section of one channel.
DrmTablesOfChannel ==
    drm /= NoDrm =>
        /\ drm.pat.ch = drm.ch /\ drm.pat.ok
        /\ drm.pmt.ch = drm.ch /\ drm.pmt.ok
        /\ drm.clear = (drm.ch \notin Scrambled)

EcmTableIntact == ecmTable /= <<>> => IsSection(ecmTable[1].ch, ecmTable)

\* Not checked by a run (TLC finds it violated, see README): the sections
\* NokiaSocketCbHandler holds in kPat0, kPmt0 and kEcm0 are the PAT, PMT
\* and ECM of the channel notifyStreamSwitched last named.
NokiaSectionsOfChannel ==
    \A v \in {kPat, kPmt, kEcm} : v /= NoTable => v = Nokia!Section(chIp, TRUE)

================================================================================
